--------------------------- MODULE RoutingProofs ---------------------------
(***************************************************************************)
(* Proofs about attach and failover, for every number of sessions and of   *)
(* endpoints, every configuration and every number of events.              *)
(***************************************************************************)
EXTENDS Routing, FiniteSetTheorems, WellFoundedInduction, TLAPS

\* A leaf that names no prover is tried by SMT, by Zenon, and by SMT again.
USE SMTT(60), ZenonT(30), SMTT(60)

(***************************************************************************)
(* What the proofs rest on: an endpoint that is down, and one that broke a *)
(* connection, was down at some time; a session that is attached loses its *)
(* lease to the endpoint it is attached to, but for the first lease of     *)
(* session mode.                                                           *)
(***************************************************************************)

HealthOK == \A e \in Endpoint : health[e].st = "alive" => ~health[e].due

\* What holds of a session's link: a broken one is in use, and its endpoint was down.
LinkOK(l, down, held) ==
    /\ ~l.ok => l.ep \in down /\ l.at \in {"replaying", "attached"}
    /\ l.at = "attached" => l.cur = l.ep \/ (held /\ l.cur = Default)

LinksOK == \A s \in Session : LinkOK(sess[s], downed, SessionMode)

DownOK == \A e \in Endpoint : ~up[e] \/ idle[e].bad > 0 => e \in downed

\* An attempt under way is one of those the loop makes.
Trial(l) == l.at \in {"connecting", "replaying"} => l.tries < Attempts

TriesOK == \A s \in Session : Trial(sess[s])

Typed == TypeOK /\ HealthOK /\ TriesOK

-----------------------------------------------------------------------------
(***************************************************************************)
(* What the helpers return.                                                *)
(***************************************************************************)

\* A nonempty set of numbers has a least one.
LEMMA LeastOf ==
    ASSUME NEW T \in SUBSET Nat, T # {}
    PROVE  \E x \in T : \A y \in T : x <= y
<1>1. \E x \in T : \A y \in T : ~ (<<y, x>> \in OpToRel(<, Nat))
  BY NatLessThanWellFounded, WFMin, Zenon
<1>2. \A x, y \in Nat : ~ (<<y, x>> \in OpToRel(<, Nat)) => x <= y
  BY DEF OpToRel
<1> QED  BY <1>1, <1>2, Zenon

\* The configured endpoints are finitely many, no more than the list is long.
LEMMA EndpointsFinite ==
    /\ Default \in Endpoint /\ Len(Order) \in Nat \ {0} /\ DOMAIN Order = 1..Len(Order)
    /\ IsFiniteSet(Endpoint) /\ Cardinality(Endpoint) \in Nat
    /\ Cardinality(Endpoint) <= Len(Order)
<1>1. /\ Order \in Seq(Endpoint) /\ Len(Order) \in Nat \ {0} /\ DOMAIN Order = 1..Len(Order)
  BY RoutingAssumption DEF Endpoint
<1>2. Default \in Endpoint
  BY <1>1 DEF Default, Endpoint
<1>3. Order \in Surjection(1..Len(Order), Endpoint)
  BY <1>1 DEF Surjection, Endpoint
<1>4. IsFiniteSet(1..Len(Order)) /\ Cardinality(1..Len(Order)) = Len(Order)
  BY <1>1, FS_Interval
<1>5. IsFiniteSet(Endpoint) /\ Cardinality(Endpoint) <= Len(Order)
  BY <1>3, <1>4, FS_Surjection
<1> QED  BY <1>1, <1>2, <1>5, FS_CardinalityType

\* The loop makes at least two attempts.
LEMMA AttemptsAreNat == Attempts \in Nat /\ Attempts >= 2 /\ 0 \in 0..Attempts
  BY EndpointsFinite DEF Attempts

\* A pick among given endpoints is one of them, if there is one (select_first_alive).
LEMMA FirstOrPicks ==
    ASSUME NEW E
    PROVE  /\ FirstOr(E) \in Endpoint
           /\ E \cap Endpoint # {} => FirstOr(E) \in E
           /\ E \cap Endpoint = {} => FirstOr(E) = Default
<1> DEFINE good == {i \in DOMAIN Order : Order[i] \in E}
<1>1. FirstOr(E) = IF good = {} THEN Default
                   ELSE Order[CHOOSE i \in good : \A j \in good : i <= j]
  BY DEF FirstOr
<1>2. good \in SUBSET Nat /\ good \subseteq DOMAIN Order
  BY EndpointsFinite
<1>3. good = {} <=> E \cap Endpoint = {}
  BY DEF Endpoint
<1>4. CASE good = {}
  BY <1>1, <1>3, <1>4, EndpointsFinite
<1>5. CASE good # {}
  <2>1. \E i \in good : \A j \in good : i <= j
    BY <1>2, <1>5, LeastOf, Zenon
  <2>2. (CHOOSE i \in good : \A j \in good : i <= j) \in good
    BY <2>1
  <2> QED  BY <1>1, <1>3, <1>5, <2>2, Zenon DEF Endpoint
<1> QED  BY <1>4, <1>5

\* The first endpoint is picked if it is among those given.
LEMMA DefaultComesFirst == ASSUME NEW E, Default \in E  PROVE FirstOr(E) = Default
<1> DEFINE good == {i \in DOMAIN Order : Order[i] \in E}
<1>1. 1 \in good /\ good # {} /\ \A j \in good : j \in Nat /\ 1 <= j
  BY EndpointsFinite DEF Default
<1>2. FirstOr(E) = Order[CHOOSE i \in good : \A j \in good : i <= j]
  BY <1>1 DEF FirstOr
<1> HIDE DEF good
<1>3. ASSUME NEW i \in good, \A j \in good : i <= j  PROVE i = 1
  BY <1>1, <1>3
<1>4. (CHOOSE i \in good : \A j \in good : i <= j) = 1
  BY <1>1, <1>3
<1> QED  BY <1>2, <1>4 DEF Default

\* What a reported failure makes of an endpoint's health.
LEMMA FailureCounts ==
    ASSUME NEW h \in Health
    PROVE  /\ ReportFailure(h) \in Health /\ ReportFailure(h) # Fresh
           /\ ~IsAlive(h) => ~IsAlive(ReportFailure(h))
           /\ ReportFailure(h).st = "alive" => ReportFailure(h).due = h.due
  BY RoutingAssumption DEF Health, ReportFailure, Fresh, Dead, IsAlive

\* A success.
LEMMA FreshCounts == Fresh \in Health /\ Dead \in Health /\ IsAlive(Fresh) /\ ~Fresh.due
  BY RoutingAssumption DEF Health, Fresh, Dead, IsAlive

-----------------------------------------------------------------------------
(***************************************************************************)
(* The state keeps its types.                                              *)
(***************************************************************************)

\* The initial state.
LEMMA InitTyped == Init => Typed
<1> SUFFICES ASSUME Init PROVE Typed
  OBVIOUS
<1>1. Gone \in Link /\ Trial(Gone) /\ Fresh \in Health /\ ~Fresh.due
  BY EndpointsFinite, AttemptsAreNat, FreshCounts DEF Gone, Link, Trial
<1> QED  BY <1>1, RoutingAssumption DEF Init, Typed, TypeOK, HealthOK, TriesOK

\* A record of an attach changes one session's link to another link.
LEMMA LinksMove ==
    ASSUME sess \in [Session -> Link], TriesOK, NEW s \in Session, NEW l \in Link, Trial(l),
           sess' = [sess EXCEPT ![s] = l]
    PROVE  /\ sess' \in [Session -> Link] /\ TriesOK' /\ sess'[s] = l
           /\ \A d \in Session \ {s} : sess'[d] = sess[d]
  BY DEF TriesOK, Trial

\* An endpoint's health changes to another.
LEMMA HealthMoves ==
    ASSUME health \in [Endpoint -> Health], HealthOK, NEW e \in Endpoint, NEW h \in Health,
           h.st = "alive" => ~h.due, health' = [health EXCEPT ![e] = h]
    PROVE  /\ health' \in [Endpoint -> Health] /\ HealthOK'
           /\ health'[e] = h /\ \A d \in Endpoint \ {e} : health'[d] = health[d]
  BY DEF HealthOK

\* The actions that only move a session's link.
LEMMA LinkTyped ==
    ASSUME Typed, NEW s \in Session, NEW want \in Wants,
           Arrive(s, want) \/ Attach(s, want) \/ Route(s) \/ GiveUp(s)
    PROVE  /\ sess' \in [Session -> Link] /\ TriesOK'
           /\ UNCHANGED <<up, health, idle, known, env, downed>>
<1>1. sess \in [Session -> Link] /\ sess[s] \in Link /\ want \in {"read", "write"} /\ TriesOK
  BY DEF Typed, TypeOK, Wants
<1>2. CASE Arrive(s, want)
  <2> DEFINE l == [Gone EXCEPT !.at = "routing", !.want = want]
  <2>1. l \in Link /\ Trial(l)
    BY <1>1, EndpointsFinite, AttemptsAreNat, Zenon DEF Gone, Link, Trial
  <2>2. sess' = [sess EXCEPT ![s] = l]
    BY <1>2 DEF Arrive
  <2> HIDE DEF l
  <2> QED  BY <1>1, <1>2, <2>1, <2>2, LinksMove, Zenon DEF Arrive
<1>3. CASE Attach(s, want)
  <2> DEFINE l == [sess[s] EXCEPT !.at = "routing", !.tries = 0, !.want = want]
  <2>1. l \in Link /\ Trial(l)
    BY <1>1, AttemptsAreNat, Zenon DEF Link, Trial
  <2>2. sess' = [sess EXCEPT ![s] = l]
    BY <1>1, <1>3, Zenon DEF Attach
  <2> HIDE DEF l
  <2> QED  BY <1>1, <1>3, <2>1, <2>2, LinksMove, Zenon DEF Attach
<1>4. CASE Route(s)
  <2> DEFINE l == [sess[s] EXCEPT !.at = "connecting", !.ep = Pick(sess[s].want)]
  <2>1. Pick(sess[s].want) \in Endpoint
    BY EndpointsFinite, FirstOrPicks DEF Pick, SplitPick, FailoverPick
  <2>2. l \in Link /\ Trial(l)
    BY <1>1, <1>4, <2>1, Zenon DEF Route, Link, Trial
  <2>3. sess' = [sess EXCEPT ![s] = l]
    BY <1>1, <1>4, Zenon DEF Route
  <2> HIDE DEF l
  <2> QED  BY <1>1, <1>4, <2>2, <2>3, LinksMove, Zenon DEF Route
<1>5. CASE GiveUp(s)
  <2> DEFINE l == [sess[s] EXCEPT !.at = "ended"]
  <2>1. l \in Link /\ Trial(l)
    BY <1>1 DEF Link, Trial
  <2>2. sess' = [sess EXCEPT ![s] = l]
    BY <1>1, <1>5 DEF GiveUp
  <2> HIDE DEF l
  <2> QED  BY <1>1, <1>5, <2>1, <2>2, LinksMove, Zenon DEF GiveUp
<1> QED  BY <1>2, <1>3, <1>4, <1>5

\* The actions that report to the shared health.
LEMMA ReportTyped ==
    ASSUME Typed, NEW s \in Session,
           Snapshot(s) \/ AttemptFails(s) \/ Attached(s) \/ LoseLease(s)
    PROVE  /\ sess' \in [Session -> Link] /\ TriesOK' /\ health' \in [Endpoint -> Health] /\ HealthOK'
           /\ UNCHANGED <<up, idle, known, env, downed>>
<1>1. /\ sess \in [Session -> Link] /\ sess[s] \in Link /\ health \in [Endpoint -> Health]
      /\ sess[s].ep \in Endpoint /\ sess[s].cur \in Endpoint /\ HealthOK /\ TriesOK
  BY DEF Typed, TypeOK, Link
<1>2. ASSUME NEW e \in Endpoint
      PROVE  /\ Fresh \in Health /\ ~Fresh.due /\ ReportFailure(health[e]) \in Health
             /\ ReportFailure(health[e]).st = "alive" => ~ReportFailure(health[e]).due
  <2>1. health[e] \in Health
    BY <1>1
  <2>2. health[e].st = "alive" => ~health[e].due
    BY <1>1 DEF HealthOK
  <2> QED  BY <2>1, <2>2, FailureCounts, FreshCounts, Zenon DEF ReportFailure, Dead, Health
<1>3. CASE Snapshot(s)
  <2> DEFINE l == [sess[s] EXCEPT !.at = "detached", !.first = FALSE]
  <2>1. l \in Link /\ Trial(l) /\ sess' = [sess EXCEPT ![s] = l]
    BY <1>1, <1>3, Zenon DEF Snapshot, Link, Trial
  <2>2. health' = [health EXCEPT ![sess[s].ep] = Fresh]
    BY <1>3 DEF Snapshot
  <2> HIDE DEF l
  <2> QED  BY <1>1, <1>2, <1>3, <2>1, <2>2, LinksMove, HealthMoves, Zenon DEF Snapshot
<1>4. CASE AttemptFails(s)
  <2> DEFINE l == [sess[s] EXCEPT !.at = "routing", !.tries = @ + 1, !.ok = TRUE]
  <2>1. sess[s].tries + 1 \in 0..Attempts
    BY <1>1, <1>4, AttemptsAreNat
       DEF AttemptFails, ConnectFails, ChecksOut, Link, TriesOK, Trial
  <2>2. l \in Link /\ Trial(l) /\ sess' = [sess EXCEPT ![s] = l]
    BY <1>1, <1>4, <2>1 DEF AttemptFails, Link, Trial
  <2>3. health' = [health EXCEPT ![sess[s].ep] = ReportFailure(health[sess[s].ep])]
    BY <1>1, <1>4 DEF AttemptFails
  <2> HIDE DEF l
  <2> QED  BY <1>1, <1>2, <1>4, <2>2, <2>3, LinksMove, HealthMoves, ZenonT(30) DEF AttemptFails
<1>5. CASE Attached(s)
  <2> DEFINE l == [sess[s] EXCEPT !.at = "attached", !.cur = CurrentEndpoint(s), !.first = FALSE]
  <2>1. CurrentEndpoint(s) \in Endpoint
    BY <1>1, EndpointsFinite DEF CurrentEndpoint
  <2>2. l \in Link /\ Trial(l) /\ sess' = [sess EXCEPT ![s] = l]
    BY <1>1, <1>5, <2>1, Zenon DEF Attached, Link, Trial
  <2>3. health' = [health EXCEPT ![sess[s].ep] = Fresh]
    BY <1>5 DEF Attached
  <2> HIDE DEF l
  <2> QED  BY <1>1, <1>2, <1>5, <2>2, <2>3, LinksMove, HealthMoves, Zenon DEF Attached
<1>6. CASE LoseLease(s)
  <2> DEFINE l == [sess[s] EXCEPT !.at = "detached", !.ok = TRUE]
  <2>1. l \in Link /\ Trial(l) /\ sess' = [sess EXCEPT ![s] = l]
    BY <1>1, <1>6 DEF LoseLease, Link, Trial
  <2>2. health' = [health EXCEPT ![sess[s].cur] = ReportFailure(health[sess[s].cur])]
    BY <1>1, <1>6 DEF LoseLease
  <2> HIDE DEF l
  <2> QED  BY <1>1, <1>2, <1>6, <2>1, <2>2, LinksMove, HealthMoves, ZenonT(30) DEF LoseLease
<1> QED  BY <1>3, <1>4, <1>5, <1>6

\* The checkout: a parked connection or a new one, or a probe that drops one.
LEMMA CheckoutTyped ==
    ASSUME Typed, NEW s \in Session, Checkout(s) \/ ProbeFails(s)
    PROVE  /\ sess' \in [Session -> Link] /\ TriesOK' /\ health' \in [Endpoint -> Health] /\ HealthOK'
           /\ idle' \in [Endpoint -> [ok : Nat, bad : Nat]] /\ UNCHANGED <<up, known, env, downed>>
           /\ sess'[s].tries = sess[s].tries /\ sess'[s].ep = sess[s].ep
           /\ sess'[s].want = sess[s].want
           /\ sess'[s].at \in {"connecting", "replaying", "detached"} /\ sess[s].at = "connecting"
           /\ \A d \in Session \ {s} : sess'[d] = sess[d]
<1> DEFINE e == sess[s].ep
<1>1. /\ sess \in [Session -> Link] /\ sess[s] \in Link /\ health \in [Endpoint -> Health]
      /\ e \in Endpoint /\ HealthOK /\ TriesOK /\ Trial(sess[s])
      /\ idle \in [Endpoint -> [ok : Nat, bad : Nat]]
  BY DEF Typed, TypeOK, Link, TriesOK
<1>2. CASE ProbeFails(s)
  <2>1. idle' = [idle EXCEPT ![e].bad = @ - 1] /\ idle[e].bad > 0
        /\ UNCHANGED <<up, health, known, sess, env, downed>> /\ sess[s].at = "connecting"
    BY <1>2 DEF ProbeFails, ChecksOut
  <2>2. idle' \in [Endpoint -> [ok : Nat, bad : Nat]]
    BY <1>1, <2>1
  <2> QED  BY <1>1, <2>1, <2>2 DEF HealthOK, TriesOK, Trial
<1>3. CASE Checkout(s)
  <2> DEFINE back == IF Baselining(s) THEN 1 ELSE 0
             next(ok) == IF Baselining(s)
                         THEN [sess[s] EXCEPT !.at = "detached", !.first = FALSE]
                         ELSE [sess[s] EXCEPT !.at = "replaying", !.ok = ok]
  <2>1. /\ sess[s].at = "connecting" /\ UNCHANGED <<up, known, env, downed>>
        /\ health' = IF Baselining(s) THEN [health EXCEPT ![e] = Fresh] ELSE health
    BY <1>3, ZenonT(30) DEF Checkout, ChecksOut
  <2>2. PICK ok \in BOOLEAN : sess' = [sess EXCEPT ![s] = next(ok)]
    BY <1>3, Zenon DEF Checkout
  <2>3. /\ next(ok) \in Link /\ Trial(next(ok)) /\ next(ok).tries = sess[s].tries
        /\ next(ok).ep = e /\ next(ok).want = sess[s].want
        /\ next(ok).at \in {"replaying", "detached"}
    BY <1>1, <2>1, Zenon DEF Link, Trial
  <2>4. health' \in [Endpoint -> Health] /\ HealthOK'
    <3>1. CASE Baselining(s)
      BY <1>1, <2>1, <3>1, FreshCounts, HealthMoves, Zenon
    <3>2. CASE ~Baselining(s)
      BY <1>1, <2>1, <3>2 DEF HealthOK
    <3> QED  BY <3>1, <3>2
  <2>5. idle' \in [Endpoint -> [ok : Nat, bad : Nat]]
    <3>1. back \in Nat
      OBVIOUS
    <3>2. \/ idle[e].ok > 0 /\ idle' = [idle EXCEPT ![e].ok = (@ - 1) + back]
          \/ idle[e].bad > 0 /\ idle' = [idle EXCEPT ![e].bad = @ - 1]
          \/ idle' = [idle EXCEPT ![e].ok = back]
      BY <1>3 DEF Checkout
    <3> HIDE DEF back
    <3> QED  BY <1>1, <3>1, <3>2
  <2> HIDE DEF next
  <2>6. /\ sess' \in [Session -> Link] /\ TriesOK' /\ sess'[s] = next(ok)
        /\ \A d \in Session \ {s} : sess'[d] = sess[d]
    BY <1>1, <2>2, <2>3, LinksMove, Zenon
  <2> QED  BY <2>1, <2>3, <2>4, <2>5, <2>6
<1> QED  BY <1>2, <1>3

\* The lease goes back to its pool.
LEMMA ReturnTyped ==
    ASSUME Typed, NEW s \in Session, Detach(s) \/ Leave(s)
    PROVE  /\ sess' \in [Session -> Link] /\ TriesOK' /\ known' \subseteq Endpoint
           /\ idle' \in [Endpoint -> [ok : Nat, bad : Nat]] /\ UNCHANGED <<up, health, env, downed>>
<1>1. /\ sess \in [Session -> Link] /\ sess[s] \in Link /\ sess[s].ep \in Endpoint /\ TriesOK
      /\ idle \in [Endpoint -> [ok : Nat, bad : Nat]] /\ known \subseteq Endpoint
  BY DEF Typed, TypeOK, Link
<1>2. CASE Detach(s)
  <2> DEFINE l == [sess[s] EXCEPT !.at = "detached"]
  <2>1. l \in Link /\ Trial(l) /\ sess' = [sess EXCEPT ![s] = l]
    BY <1>1, <1>2, Zenon DEF Detach, Link, Trial
  <2>2. idle' \in [Endpoint -> [ok : Nat, bad : Nat]]
    BY <1>1, <1>2 DEF Detach
  <2> HIDE DEF l
  <2> QED  BY <1>1, <1>2, <2>1, <2>2, LinksMove, Zenon DEF Detach
<1>3. CASE Leave(s)
  <2> DEFINE back == IF sess[s].at = "attached" /\ sess[s].ok THEN 1 ELSE 0
  <2>1. Gone \in Link /\ Trial(Gone) /\ sess' = [sess EXCEPT ![s] = Gone]
    BY <1>3, EndpointsFinite, AttemptsAreNat DEF Leave, Gone, Link, Trial
  <2>2. back \in Nat /\ idle' = [idle EXCEPT ![sess[s].ep].ok = @ + back]
    BY <1>3 DEF Leave
  <2>3. idle' \in [Endpoint -> [ok : Nat, bad : Nat]]
    <3> HIDE DEF back
    <3> QED  BY <1>1, <2>2
  <2> QED  BY <1>1, <1>3, <2>1, <2>3, LinksMove, Zenon DEF Leave
<1> QED  BY <1>2, <1>3

\* Endpoints come and go, and cooldowns elapse.
LEMMA EventTyped ==
    ASSUME Typed, NEW e \in Endpoint, Flip(e) \/ Cool(e)
    PROVE  /\ up' \in [Endpoint -> BOOLEAN] /\ sess' \in [Session -> Link] /\ TriesOK'
           /\ health' \in [Endpoint -> Health] /\ HealthOK'
           /\ idle' \in [Endpoint -> [ok : Nat, bad : Nat]] /\ env' \in Setup
           /\ downed' \subseteq Endpoint /\ known' = known
           /\ env'.splits = env.splits /\ env'.sessionMode = env.sessionMode
<1>1. /\ up \in [Endpoint -> BOOLEAN] /\ sess \in [Session -> Link] /\ TriesOK
      /\ health \in [Endpoint -> Health] /\ HealthOK /\ downed \subseteq Endpoint
      /\ idle \in [Endpoint -> [ok : Nat, bad : Nat]] /\ env \in Setup /\ MaxEvents \in Nat
  BY RoutingAssumption DEF Typed, TypeOK
<1>2. CASE Flip(e)
  <2>1. /\ env' \in Setup /\ up' \in [Endpoint -> BOOLEAN] /\ UNCHANGED <<health, known>>
        /\ env'.splits = env.splits /\ env'.sessionMode = env.sessionMode
    BY <1>1, <1>2 DEF Flip, Setup
  <2>2. CASE ~up[e]
    BY <1>1, <1>2, <2>1, <2>2 DEF Flip, HealthOK, TriesOK, Trial
  <2>3. CASE up[e]
    <3>1. /\ downed' = downed \cup {e}
          /\ idle' = [idle EXCEPT ![e] = [ok |-> 0, bad |-> idle[e].ok + idle[e].bad]]
          /\ sess' = [s \in Session |->
                        IF sess[s].ep = e /\ sess[s].at \in {"replaying", "attached"}
                        THEN [sess[s] EXCEPT !.ok = FALSE] ELSE sess[s]]
      BY <1>1, <1>2, <2>3 DEF Flip
    <3>2. idle' \in [Endpoint -> [ok : Nat, bad : Nat]] /\ downed' \subseteq Endpoint
      BY <1>1, <3>1
    <3>3. ASSUME NEW s \in Session
          PROVE  sess'[s] \in Link /\ Trial(sess'[s])
      <4>1. sess[s] \in Link /\ Trial(sess[s])
        BY <1>1 DEF TriesOK
      <4>2. [sess[s] EXCEPT !.ok = FALSE] \in Link /\ Trial([sess[s] EXCEPT !.ok = FALSE])
        BY <4>1, Zenon DEF Link, Trial
      <4> QED  BY <3>1, <4>1, <4>2
    <3>4. sess' \in [Session -> Link] /\ TriesOK'
      <4>1. sess' = [s \in Session |-> sess'[s]]
        BY <3>1
      <4> QED  BY <3>3, <4>1 DEF TriesOK, Trial
    <3> QED  BY <1>1, <2>1, <3>2, <3>4 DEF HealthOK
  <2> QED  BY <2>2, <2>3
<1>3. CASE Cool(e)
  <2> DEFINE h == [health[e] EXCEPT !.due = TRUE]
  <2>1. health[e] \in Health /\ health[e].st = "dead" /\ health' = [health EXCEPT ![e] = h]
    BY <1>1, <1>3 DEF Cool
  <2>2. h \in Health /\ h.st = "dead"
    BY <2>1, ZenonT(30) DEF Health
  <2>3. /\ env' \in Setup /\ env'.splits = env.splits /\ env'.sessionMode = env.sessionMode
        /\ UNCHANGED <<up, idle, known, sess, downed>>
    BY <1>1, <1>3 DEF Cool, Setup
  <2> HIDE DEF h
  <2> QED  BY <1>1, <2>1, <2>2, <2>3, HealthMoves, Zenon DEF TriesOK, Trial
<1> QED  BY <1>2, <1>3

\* The histories are sets of endpoints.
LEMMA TrackTyped ==
    ASSUME TypeOK, Track
    PROVE  steady' \in [Session -> SUBSET Endpoint] /\ live' \in [Session -> SUBSET Endpoint]
  BY DEF TypeOK, Track

\* Every step keeps the types, and the configuration.
LEMMA NextTyped ==
    ASSUME Typed, [Next]_vars
    PROVE  Typed' /\ env'.splits = env.splits /\ env'.sessionMode = env.sessionMode
<1>1. CASE UNCHANGED vars
  BY <1>1 DEF Typed, TypeOK, HealthOK, TriesOK, Trial, vars
<1>2. CASE Next
  <2>1. steady' \in [Session -> SUBSET Endpoint] /\ live' \in [Session -> SUBSET Endpoint]
    BY <1>2, TrackTyped DEF Next, Typed
  <2>2. ASSUME NEW s \in Session, NEW want \in Wants,
               Arrive(s, want) \/ Attach(s, want) \/ Route(s) \/ GiveUp(s)
        PROVE  Typed' /\ env'.splits = env.splits /\ env'.sessionMode = env.sessionMode
    BY <2>1, <2>2, LinkTyped DEF Typed, TypeOK, HealthOK
  <2>3. ASSUME NEW s \in Session, Snapshot(s) \/ AttemptFails(s) \/ Attached(s) \/ LoseLease(s)
        PROVE  Typed' /\ env'.splits = env.splits /\ env'.sessionMode = env.sessionMode
    BY <2>1, <2>3, ReportTyped DEF Typed, TypeOK
  <2>4. ASSUME NEW s \in Session, Checkout(s) \/ ProbeFails(s)
        PROVE  Typed' /\ env'.splits = env.splits /\ env'.sessionMode = env.sessionMode
    BY <2>1, <2>4, CheckoutTyped DEF Typed, TypeOK
  <2>5. ASSUME NEW s \in Session, Detach(s) \/ Leave(s)
        PROVE  Typed' /\ env'.splits = env.splits /\ env'.sessionMode = env.sessionMode
    BY <2>1, <2>5, ReturnTyped DEF Typed, TypeOK, HealthOK
  <2>6. ASSUME NEW e \in Endpoint, Flip(e) \/ Cool(e)
        PROVE  Typed' /\ env'.splits = env.splits /\ env'.sessionMode = env.sessionMode
    BY <2>1, <2>6, EventTyped DEF Typed, TypeOK
  <2>7. Wants # {}
    BY DEF Wants
  <2> QED  BY <1>2, <2>2, <2>3, <2>4, <2>5, <2>6, <2>7 DEF Next, Step
<1> QED  BY <1>1, <1>2

\* Every reachable state has its types: no count of failures reaches the threshold and no
\* session makes more attempts than the loop allows.
THEOREM RoutingTypes == Spec => []Typed
<1>1. Init => Typed
  BY InitTyped
<1>2. Typed /\ [Next]_vars => Typed'
  BY NextTyped
<1> QED  BY <1>1, <1>2, PTL DEF Spec

-----------------------------------------------------------------------------
\* What a step does to the attach of a session, whoever takes it.
Stays(d) ==
    /\ sess'[d].at = sess[d].at /\ sess'[d].ep = sess[d].ep
    /\ sess'[d].tries = sess[d].tries /\ sess'[d].want = sess[d].want

Begins(d) == ~Trying(d) /\ sess'[d].at = "routing" /\ sess'[d].tries = 0

Routed(d) ==
    /\ sess[d].at = "routing" /\ sess'[d].at = "connecting" /\ sess'[d].ep = Pick(sess[d].want)
    /\ sess'[d].tries = sess[d].tries /\ sess'[d].want = sess[d].want /\ health' = health

CheckedOut(d) ==
    /\ sess[d].at = "connecting" /\ sess'[d].at = "replaying" /\ sess'[d].ep = sess[d].ep
    /\ sess'[d].tries = sess[d].tries /\ sess'[d].want = sess[d].want /\ health' = health

Failed(d) ==
    /\ sess[d].at \in {"connecting", "replaying"} /\ sess'[d].at = "routing"
    /\ sess'[d].tries = sess[d].tries + 1 /\ sess'[d].want = sess[d].want
    /\ health' = [health EXCEPT ![sess[d].ep] = ReportFailure(@)]

Done(d) ==
    /\ sess'[d].at \in {"gone", "detached", "attached", "ended"}
    /\ sess'[d].at = "attached" => /\ sess[d].at = "replaying" /\ sess'[d].ep = sess[d].ep
                                   /\ sess'[d].want = sess[d].want

\* There is no other way an attach goes on.
LEMMA Moves ==
    ASSUME Typed, Next, NEW d \in Session
    PROVE  Stays(d) \/ Begins(d) \/ Routed(d) \/ CheckedOut(d) \/ Failed(d) \/ Done(d)
<1>1. sess \in [Session -> Link] /\ sess[d] \in Link
  BY DEF Typed, TypeOK
<1>2. ASSUME NEW s \in Session, NEW want \in Wants,
             \/ Arrive(s, want) \/ Attach(s, want) \/ Route(s) \/ GiveUp(s) \/ Snapshot(s)
             \/ AttemptFails(s) \/ Attached(s) \/ LoseLease(s)
             \/ Checkout(s) \/ ProbeFails(s) \/ Detach(s) \/ Leave(s), s # d
      PROVE  Stays(d)
  BY <1>1, <1>2, Zenon DEF Arrive, Attach, Route, GiveUp, Snapshot, AttemptFails, Attached, LoseLease,
                    Checkout, ProbeFails, Detach, Leave, Stays
<1>3. ASSUME NEW want \in Wants, Arrive(d, want)  PROVE Begins(d)
  BY <1>1, <1>3 DEF Arrive, Begins, Trying, Gone
<1>4. ASSUME NEW want \in Wants, Attach(d, want)  PROVE Begins(d)
  BY <1>1, <1>4 DEF Attach, Begins, Trying, Link
<1>5. ASSUME Route(d)  PROVE Routed(d)
  BY <1>1, <1>5 DEF Route, Routed, Link
<1>6. ASSUME AttemptFails(d)  PROVE Failed(d)
  BY <1>1, <1>6 DEF AttemptFails, ConnectFails, ChecksOut, Failed, Link
<1>7. ASSUME Attached(d)  PROVE Done(d)
  BY <1>1, <1>7 DEF Attached, Done, Link
<1>8. ASSUME GiveUp(d) \/ Snapshot(d) \/ LoseLease(d) \/ Detach(d)  PROVE Done(d)
  BY <1>1, <1>8 DEF GiveUp, Snapshot, LoseLease, Detach, Done, Link
<1>9. ASSUME Leave(d)  PROVE Done(d)
  BY <1>1, <1>9 DEF Leave, Gone, Done
<1>10. ASSUME ProbeFails(d)  PROVE Stays(d)
  BY <1>10 DEF ProbeFails, Stays
<1>11. ASSUME Checkout(d)  PROVE CheckedOut(d) \/ Done(d)
  <2>1. CASE Baselining(d)
    <3>1. sess' = [sess EXCEPT ![d] = [sess[d] EXCEPT !.at = "detached", !.first = FALSE]]
      BY <1>11, <2>1 DEF Checkout
    <3> QED  BY <1>1, <3>1 DEF Done, Link
  <2>2. CASE ~Baselining(d)
    <3>1. PICK ok \in BOOLEAN :
            sess' = [sess EXCEPT ![d] = [sess[d] EXCEPT !.at = "replaying", !.ok = ok]]
      BY <1>11, <2>2, ZenonT(30) DEF Checkout
    <3>2. sess[d].at = "connecting" /\ health' = health
      BY <1>11, <2>2 DEF Checkout, ChecksOut
    <3> QED  BY <1>1, <3>1, <3>2 DEF CheckedOut, Link
  <2> QED  BY <2>1, <2>2
<1>12. ASSUME NEW e \in Endpoint, Flip(e) \/ Cool(e)  PROVE Stays(d)
  <2>1. sess'[d] = sess[d] \/ sess'[d] = [sess[d] EXCEPT !.ok = FALSE]
    BY <1>12, Zenon DEF Flip, Cool
  <2> QED  BY <1>1, <2>1 DEF Stays, Link
<1>13. Wants # {}
  BY DEF Wants
<1> QED  BY <1>2, <1>3, <1>4, <1>5, <1>6, <1>7, <1>8, <1>9, <1>10, <1>11, <1>12, <1>13
            DEF Next, Step

-----------------------------------------------------------------------------
(***************************************************************************)
(* Who is blamed for a failure.                                            *)
(***************************************************************************)

BInv == Typed /\ DownOK /\ LinksOK

\* One session's link moves to a sound one, and no endpoint forgets that it was down.
LEMMA SoundLinks ==
    ASSUME LinksOK, sess \in [Session -> Link], NEW s \in Session, NEW l \in Link,
           sess' = [sess EXCEPT ![s] = l], LinkOK(l, downed, SessionMode),
           downed' = downed, env' = env
    PROVE  LinksOK'
<1> SUFFICES ASSUME NEW d \in Session PROVE LinkOK(sess'[d], downed, SessionMode)
  BY DEF LinksOK, SessionMode
<1>1. CASE d = s
  BY <1>1
<1>2. CASE d # s
  BY <1>2 DEF LinksOK
<1> QED  BY <1>1, <1>2

\* The steps of a session: the endpoints and the memory of their falls are as before.
LEMMA SessionBInv ==
    ASSUME BInv, NEW s \in Session, NEW want \in Wants,
           \/ Arrive(s, want) \/ Attach(s, want) \/ Route(s) \/ GiveUp(s) \/ Snapshot(s)
           \/ AttemptFails(s) \/ Attached(s) \/ LoseLease(s)
           \/ Checkout(s) \/ ProbeFails(s) \/ Detach(s) \/ Leave(s)
    PROVE  DownOK' /\ LinksOK'
<1>1. /\ sess \in [Session -> Link] /\ sess[s] \in Link /\ sess[s].ep \in Endpoint
      /\ idle \in [Endpoint -> [ok : Nat, bad : Nat]] /\ LinkOK(sess[s], downed, SessionMode)
      /\ LinksOK /\ DownOK /\ want \in {"read", "write"}
  BY DEF BInv, LinksOK, Typed, TypeOK, Link, Wants
<1>2. env' = env /\ downed' = downed /\ up' = up
  BY ZenonT(30) DEF Arrive, Attach, Route, GiveUp, Snapshot, AttemptFails, Attached, LoseLease, Checkout,
         ProbeFails, Detach, Leave
<1>3. ASSUME \A e \in Endpoint : idle'[e].bad > 0 => idle[e].bad > 0
      PROVE  DownOK'
  BY <1>1, <1>2, <1>3 DEF DownOK
<1>4. CASE Arrive(s, want) \/ Leave(s)
  <2>1. PICK l \in {Gone, [Gone EXCEPT !.at = "routing", !.want = want]} : sess' = [sess EXCEPT ![s] = l]
    BY <1>4 DEF Arrive, Leave
  <2>2. l \in Link /\ LinkOK(l, downed, SessionMode)
    <3>1. CASE l = Gone
      BY <3>1, EndpointsFinite, AttemptsAreNat DEF Gone, Link, LinkOK
    <3>2. CASE l = [Gone EXCEPT !.at = "routing", !.want = want]
      BY <1>1, <3>2, EndpointsFinite, AttemptsAreNat, ZenonT(30) DEF Gone, Link, LinkOK
    <3> QED  BY <2>1, <3>1, <3>2
  <2>3. \A e \in Endpoint : idle'[e].bad > 0 => idle[e].bad > 0
    BY <1>1, <1>4 DEF Arrive, Leave
  <2> QED  BY <1>1, <1>2, <1>3, <2>1, <2>2, <2>3, SoundLinks, Zenon
<1>5. CASE \/ Attach(s, want) \/ Route(s) \/ GiveUp(s) \/ Snapshot(s) \/ AttemptFails(s)
           \/ LoseLease(s) \/ Detach(s)
  <2>1. /\ sess' = [sess EXCEPT ![s] = sess'[s]]
        /\ sess'[s].at \notin {"replaying", "attached"} /\ sess'[s].ok
    <3>1. sess[s].at \notin {"replaying", "attached"} => sess[s].ok
      BY <1>1 DEF LinkOK
    <3>2. CASE Attach(s, want)
      BY <1>1, <3>1, <3>2, Zenon DEF Attach, Link
    <3>3. CASE Route(s)
      BY <1>1, <3>1, <3>3, Zenon DEF Route, Link
    <3>4. CASE GiveUp(s)
      BY <1>1, <3>1, <3>4 DEF GiveUp, Link
    <3>5. CASE Snapshot(s)
      BY <1>1, <3>1, <3>5, Zenon DEF Snapshot, Link
    <3>6. CASE AttemptFails(s)
      BY <1>1, <3>6, Zenon DEF AttemptFails, Link
    <3>7. CASE LoseLease(s)
      BY <1>1, <3>7 DEF LoseLease, Link
    <3>8. CASE Detach(s)
      BY <1>1, <3>8 DEF Detach, Link
    <3> QED  BY <1>5, <3>2, <3>3, <3>4, <3>5, <3>6, <3>7, <3>8
  <2>2. sess'[s] \in Link
    BY <1>1, <1>5, LinkTyped, ReportTyped, ReturnTyped DEF BInv
  <2>3. \A e \in Endpoint : idle'[e].bad > 0 => idle[e].bad > 0
    <3>1. CASE Detach(s)
      BY <1>1, <3>1 DEF Detach
    <3>2. CASE ~Detach(s)
      BY <1>5, <3>2, ZenonT(30) DEF Attach, Route, GiveUp, Snapshot, AttemptFails, LoseLease
    <3> QED  BY <3>1, <3>2
  <2>4. LinkOK(sess'[s], downed, SessionMode)
    BY <2>1 DEF LinkOK
  <2> QED  BY <1>1, <1>2, <1>3, <2>1, <2>2, <2>3, <2>4, SoundLinks, Zenon
<1>6. CASE Attached(s)
  <2>1. /\ sess' = [sess EXCEPT ![s] = sess'[s]] /\ sess'[s].at = "attached"
        /\ sess'[s].cur = CurrentEndpoint(s) /\ sess'[s].ok = sess[s].ok
        /\ sess'[s].ep = sess[s].ep /\ idle' = idle
    BY <1>1, <1>6, ZenonT(30) DEF Attached, Link
  <2>2. sess'[s] \in Link
    BY <1>1, <1>6, ReportTyped DEF BInv
  <2>3. LinkOK(sess'[s], downed, SessionMode)
    BY <1>1, <2>1 DEF LinkOK, CurrentEndpoint
  <2> QED  BY <1>1, <1>2, <1>3, <2>1, <2>2, <2>3, SoundLinks
<1>7. CASE Checkout(s)
  <2>1. /\ sess' = [sess EXCEPT ![s] = sess'[s]] /\ sess'[s].ep = sess[s].ep
        /\ sess'[s].at \in {"replaying", "detached"} /\ sess[s].ok
        /\ sess'[s].at = "detached" => sess'[s].ok
        /\ sess'[s].ok \/ idle[sess[s].ep].bad > 0
    <3>1. sess[s].at = "connecting"
      BY <1>7 DEF Checkout, ChecksOut
    <3>2. sess[s].ok
      BY <1>1, <3>1 DEF LinkOK
    <3>3. CASE Baselining(s)
      <4>1. sess' = [sess EXCEPT ![s] = [sess[s] EXCEPT !.at = "detached", !.first = FALSE]]
        BY <1>7, <3>3 DEF Checkout
      <4> QED  BY <1>1, <3>2, <4>1 DEF Link
    <3>4. CASE ~Baselining(s)
      <4>1. PICK ok \in BOOLEAN :
               /\ sess' = [sess EXCEPT ![s] = [sess[s] EXCEPT !.at = "replaying", !.ok = ok]]
               /\ ok \/ idle[sess[s].ep].bad > 0
        BY <1>7, <3>4, Zenon DEF Checkout
      <4> QED  BY <1>1, <3>2, <4>1 DEF Link
    <3> QED  BY <3>3, <3>4
  <2>2. sess'[s] \in Link
    BY <1>1, <1>7, CheckoutTyped DEF BInv
  <2>3. LinkOK(sess'[s], downed, SessionMode)
    BY <1>1, <2>1 DEF LinkOK, DownOK
  <2>4. \A e \in Endpoint : idle'[e].bad > 0 => idle[e].bad > 0
    BY <1>1, <1>7 DEF Checkout
  <2> QED  BY <1>1, <1>2, <1>3, <2>1, <2>2, <2>3, <2>4, SoundLinks
<1>8. CASE ProbeFails(s)
  <2>1. \A e \in Endpoint : idle'[e].bad > 0 => idle[e].bad > 0
    BY <1>1, <1>8 DEF ProbeFails
  <2>2. LinksOK'
    BY <1>1, <1>2, <1>8 DEF ProbeFails, LinksOK, SessionMode
  <2> QED  BY <1>3, <2>1, <2>2
<1> QED  BY <1>4, <1>5, <1>6, <1>7, <1>8

\* An endpoint that goes down is remembered, and so are the connections it broke.
LEMMA EventBInv ==
    ASSUME BInv, NEW e \in Endpoint, Flip(e) \/ Cool(e)
    PROVE  DownOK' /\ LinksOK'
<1>1. /\ up \in [Endpoint -> BOOLEAN] /\ sess \in [Session -> Link] /\ LinksOK /\ DownOK
      /\ idle \in [Endpoint -> [ok : Nat, bad : Nat]] /\ SessionMode' = SessionMode
  BY EventTyped DEF BInv, Typed, TypeOK, SessionMode
<1>2. CASE Cool(e)
  BY <1>1, <1>2 DEF Cool, DownOK, LinksOK
<1>3. CASE Flip(e) /\ ~up[e]
  BY <1>1, <1>3 DEF Flip, DownOK, LinksOK
<1>4. CASE Flip(e) /\ up[e]
  <2>1. /\ up' = [up EXCEPT ![e] = FALSE] /\ downed' = downed \cup {e}
        /\ idle' = [idle EXCEPT ![e] = [ok |-> 0, bad |-> idle[e].ok + idle[e].bad]]
        /\ sess' = [s \in Session |->
                      IF sess[s].ep = e /\ sess[s].at \in {"replaying", "attached"}
                      THEN [sess[s] EXCEPT !.ok = FALSE] ELSE sess[s]]
    BY <1>1, <1>4, Zenon DEF Flip
  <2>2. DownOK'
    BY <1>1, <2>1 DEF DownOK
  <2>3. ASSUME NEW s \in Session
        PROVE  LinkOK(sess'[s], downed', SessionMode)
    <3>1. sess[s] \in Link /\ LinkOK(sess[s], downed, SessionMode)
      BY <1>1 DEF LinksOK
    <3>2. CASE sess[s].ep = e /\ sess[s].at \in {"replaying", "attached"}
      <4>1. sess'[s] = [sess[s] EXCEPT !.ok = FALSE]
        BY <2>1, <3>2
      <4> QED  BY <2>1, <3>1, <3>2, <4>1 DEF LinkOK, Link
    <3>3. CASE ~(sess[s].ep = e /\ sess[s].at \in {"replaying", "attached"})
      BY <2>1, <3>1, <3>3 DEF LinkOK
    <3> QED  BY <3>2, <3>3
  <2>4. LinksOK'
    BY <1>1, <2>3 DEF LinksOK
  <2> QED  BY <2>2, <2>4
<1> QED  BY <1>2, <1>3, <1>4

\* The invariant is inductive.
LEMMA NextBInv == BInv /\ [Next]_vars => BInv'
<1> SUFFICES ASSUME BInv, [Next]_vars PROVE BInv'
  OBVIOUS
<1>1. Typed'
  BY NextTyped DEF BInv
<1>2. CASE UNCHANGED vars
  <2>1. DownOK' /\ LinksOK'
    BY <1>2 DEF BInv, vars, DownOK, LinksOK, SessionMode
  <2> QED  BY <1>1, <2>1 DEF BInv
<1>3. CASE Next
  <2>1. Wants # {}
    BY DEF Wants
  <2>2. DownOK' /\ LinksOK'
    BY <1>3, <2>1, SessionBInv, EventBInv DEF Next, Step
  <2> QED  BY <1>1, <2>2 DEF BInv
<1> QED  BY <1>2, <1>3

\* It holds at first.
LEMMA InitBInv == Init => BInv
<1> SUFFICES ASSUME Init PROVE BInv
  OBVIOUS
<1>1. Gone.ok /\ Gone.at = "gone"
  BY DEF Gone
<1>2. DownOK /\ LinksOK
  BY <1>1 DEF Init, DownOK, LinksOK, LinkOK
<1> QED  BY <1>2, InitTyped DEF BInv

-----------------------------------------------------------------------------
(***************************************************************************)
(* FailoverRouter sends no session past the first endpoint before that one *)
(* was down: it picks the first one while it is considered alive, and that *)
(* it is as long as nobody blamed it.  This is why the wrong blame of      *)
(* session mode does no harm there, and it is shown together with it.      *)
(***************************************************************************)

StartsOK ==
    ~Splits => \A s \in Session :
        sess[s].at \in {"connecting", "replaying", "attached"} =>
            sess[s].ep = Default \/ Default \in downed

\* The setup's shape and the falls are remembered.
LEMMA Remembers ==
    ASSUME Typed, [Next]_vars
    PROVE  downed \subseteq downed' /\ SessionMode' = SessionMode /\ Splits' = Splits
<1>1. SessionMode' = SessionMode /\ Splits' = Splits
  BY NextTyped DEF SessionMode, Splits
<1>2. ASSUME NEW s \in Session, NEW want \in Wants,
             \/ Arrive(s, want) \/ Attach(s, want) \/ Route(s) \/ GiveUp(s) \/ Snapshot(s)
             \/ AttemptFails(s) \/ Attached(s) \/ LoseLease(s)
             \/ Checkout(s) \/ ProbeFails(s) \/ Detach(s) \/ Leave(s)
      PROVE  downed' = downed
  BY <1>2, ZenonT(30) DEF Arrive, Attach, Route, GiveUp, Snapshot, AttemptFails, Attached, LoseLease,
                    Checkout, ProbeFails, Detach, Leave
<1>3. ASSUME NEW e \in Endpoint, Flip(e) \/ Cool(e)
      PROVE  downed \subseteq downed'
  BY <1>3 DEF Flip, Cool
<1>4. Wants # {}
  BY DEF Wants
<1>5. CASE UNCHANGED vars
  BY <1>5 DEF vars, SessionMode, Splits
<1> QED  BY <1>1, <1>2, <1>3, <1>4, <1>5 DEF Next, Step

\* A session that starts elsewhere was sent there for the first endpoint's sake.
LEMMA StartsNext ==
    ASSUME Typed, BlameIsDeserved, StartsOK, [Next]_vars
    PROVE  StartsOK'
<1>1. downed \subseteq downed' /\ Splits' = Splits
  BY Remembers
<1>2. CASE UNCHANGED vars
  BY <1>1, <1>2 DEF vars, StartsOK
<1>3. CASE Next
  <2> SUFFICES ASSUME ~Splits, NEW d \in Session,
                      sess'[d].at \in {"connecting", "replaying", "attached"},
                      Default \notin downed
               PROVE  sess'[d].ep = Default
    BY <1>1 DEF StartsOK
  <2>1. CASE Stays(d)
    BY <2>1 DEF Stays, StartsOK
  <2>2. CASE Routed(d)
    <3>1. health[Default] = Fresh
      BY EndpointsFinite DEF BlameIsDeserved
    <3>2. Default \in AliveOnes
      BY <3>1, FreshCounts, EndpointsFinite DEF AliveOnes
    <3>3. FailoverPick = Default
      BY <3>2, DefaultComesFirst DEF FailoverPick
    <3> QED  BY <2>2, <3>3 DEF Routed, Pick
  <2>3. CASE CheckedOut(d) \/ Done(d)
    BY <2>3 DEF CheckedOut, Done, StartsOK
  <2>4. CASE Begins(d) \/ Failed(d)
    BY <2>4 DEF Begins, Failed
  <2> QED  BY <1>3, <2>1, <2>2, <2>3, <2>4, Moves
<1> QED  BY <1>2, <1>3

\* A step that blames an endpoint finds it, or the connection it broke, down.
LEMMA SparesNext ==
    ASSUME Refused = {}, BInv, StartsOK, BlameIsDeserved, [Next]_vars
    PROVE  BlameIsDeserved'
<1>1. /\ sess \in [Session -> Link] /\ health \in [Endpoint -> Health]
      /\ LinksOK /\ DownOK /\ SessionMode' = SessionMode /\ Splits' = Splits
  BY Remembers DEF BInv, Typed, TypeOK
<1>2. ASSUME NEW b \in Endpoint, NEW h,
             health' = [health EXCEPT ![b] = h], downed' = downed,
             h = Fresh \/ b \in downed \/ (b = Default /\ SessionMode /\ Splits)
      PROVE  BlameIsDeserved'
  BY <1>1, <1>2 DEF BlameIsDeserved
<1>3. ASSUME health' = health, downed \subseteq downed'
      PROVE  BlameIsDeserved'
  BY <1>1, <1>3 DEF BlameIsDeserved
<1>4. ASSUME NEW s \in Session, AttemptFails(s)
      PROVE  BlameIsDeserved'
  <2>1. sess[s].ep \in Endpoint /\ sess[s].ep \in downed /\ downed' = downed
    BY <1>1, <1>4 DEF AttemptFails, ConnectFails, Link, DownOK, LinksOK, LinkOK
  <2>2. health' = [health EXCEPT ![sess[s].ep] = ReportFailure(health[sess[s].ep])]
    BY <1>1, <1>4, <2>1 DEF AttemptFails
  <2> QED  BY <1>2, <2>1, <2>2, Zenon
<1>5. ASSUME NEW s \in Session, LoseLease(s)
      PROVE  BlameIsDeserved'
  <2>1. sess[s].cur \in Endpoint /\ downed' = downed
        /\ (sess[s].cur \in downed \/ (sess[s].cur = Default /\ SessionMode /\ Splits))
    <3>1. /\ sess[s].at = "attached" /\ ~sess[s].ok /\ sess[s].cur \in Endpoint /\ downed' = downed
          /\ sess[s].ep \in downed /\ (sess[s].cur = sess[s].ep \/ (SessionMode /\ sess[s].cur = Default))
      BY <1>1, <1>5 DEF LoseLease, Link, LinksOK, LinkOK
    <3>2. ~Splits => sess[s].ep = Default \/ Default \in downed
      BY <3>1 DEF StartsOK
    <3> QED  BY <3>1, <3>2
  <2>2. health' = [health EXCEPT ![sess[s].cur] = ReportFailure(health[sess[s].cur])]
    BY <1>1, <1>5, <2>1 DEF LoseLease
  <2> QED  BY <1>2, <2>1, <2>2, Zenon
<1>6. ASSUME NEW s \in Session, Snapshot(s) \/ Attached(s) \/ Checkout(s)
      PROVE  BlameIsDeserved'
  <2>1. sess[s].ep \in Endpoint /\ downed' = downed
        /\ (health' = [health EXCEPT ![sess[s].ep] = Fresh] \/ health' = health)
    BY <1>1, <1>6 DEF Snapshot, Attached, Checkout, Link
  <2> QED  BY <1>2, <1>3, <2>1
<1>7. ASSUME NEW e \in Endpoint, Cool(e)
      PROVE  BlameIsDeserved'
  <2>1. health[e].st = "dead" /\ Fresh.st = "alive"
    BY <1>7 DEF Cool, Fresh
  <2>2. e \in downed \/ (e = Default /\ SessionMode /\ Splits)
    BY <2>1 DEF BlameIsDeserved
  <2>3. downed' = downed /\ health' = [health EXCEPT ![e] = [health[e] EXCEPT !.due = TRUE]]
    BY <1>1, <1>7 DEF Cool
  <2> QED  BY <1>2, <2>2, <2>3, Zenon
<1>8. ASSUME NEW s \in Session, NEW want \in Wants,
             \/ Arrive(s, want) \/ Attach(s, want) \/ Route(s) \/ GiveUp(s)
             \/ ProbeFails(s) \/ Detach(s) \/ Leave(s)
      PROVE  BlameIsDeserved'
  BY <1>3, <1>8 DEF Arrive, Attach, Route, GiveUp, ProbeFails, Detach, Leave
<1>9. ASSUME NEW e \in Endpoint, Flip(e)
      PROVE  BlameIsDeserved'
  BY <1>3, <1>9 DEF Flip
<1>10. CASE UNCHANGED vars
  BY <1>3, <1>10 DEF vars
<1>11. Wants # {}
  BY DEF Wants
<1> QED  BY <1>4, <1>5, <1>6, <1>7, <1>8, <1>9, <1>10, <1>11 DEF Next, Step

\* When every server lets the sessions replay their state, no endpoint that was never
\* down is blamed, whichever others fell, in both pool modes; only where readers start
\* on replicas in session mode is the first endpoint of the route excepted
\* (on_upstream_error, the pump's UpstreamError).
THEOREM BlameDeserved ==
    ASSUME Refused = {}
    PROVE  Spec => []BlameIsDeserved
<1>1. Init => BInv /\ StartsOK /\ BlameIsDeserved
  BY InitBInv DEF Init, BlameIsDeserved, StartsOK, Gone
<1>2. BInv /\ StartsOK /\ BlameIsDeserved /\ [Next]_vars => (BInv /\ StartsOK /\ BlameIsDeserved)'
  BY NextBInv, StartsNext, SparesNext DEF BInv
<1> QED  BY <1>1, <1>2, PTL DEF Spec

-----------------------------------------------------------------------------
(***************************************************************************)
(* The failover loop is long enough.  Each attempt of a session that fails *)
(* leaves a mark: the endpoint's first failure, or the one that takes it   *)
(* out.  Other sessions' failures may take an endpoint out after the       *)
(* router picked it; then the mark was left for this attempt, too.  Every  *)
(* endpoint can be marked twice, and one that is considered alive is not   *)
(* marked twice, so with one of those left the loop has an attempt left.   *)
(***************************************************************************)

\* The marks the health h has left on the endpoints C.
Load(h, C) ==
    Cardinality({e \in C : h[e] # Fresh}) + Cardinality({e \in C : ~IsAlive(h[e])})

\* Sets of endpoints compare by size as by inclusion.
LEMMA SetsGrow ==
    ASSUME NEW A \in SUBSET Endpoint, NEW B \in SUBSET Endpoint, A \subseteq B
    PROVE  /\ Cardinality(A) \in Nat /\ Cardinality(B) \in Nat /\ Cardinality(A) <= Cardinality(B)
           /\ A # B => Cardinality(A) + 1 <= Cardinality(B)
<1>1. IsFiniteSet(A) /\ IsFiniteSet(B)
  BY EndpointsFinite, FS_Subset
<1>2. Cardinality(A) \in Nat /\ Cardinality(B) \in Nat
  BY <1>1, FS_CardinalityType
<1>3. Cardinality(A) <= Cardinality(B) /\ (Cardinality(B) = Cardinality(A) => B = A)
  BY <1>1, FS_Subset
<1> QED  BY <1>2, <1>3

\* Failures only add marks, and one reported for an endpoint considered alive adds one
\* when the threshold is at most 2 (report_failure).
LEMMA LoadGrows ==
    ASSUME NEW C \in SUBSET Endpoint, NEW b \in C,
           NEW h \in [Endpoint -> Health], NEW k \in [Endpoint -> Health],
           \A e \in Endpoint : k[e] = h[e] \/ k[e] = ReportFailure(h[e])
    PROVE  /\ Load(h, C) \in Nat /\ Load(k, C) \in Nat /\ Load(h, C) <= Load(k, C)
           /\ IsAlive(h[b]) /\ ~IsAlive(k[b]) => Load(h, C) + 1 <= Load(k, C)
           /\ FailureThreshold <= 2 /\ IsAlive(h[b]) /\ (h[b].st = "alive" => ~h[b].due)
                 /\ k[b] = ReportFailure(h[b]) => Load(h, C) + 1 <= Load(k, C)
<1> DEFINE Mh == {e \in C : h[e] # Fresh}      Mk == {e \in C : k[e] # Fresh}
           Oh == {e \in C : ~IsAlive(h[e])}    Ok == {e \in C : ~IsAlive(k[e])}
<1>1. \A e \in Endpoint : h[e] \in Health /\ k[e] \in Health
  OBVIOUS
<1>2. Mh \subseteq Mk /\ Oh \subseteq Ok /\ Mk \in SUBSET Endpoint /\ Ok \in SUBSET Endpoint
      /\ Mh \in SUBSET Endpoint /\ Oh \in SUBSET Endpoint
  BY <1>1, FailureCounts
<1>3. /\ Cardinality(Mh) \in Nat /\ Cardinality(Mk) \in Nat /\ Cardinality(Mh) <= Cardinality(Mk)
      /\ Cardinality(Oh) \in Nat /\ Cardinality(Ok) \in Nat /\ Cardinality(Oh) <= Cardinality(Ok)
      /\ Mh # Mk => Cardinality(Mh) + 1 <= Cardinality(Mk)
      /\ Oh # Ok => Cardinality(Oh) + 1 <= Cardinality(Ok)
  <2> HIDE DEF Mh, Mk, Oh, Ok
  <2> QED  BY <1>2, SetsGrow
<1>4. Load(h, C) = Cardinality(Mh) + Cardinality(Oh) /\ Load(k, C) = Cardinality(Mk) + Cardinality(Ok)
  BY DEF Load
<1>5. IsAlive(h[b]) /\ ~IsAlive(k[b]) => Oh # Ok
  OBVIOUS
<1>6. ASSUME FailureThreshold <= 2, IsAlive(h[b]), h[b].st = "alive" => ~h[b].due,
             k[b] = ReportFailure(h[b])
      PROVE  Mh # Mk \/ Oh # Ok
  <2>1. h[b] \in Health /\ b \in Endpoint
    BY <1>1
  <2>2. CASE h[b] = Fresh
    <3>1. k[b] # Fresh
      BY <1>6, <2>1, FailureCounts
    <3> QED  BY <2>2, <3>1
  <2>3. CASE h[b] # Fresh
    <3>1. h[b].st = "alive" => h[b].n + 1 >= FailureThreshold
      BY <1>6, <2>1, <2>3, RoutingAssumption DEF Health, Fresh
    <3>2. k[b] = Dead
      BY <1>6, <2>1, <3>1, RoutingAssumption DEF ReportFailure, Health
    <3>3. ~IsAlive(k[b])
      BY <3>2 DEF Dead, IsAlive
    <3> QED  BY <1>6, <3>3
  <2> QED  BY <2>2, <2>3
<1> HIDE DEF Mh, Mk, Oh, Ok
<1> QED  BY <1>3, <1>4, <1>5, <1>6

\* While one endpoint is considered alive, not every endpoint is marked twice.
LEMMA LoadBound ==
    ASSUME NEW C \in SUBSET Endpoint, NEW b \in C, NEW h \in [Endpoint -> Health], IsAlive(h[b])
    PROVE  Load(h, C) \in Nat /\ Cardinality(C) \in Nat
           /\ Load(h, C) + 1 <= Cardinality(C) + Cardinality(C)
<1> DEFINE M == {e \in C : h[e] # Fresh}      O == {e \in C : ~IsAlive(h[e])}
<1>1. M \subseteq C /\ O \subseteq C /\ O # C /\ M \in SUBSET Endpoint /\ O \in SUBSET Endpoint
  OBVIOUS
<1>2. Load(h, C) = Cardinality(M) + Cardinality(O)
  BY DEF Load
<1> HIDE DEF M, O
<1>3. /\ Cardinality(M) \in Nat /\ Cardinality(C) \in Nat /\ Cardinality(M) <= Cardinality(C)
      /\ Cardinality(O) \in Nat /\ Cardinality(O) + 1 <= Cardinality(C)
  BY <1>1, SetsGrow
<1> QED  BY <1>2, <1>3

\* Whatever fails, a write is attached to the primary only (RwSplit::route).
THEOREM WritesPinned == Spec => []WritesArePinned
<1>1. Init => WritesArePinned
  BY DEF Init, WritesArePinned, Gone
<1>2. ASSUME Typed, WritesArePinned, [Next]_vars
      PROVE  WritesArePinned'
  <2>1. CASE UNCHANGED vars
    BY <1>2, <2>1 DEF vars, WritesArePinned, Splits
  <2>2. CASE Next
    <3> SUFFICES ASSUME NEW d \in Session, Splits,
                        sess'[d].at \in {"connecting", "replaying", "attached"},
                        sess'[d].want = "write"
                 PROVE  sess'[d].ep = Default
      BY <1>2, NextTyped, ZenonT(30) DEF WritesArePinned, Splits
    <3>1. CASE Stays(d)
      BY <1>2, <3>1 DEF Stays, WritesArePinned
    <3>2. CASE Routed(d)
      BY <3>2 DEF Routed, Pick, SplitPick
    <3>3. CASE CheckedOut(d) \/ Done(d)
      BY <1>2, <3>3 DEF CheckedOut, Done, WritesArePinned
    <3>4. CASE Begins(d) \/ Failed(d)
      BY <3>4 DEF Begins, Failed
    <3> QED  BY <1>2, <2>2, <3>1, <3>2, <3>3, <3>4, Moves
  <2> QED  BY <1>2, <2>1, <2>2
<1> QED  BY <1>1, <1>2, RoutingTypes, PTL DEF Spec

\* A session that has an endpoint left paid for every attempt with a mark.
AttemptOK(d) ==
    Trying(d) /\ live[d] \cap Eligible(d) # {} =>
        /\ \A e \in live[d] : IsAlive(health[e])
        /\ sess[d].tries <= Load(health, Eligible(d))
        /\ sess[d].at # "routing" =>
              /\ sess[d].ep \in Eligible(d)
              /\ ~IsAlive(health[sess[d].ep]) => sess[d].tries + 1 <= Load(health, Eligible(d))

AttemptsOK == \A d \in Session : AttemptOK(d)

\* The router picks an endpoint considered alive among those it may pick, if one is left.
LEMMA PickIsAlive ==
    ASSUME Typed, NEW d \in Session, NEW b \in Eligible(d), IsAlive(health[b])
    PROVE  Pick(sess[d].want) \in Eligible(d) /\ IsAlive(health[Pick(sess[d].want)])
<1>1. sess[d].want \in {"read", "write"} /\ b \in Endpoint
  BY EndpointsFinite DEF Typed, TypeOK, Link, Eligible
<1>2. CASE ~Splits
  <2>1. b \in AliveOnes /\ AliveOnes \subseteq Endpoint
    BY <1>1 DEF AliveOnes
  <2>2. FirstOr(AliveOnes) \in AliveOnes
    BY <1>1, <2>1, FirstOrPicks
  <2> QED  BY <1>2, <2>1, <2>2 DEF Pick, FailoverPick, AliveOnes, Eligible
<1>3. CASE Splits /\ sess[d].want = "write"
  BY <1>3 DEF Pick, SplitPick, Eligible
<1>4. CASE Splits /\ sess[d].want = "read"
  <2> DEFINE R == AliveOnes \ {Default}
  <2>1. Pick(sess[d].want) = FirstOr(R) /\ Eligible(d) = Endpoint
    BY <1>4 DEF Pick, SplitPick, Eligible
  <2>2. R \subseteq Endpoint
    BY DEF AliveOnes
  <2>3. CASE R = {}
    <3>1. b = Default /\ FirstOr(R) = Default
      BY <1>1, <2>3, FirstOrPicks DEF AliveOnes
    <3> QED  BY <1>1, <2>1, <3>1
  <2>4. CASE R # {}
    <3>1. FirstOr(R) \in R
      BY <2>2, <2>4, FirstOrPicks
    <3> QED  BY <2>1, <2>2, <3>1 DEF AliveOnes
  <2> QED  BY <2>3, <2>4
<1> QED  BY <1>1, <1>2, <1>3, <1>4

\* What the history of live endpoints says.
LEMMA LiveHistory ==
    ASSUME Typed, Next, NEW d \in Session, Trying(d)'
    PROVE  /\ \A e \in live'[d] : IsAlive(health'[e])
           /\ Trying(d) => live'[d] \subseteq live[d]
           /\ Trying(d) /\ live'[d] # {} => \A e \in Endpoint : ~Healthier(e)
<1>1. /\ Trying(d) => live'[d] \subseteq live[d] \cap {e \in Endpoint : up'[e] /\ IsAlive(health'[e])}
      /\ Trying(d) /\ live'[d] # {} => \A e \in Endpoint : ~Healthier(e)
      /\ ~Trying(d) => live'[d] = {e \in Endpoint : up'[e] /\ IsAlive(health'[e])}
  BY DEF Next, Track
<1> QED  BY <1>1

\* Every step keeps the account of every session.
LEMMA NextAttempts ==
    ASSUME FailureThreshold <= 2, Typed, AttemptsOK, [Next]_vars
    PROVE  AttemptsOK'
<1>1. CASE UNCHANGED vars
  BY <1>1, ZenonT(30) DEF vars, AttemptsOK, AttemptOK, Trying, Eligible, Splits
<1>2. CASE Next
  <2> SUFFICES ASSUME NEW d \in Session, Trying(d)', live'[d] \cap Eligible(d)' # {}
               PROVE  AttemptOK(d)'
    BY DEF AttemptsOK, AttemptOK
  <2> DEFINE C == Eligible(d)
  <2>1. /\ health \in [Endpoint -> Health] /\ health' \in [Endpoint -> Health] /\ HealthOK
        /\ sess[d] \in Link /\ sess'[d] \in Link
        /\ C \in SUBSET Endpoint /\ Eligible(d)' \in SUBSET Endpoint
        /\ sess'[d].want = sess[d].want => Eligible(d)' = C
    BY NextTyped, EndpointsFinite DEF Typed, TypeOK, Eligible, Splits
  <2>2. \A e \in live'[d] : IsAlive(health'[e])
    BY <1>2, LiveHistory, ZenonT(30)
  <2>3. PICK b \in Eligible(d)' : IsAlive(health'[b])
    BY <2>2
  <2>4. CASE Begins(d)
    <3>1. Load(health', Eligible(d)') \in Nat
      BY <2>1, <2>3, LoadBound
    <3>2. sess'[d].at = "routing" /\ sess'[d].tries = 0
      BY <2>4 DEF Begins
    <3> QED  BY <2>2, <3>1, <3>2 DEF AttemptOK
  <2>5. CASE Done(d)
    BY <2>5 DEF Done, Trying
  <2>6. CASE Stays(d) \/ Routed(d) \/ CheckedOut(d) \/ Failed(d)
    <3>1. Trying(d) /\ sess'[d].want = sess[d].want
      BY <2>6 DEF Stays, Routed, CheckedOut, Failed, Trying
    <3>2. /\ Eligible(d)' = C /\ live'[d] \subseteq live[d] /\ live[d] \cap C # {} /\ b \in C
          /\ \A e \in Endpoint : health'[e] = health[e] \/ health'[e] = ReportFailure(health[e])
      BY <1>2, <2>1, <2>3, <3>1, LiveHistory DEF Healthier
    <3>3. /\ sess[d].tries <= Load(health, C)
          /\ \A e \in live[d] : IsAlive(health[e])
          /\ sess[d].at # "routing" => sess[d].ep \in C
          /\ sess[d].at # "routing" /\ ~IsAlive(health[sess[d].ep]) =>
                sess[d].tries + 1 <= Load(health, C)
      BY <3>1, <3>2 DEF AttemptsOK, AttemptOK
    <3>4. sess[d].tries \in Nat /\ sess'[d].tries \in Nat
      BY <2>1, AttemptsAreNat DEF Link
    <3>5. /\ Load(health, C) \in Nat /\ Load(health', C) \in Nat
          /\ Load(health, C) <= Load(health', C)
          /\ \A e \in C : IsAlive(health[e]) /\ ~IsAlive(health'[e]) =>
                            Load(health, C) + 1 <= Load(health', C)
          /\ \A e \in C : IsAlive(health[e]) /\ health'[e] = ReportFailure(health[e]) =>
                            Load(health, C) + 1 <= Load(health', C)
      <4> HIDE DEF C
      <4> QED  BY <2>1, <3>2, LoadGrows, ZenonT(30) DEF HealthOK
    <3> SUFFICES /\ sess'[d].tries <= Load(health', C)
                 /\ sess'[d].at # "routing" =>
                       /\ sess'[d].ep \in C
                       /\ ~IsAlive(health'[sess'[d].ep]) => sess'[d].tries + 1 <= Load(health', C)
      BY <2>2, <3>2 DEF AttemptOK
    <3> HIDE DEF C
    <3>6. CASE Stays(d) \/ CheckedOut(d)
      <4>1. /\ sess'[d].tries = sess[d].tries /\ sess'[d].ep = sess[d].ep
            /\ sess'[d].at # "routing" => sess[d].at # "routing"
        BY <3>6 DEF Stays, CheckedOut
      <4>2. sess'[d].tries <= Load(health', C)
        BY <3>3, <3>4, <3>5, <4>1
      <4>3. ASSUME sess'[d].at # "routing" PROVE sess'[d].ep \in C
        BY <3>3, <4>1, <4>3, Zenon
      <4>4. ASSUME sess'[d].at # "routing", ~IsAlive(health'[sess'[d].ep])
            PROVE  sess'[d].tries + 1 <= Load(health', C)
        <5>1. CASE IsAlive(health[sess[d].ep])
          <6>1. Load(health, C) + 1 <= Load(health', C)
            BY <3>5, <4>1, <4>3, <4>4, <5>1, Zenon
          <6>2. sess'[d].tries <= Load(health, C)
            BY <3>3, <4>1, Zenon
          <6> QED  BY <3>4, <3>5, <6>1, <6>2
        <5>2. CASE ~IsAlive(health[sess[d].ep])
          <6>1. sess'[d].tries + 1 <= Load(health, C)
            BY <3>3, <4>1, <4>4, <5>2, Zenon
          <6> QED  BY <3>4, <3>5, <6>1
        <5> QED  BY <5>1, <5>2
      <4> QED  BY <4>2, <4>3, <4>4, Zenon
    <3>7. CASE Routed(d)
      <4>1. PICK a \in C : IsAlive(health[a])
        BY <3>2, <3>3
      <4>2. sess'[d].ep \in C /\ IsAlive(health[sess'[d].ep])
        BY <3>7, <4>1, PickIsAlive DEF Routed, C
      <4> QED  BY <3>3, <3>4, <3>5, <3>7, <4>2 DEF Routed
    <3>8. CASE Failed(d)
      <4>1. sess[d].ep \in C /\ sess[d].ep \in Endpoint /\ sess'[d].tries = sess[d].tries + 1
            /\ sess'[d].at = "routing"
        BY <2>1, <3>3, <3>8 DEF Failed
      <4>2. health'[sess[d].ep] = ReportFailure(health[sess[d].ep])
        BY <2>1, <3>8, <4>1 DEF Failed
      <4>3. CASE IsAlive(health[sess[d].ep])
        BY <3>3, <3>4, <3>5, <4>1, <4>2, <4>3
      <4>4. CASE ~IsAlive(health[sess[d].ep])
        <5>1. sess[d].at # "routing"
          BY <3>8 DEF Failed
        <5> QED  BY <3>3, <3>4, <3>5, <4>1, <4>4, <5>1
      <4> QED  BY <4>3, <4>4
    <3> QED  BY <2>6, <3>6, <3>7, <3>8
  <2> QED  BY <1>2, <2>4, <2>5, <2>6, Moves
<1> QED  BY <1>1, <1>2

\* For every number of sessions and endpoints, both routers and both pool modes, with the
\* default failure threshold: two attempts per endpoint are enough.  A session is told
\* that all endpoints failed only if, of those it could be sent to, none was up and
\* considered alive throughout the attach, or something came, went or got healthier.
THEOREM LoopIsLongEnough ==
    ASSUME FailureThreshold <= 2
    PROVE  Spec => []GivesUpOnlyWhenNoneLive
<1>1. Init => Typed /\ AttemptsOK
  BY InitTyped DEF Init, AttemptsOK, AttemptOK, Trying, Gone
<1>2. Typed /\ AttemptsOK /\ [Next]_vars => (Typed /\ AttemptsOK)'
  BY NextTyped, NextAttempts
<1>3. ASSUME Typed, AttemptsOK
      PROVE  GivesUpOnlyWhenNoneLive
  <2> SUFFICES ASSUME NEW s \in Session, sess[s].at = "routing", sess[s].tries >= Attempts,
                      live[s] \cap Eligible(s) # {}
               PROVE  FALSE
    BY DEF GivesUpOnlyWhenNoneLive
  <2>1. /\ health \in [Endpoint -> Health] /\ Eligible(s) \in SUBSET Endpoint
        /\ sess[s].tries \in Nat
    BY <1>3, EndpointsFinite, AttemptsAreNat DEF Typed, TypeOK, Link, Eligible
  <2>2. sess[s].tries <= Load(health, Eligible(s)) /\ \A e \in live[s] : IsAlive(health[e])
    BY <1>3 DEF AttemptsOK, AttemptOK, Trying
  <2>3. PICK b \in Eligible(s) : IsAlive(health[b])
    BY <2>2
  <2> DEFINE n == Cardinality(Eligible(s))
  <2>4. Load(health, Eligible(s)) \in Nat /\ n \in Nat /\ Load(health, Eligible(s)) + 1 <= n + n
    BY <2>1, <2>3, LoadBound
  <2>5. n <= Cardinality(Endpoint)
    BY <2>1, SetsGrow
  <2>6. Attempts = Len(Order) + Len(Order)
    BY EndpointsFinite DEF Attempts
  <2> HIDE DEF n
  <2> QED  BY <2>1, <2>2, <2>4, <2>5, <2>6, EndpointsFinite
<1> QED  BY <1>1, <1>2, <1>3, PTL DEF Spec
=============================================================================
