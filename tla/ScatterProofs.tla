--------------------------- MODULE ScatterProofs ---------------------------
(***************************************************************************)
(* Proofs about scatter-gather, for every number of sessions and shards,   *)
(* every list of legs and every configuration.                             *)
(***************************************************************************)
EXTENDS Scatter, FiniteSetTheorems, SequenceTheorems, WellFoundedInduction, TLAPS

\* A leaf that names no prover is tried by SMT, by Zenon, and by SMT again.
USE SMTT(60), ZenonT(30), SMTT(60)

Inj(q) == \A i, j \in DOMAIN q : q[i] = q[j] => i = j

-----------------------------------------------------------------------------
(***************************************************************************)
(* Queues.                                                                 *)
(***************************************************************************)

\* A nonempty set of numbers has a least one.
LEMMA LeastOf ==
    ASSUME NEW T \in SUBSET Nat, T # {}
    PROVE  \E x \in T : \A y \in T : x <= y
<1>1. \E x \in T : \A y \in T : ~ (<<y, x>> \in OpToRel(<, Nat))
  BY NatLessThanWellFounded, WFMin, Zenon
<1>2. \A x, y \in Nat : ~ (<<y, x>> \in OpToRel(<, Nat)) => x <= y
  BY DEF OpToRel
<1> QED  BY <1>1, <1>2, Zenon

\* A waiter joins a queue it is not in.
LEMMA Joins ==
    ASSUME NEW S, NEW q \in Seq(S), NEW x \in S, Inj(q), x \notin Range(q)
    PROVE  /\ Append(q, x) \in Seq(S) /\ Inj(Append(q, x))
           /\ Range(Append(q, x)) = Range(q) \cup {x}
<1>1. /\ Append(q, x) \in Seq(S) /\ Len(q) \in Nat /\ DOMAIN q = 1..Len(q)
      /\ DOMAIN Append(q, x) = 1..(Len(q) + 1)
      /\ \A i \in 1..Len(q) : Append(q, x)[i] = q[i]
      /\ Append(q, x)[Len(q) + 1] = x
  BY AppendProperties, LenProperties
<1>2. \A i \in DOMAIN q : q[i] # x
  BY DEF Range
<1>3. Inj(Append(q, x))
  BY <1>1, <1>2 DEF Inj
<1>4. Range(Append(q, x)) = Range(q) \cup {x}
  BY <1>1 DEF Range
<1> QED  BY <1>1, <1>3, <1>4

\* The first of a queue leaves it.
LEMMA Leaves ==
    ASSUME NEW S, NEW q \in Seq(S), q # <<>>, Inj(q)
    PROVE  /\ Tail(q) \in Seq(S) /\ Inj(Tail(q)) /\ Head(q) \in Range(q)
           /\ Range(Tail(q)) = Range(q) \ {Head(q)}
<1>1. /\ Tail(q) \in Seq(S) /\ Len(q) \in Nat \ {0} /\ DOMAIN q = 1..Len(q) /\ Head(q) = q[1]
      /\ DOMAIN Tail(q) = 1..(Len(q) - 1)
      /\ \A i \in 1..(Len(q) - 1) : Tail(q)[i] = q[i + 1]
  BY HeadTailProperties, LenProperties, EmptySeq
<1>2. Inj(Tail(q))
  BY <1>1 DEF Inj
<1>3. Range(Tail(q)) \subseteq Range(q) \ {Head(q)}
  BY <1>1 DEF Range, Inj
<1>4. ASSUME NEW x \in Range(q), x # Head(q)
      PROVE  x \in Range(Tail(q))
  <2>1. PICK i \in 1..Len(q) : q[i] = x
    BY <1>1 DEF Range
  <2>2. i - 1 \in 1..(Len(q) - 1) /\ Tail(q)[i - 1] = x
    BY <1>1, <1>4, <2>1
  <2> QED  BY <1>1, <2>2, Zenon DEF Range
<1>5. Head(q) \in Range(q)
  BY <1>1 DEF Range
<1> QED  BY <1>1, <1>2, <1>3, <1>4, <1>5

\* What Without computes up to each place of the queue, and that the recursion is sound:
\* a least place without a value would have the value its definition gives it.
Keeps(f, q, s, n) ==
    f = [k \in 0 .. n |-> IF k = 0 THEN <<>>
                          ELSE IF q[k][1] = s THEN f[k - 1] ELSE Append(f[k - 1], q[k])]

\* There is such a function for the whole queue.
LEMMA KeepsExists ==
    ASSUME NEW q, NEW s, NEW n \in Nat
    PROVE  \E f : Keeps(f, q, s, n)
<1> DEFINE Bad == {m \in Nat : ~ \E f : Keeps(f, q, s, m)}
<1> SUFFICES ASSUME Bad # {} PROVE FALSE
  OBVIOUS
<1>1. PICK m \in Bad : \A k \in Bad : m <= k
  <2>1. Bad \in SUBSET Nat
    OBVIOUS
  <2> HIDE DEF Bad
  <2> QED  BY <2>1, LeastOf
<1>2. CASE m = 0
  <2>1. Keeps([k \in 0 .. 0 |-> <<>>], q, s, 0)
    BY DEF Keeps
  <2> QED  BY <1>2, <2>1
<1>3. CASE m # 0
  <2>1. m - 1 \in Nat /\ m - 1 \notin Bad
    BY <1>1, <1>3
  <2>2. PICK f : Keeps(f, q, s, m - 1)
    BY <2>1
  <2> DEFINE g == [k \in 0 .. m |->
                     IF k \in 0 .. (m - 1) THEN f[k]
                     ELSE IF q[k][1] = s THEN f[k - 1] ELSE Append(f[k - 1], q[k])]
  <2>3. \A k \in 0 .. (m - 1) : f[k] = IF k = 0 THEN <<>>
                ELSE IF q[k][1] = s THEN f[k - 1] ELSE Append(f[k - 1], q[k])
    BY <2>2, Zenon DEF Keeps
  <2>4. \A k \in 0 .. m : k # 0 => k - 1 \in 0 .. (m - 1) /\ g[k - 1] = f[k - 1]
    BY <2>1
  <2>5. \A k \in 0 .. m : g[k] = IF k = 0 THEN <<>>
                ELSE IF q[k][1] = s THEN g[k - 1] ELSE Append(g[k - 1], q[k])
    BY <2>1, <2>3, <2>4
  <2>6. Keeps(g, q, s, m)
    <3>1. g = [k \in 0 .. m |-> g[k]]
      OBVIOUS
    <3> HIDE DEF g
    <3> QED  BY <2>5, <3>1, Zenon DEF Keeps
  <2> QED  BY <2>6
<1> QED  BY <1>2, <1>3

\* A dropped scatter's waiters leave the queue, and nobody else does.
LEMMA Drops ==
    ASSUME NEW S, NEW q \in Seq(S), NEW s, Inj(q)
    PROVE  /\ Without(q, s) \in Seq(S) /\ Inj(Without(q, s))
           /\ Range(Without(q, s)) = {w \in Range(q) : w[1] # s}
<1> DEFINE n == Len(q)
           f == CHOOSE g : Keeps(g, q, s, n)
           Kept(k) == {w \in {q[j] : j \in 1 .. k} : w[1] # s}
           Good(k) == f[k] \in Seq(S) /\ Inj(f[k]) /\ Range(f[k]) = Kept(k)
           Bad == {k \in 0 .. n : ~Good(k)}
<1>1. n \in Nat /\ DOMAIN q = 1 .. n /\ \A k \in 1 .. n : q[k] \in S
  BY LenProperties, ElementOfSeq
<1>2. Keeps(f, q, s, n)
  BY <1>1, KeepsExists
<1>3. Without(q, s) = f[n]
  BY DEF Without, Keeps
<1> HIDE DEF f
<1>4. /\ f[0] = <<>>
      /\ \A k \in 1 .. n : f[k] = IF q[k][1] = s THEN f[k - 1] ELSE Append(f[k - 1], q[k])
  <2> HIDE DEF n
  <2>1. \A k \in 0 .. n : f[k] = IF k = 0 THEN <<>>
                ELSE IF q[k][1] = s THEN f[k - 1] ELSE Append(f[k - 1], q[k])
    BY <1>2, Zenon DEF Keeps
  <2> QED  BY <1>1, <2>1
<1>5. Good(0)
  BY <1>4, EmptySeq DEF Inj, Range
<1>6. ASSUME NEW k \in 1 .. n, Good(k - 1)
      PROVE  Good(k)
  <2>1. {q[j] : j \in 1 .. k} = {q[j] : j \in 1 .. (k - 1)} \cup {q[k]} /\ k \in Nat /\ q[k] \in S
    BY <1>1
  <2>2. CASE q[k][1] = s
    <3>1. f[k] = f[k - 1] /\ Kept(k) = Kept(k - 1)
      BY <1>4, <2>1, <2>2, Zenon
    <3> QED  BY <1>6, <3>1
  <2>3. CASE q[k][1] # s
    <3>1. f[k] = Append(f[k - 1], q[k]) /\ Kept(k) = Kept(k - 1) \cup {q[k]}
      BY <1>4, <2>1, <2>3, Zenon
    <3>2. \A j \in 1 .. (k - 1) : q[j] # q[k]
      BY <1>1 DEF Inj
    <3>3. q[k] \notin Kept(k - 1)
      BY <3>2
    <3> HIDE DEF Kept
    <3> QED  BY <1>6, <2>1, <3>1, <3>3, Joins
  <2> QED  BY <2>2, <2>3
<1>7. Bad = {}
  <2> SUFFICES ASSUME Bad # {} PROVE FALSE
    OBVIOUS
  <2> HIDE DEF Good
  <2>1. PICK k \in Bad : \A j \in Bad : k <= j
    <3>1. Bad \in SUBSET Nat
      BY <1>1
    <3> HIDE DEF Bad
    <3> QED  BY <3>1, LeastOf
  <2>2. k \in 1 .. n /\ k - 1 \in 0 .. n /\ k - 1 \notin Bad
    BY <1>1, <1>5, <2>1
  <2> QED  BY <1>6, <2>1, <2>2
<1>8. Good(n)
  <2> HIDE DEF Good
  <2> QED  BY <1>1, <1>7
<1>9. Range(q) = {q[j] : j \in 1 .. n}
  BY <1>1 DEF Range
<1> QED  BY <1>3, <1>8, <1>9

-----------------------------------------------------------------------------
(***************************************************************************)
(* The inductive invariant.  That the rows are whole rests on the account  *)
(* of the legs: what the session collected are exactly the legs that are   *)
(* done, once each, so that when none is left to wait for none is missing. *)
(* A leg enters the account when its query ends, which it does once only   *)
(* if it left its queue for good when it started: so the queues are part   *)
(* of the invariant, and with them that the legs of a failed scatter leave *)
(* them.                                                                   *)
(***************************************************************************)

Active == {"gather", "own", "merge"}

\* A session that runs no scatter.
Rests(q) == q.legs = <<>> /\ q.own = 0 /\ q.done = <<>> /\ ~q.err

\* A session that collects: done are the pooled legs that are done.
Collects(q) ==
    /\ ~q.err /\ q.own \notin Range(q.done)
    /\ \A i \in DOMAIN q.legs : i # q.own => q.legs[i].st \in {"new", "wait", "run", "done"}
    /\ \A i \in DOMAIN q.legs : i # q.own => (q.legs[i].st = "done" <=> i \in Range(q.done))
    /\ q.own # 0 /\ q.pc # "merge" => q.legs[q.own].st = "own"

\* The rows of every leg, once.
Whole(q) ==
    /\ ~q.err /\ Len(q.rows) = Len(q.legs) /\ Range(q.rows) = DOMAIN q.legs
    /\ \A i \in DOMAIN q.legs : q.legs[i].st = "done"

MemberOK(q) ==
    /\ q.own = 0 \/ q.own \in DOMAIN q.legs
    /\ Inj(q.done) /\ Range(q.done) \subseteq DOMAIN q.legs
    /\ q.pc \in {"gone", "attaching", "idle"} => Rests(q)
    /\ q.pc \in Active => Collects(q)
    /\ \A i \in DOMAIN q.legs : q.legs[i].st \in {"new", "wait", "run"} => q.pc = "gather"
    /\ q.pc = "own" => q.own # 0
    /\ q.pc = "merge" => \A i \in DOMAIN q.legs : q.legs[i].st = "done"
    /\ q.rows # <<>> => q.pc = "checkin" /\ Whole(q)

\* Leg n of a session waits at e.
Waits(q, n, e) == n \in DOMAIN q.legs /\ q.legs[n].st = "wait" /\ q.legs[n].ep = e

\* The queues hold the waiting legs of session s, and s once while it attaches.
WaitOK(q, s, queued) ==
    /\ \A e \in Shard, n \in Nat \ {0} : <<s, n>> \in queued[e] <=> Waits(q, n, e)
    /\ \A e \in Shard : <<s, 0>> \in queued[e] => q.pc = "attaching"
    /\ \A e, f \in Shard : <<s, 0>> \in queued[e] /\ <<s, 0>> \in queued[f] => e = f
    /\ q.pc = "attaching" => \E e \in Shard : <<s, 0>> \in queued[e]

Queued == [e \in Shard |-> Range(queue[e])]

MembersOK == \A s \in Session : MemberOK(sess[s])
WaitersOK == \A s \in Session : WaitOK(sess[s], s, Queued)
QueuesOK == \A e \in Shard : Inj(queue[e])

IInv == TypeOK /\ MembersOK /\ WaitersOK /\ QueuesOK

-----------------------------------------------------------------------------
(***************************************************************************)
(* One session moves.                                                      *)
(***************************************************************************)

\* A session moves to a sound state, and its waiters with it; those of others stay.
LEMMA SessionMoves ==
    ASSUME IInv, NEW s \in Session, NEW q \in Member, MemberOK(q), sess' = [sess EXCEPT ![s] = q],
           queue' \in [Shard -> Seq(Session \X Nat)], QueuesOK', WaitOK(q, s, Queued'),
           \A e \in Shard, d \in Session \ {s}, n \in Nat :
              <<d, n>> \in Queued'[e] <=> <<d, n>> \in Queued[e],
           idle' \in [Shard -> Seq(ConnType)], env' \in Setup
    PROVE  IInv'
<1>1. /\ sess' \in [Session -> Member] /\ sess'[s] = q
      /\ \A d \in Session \ {s} : sess'[d] = sess[d]
  BY DEF IInv, TypeOK
<1>2. MembersOK'
  <2>1. ASSUME NEW d \in Session PROVE MemberOK(sess'[d])
    BY <1>1 DEF IInv, MembersOK
  <2> QED  BY <2>1 DEF MembersOK
<1>3. ASSUME NEW d \in Session PROVE WaitOK(sess'[d], d, Queued')
  <2>1. CASE d = s
    BY <1>1, <2>1
  <2>2. CASE d # s
    <3>1. WaitOK(sess[d], d, Queued) /\ sess'[d] = sess[d]
      BY <1>1, <2>2 DEF IInv, WaitersOK
    <3>2. \A e \in Shard, n \in Nat : <<d, n>> \in Queued'[e] <=> <<d, n>> \in Queued[e]
      BY <2>2
    <3>3. 0 \in Nat
      OBVIOUS
    <3> HIDE DEF Queued
    <3> QED  BY <3>1, <3>2, <3>3, Zenon DEF WaitOK
  <2> QED  BY <2>1, <2>2
<1>4. WaitersOK'
  BY <1>3 DEF WaitersOK
<1> QED  BY <1>1, <1>2, <1>4 DEF IInv, TypeOK

\* A session moves and the queues do not.
LEMMA SessionMovesAlone ==
    ASSUME IInv, NEW s \in Session, NEW q \in Member, MemberOK(q), sess' = [sess EXCEPT ![s] = q],
           queue' = queue, q.pc = "attaching" <=> sess[s].pc = "attaching",
           \A e \in Shard, n \in Nat \ {0} : Waits(q, n, e) <=> Waits(sess[s], n, e),
           idle' \in [Shard -> Seq(ConnType)], env' \in Setup
    PROVE  IInv'
<1>1. Queued' = Queued /\ QueuesOK' /\ queue' \in [Shard -> Seq(Session \X Nat)]
  BY DEF Queued, IInv, QueuesOK, TypeOK
<1>2. WaitOK(sess[s], s, Queued)
  BY DEF IInv, WaitersOK
<1>3. WaitOK(q, s, Queued')
  <2> HIDE DEF Queued
  <2> QED  BY <1>1, <1>2, Zenon DEF WaitOK
<1> QED  BY <1>1, <1>3, SessionMoves, Zenon

\* Parking keeps the pools' types, and a failure the setup's.
LEMMA ParkTyped ==
    ASSUME TypeOK, NEW c \in ConnType, Park(c)
    PROVE  idle' \in [Shard -> Seq(ConnType)]
<1>1. \A e \in Shard : idle[e] \in Seq(ConnType) /\ Append(idle[e], c) \in Seq(ConnType)
  BY AppendProperties DEF TypeOK
<1> QED  BY <1>1, Zenon DEF TypeOK, Park

\* A failure is one of those that may happen.
LEMMA FailTyped == ASSUME TypeOK, Fail  PROVE env' \in Setup
<1>1. env \in Setup /\ env.fails \in 0..MaxEvents
  BY DEF TypeOK, Setup
<1>2. env.fails - 1 \in 0..MaxEvents
  BY <1>1, ScatterAssumption DEF Fail
<1> HIDE DEF Setup
<1> DEFINE n == env.fails - 1
<1>3. n \in 0..MaxEvents /\ env' = [env EXCEPT !.fails = n]
  BY <1>2 DEF Fail
<1> HIDE DEF n
<1> QED  BY <1>1, <1>3 DEF Setup

\* A session that waits for nothing comes to rest.
LEMMA ToRest ==
    ASSUME IInv, NEW s \in Session, NEW q \in Member, sess[s].pc \notin {"gather", "attaching"},
           q.pc \in {"idle", "gone"}, Rests(q), q.rows = <<>>, sess' = [sess EXCEPT ![s] = q],
           queue' = queue, idle' \in [Shard -> Seq(ConnType)], env' \in Setup
    PROVE  IInv'
<1>1. DOMAIN q.legs = {} /\ Range(q.done) = {} /\ Inj(q.done)
  BY DEF Rests, Range, Inj
<1>2. MemberOK(q)
  BY <1>1 DEF MemberOK, Rests, Active
<1>3. MemberOK(sess[s])
  BY DEF IInv, MembersOK
<1>4. \A e \in Shard, n \in Nat \ {0} : ~Waits(q, n, e) /\ ~Waits(sess[s], n, e)
  BY <1>1, <1>3 DEF Waits, MemberOK
<1> QED  BY <1>2, <1>4, SessionMovesAlone, Zenon

\* What a session is like after a failed scatter, and before its first.
LEMMA RestingMembers ==
    ASSUME NEW q \in Member
    PROVE  /\ Failed(q) \in Member /\ Rests(Failed(q)) /\ Failed(q).rows = <<>>
           /\ Failed(q).pc = "idle" /\ Failed(q).lease = q.lease
           /\ NewSession \in Member /\ Rests(NewSession) /\ NewSession.rows = <<>>
           /\ NewSession.pc = "gone" /\ NewSession.lease = NoConn
<1>1. <<>> \in Seq(LegType) /\ <<>> \in Seq(Nat) /\ NoConn \in ConnType
  BY EmptySeq DEF NoConn, ConnType
<1> QED  BY <1>1, Zenon DEF Failed, NewSession, Member, Rests

\* Between two queries: the lease goes or is lost, a scatter is refused, the client leaves.
LEMMA IdleIInv ==
    ASSUME IInv, NEW s \in Session, Detach(s) \/ Lose(s) \/ Refuse(s) \/ Leave(s) \/ ClientGone(s)
    PROVE  IInv'
<1>1. /\ sess \in [Session -> Member] /\ sess[s] \in Member /\ MemberOK(sess[s])
      /\ idle \in [Shard -> Seq(ConnType)] /\ env \in Setup /\ TypeOK
      /\ sess[s].lease \in ConnType /\ NoConn \in ConnType
  BY Zenon DEF IInv, TypeOK, MembersOK, Member, NoConn, ConnType
<1>2. CASE Detach(s)
  <2> DEFINE q == [sess[s] EXCEPT !.lease = NoConn]
  <2>1. sess[s].pc = "idle" /\ Rests(sess[s]) /\ sess[s].rows = <<>>
    BY <1>1, <1>2 DEF Detach, MemberOK
  <2>2. q \in Member /\ q.pc = "idle" /\ Rests(q) /\ q.rows = <<>>
    BY <1>1, <2>1, Zenon DEF Member, Rests
  <2>3. sess' = [sess EXCEPT ![s] = q] /\ queue' = queue /\ env' = env
    BY <1>1, <1>2 DEF Detach
  <2>4. idle' \in [Shard -> Seq(ConnType)]
    BY <1>1, <1>2, ParkTyped DEF Detach
  <2> HIDE DEF q
  <2> QED  BY <1>1, <2>1, <2>2, <2>3, <2>4, ToRest, Zenon
<1>3. CASE Lose(s)
  <2> DEFINE q == [sess[s] EXCEPT !.lease = NoConn, !.cur = None]
  <2>1. sess[s].pc = "idle" /\ Rests(sess[s]) /\ sess[s].rows = <<>>
    BY <1>1, <1>3 DEF Lose, MemberOK
  <2>2. q \in Member /\ q.pc = "idle" /\ Rests(q) /\ q.rows = <<>>
    BY <1>1, <2>1, Zenon DEF Member, Rests
  <2>3. sess' = [sess EXCEPT ![s] = q] /\ queue' = queue /\ idle' = idle
    BY <1>1, <1>3, Zenon DEF Lose
  <2>4. env' \in Setup
    BY <1>1, <1>3, FailTyped DEF Lose
  <2> HIDE DEF q
  <2> QED  BY <1>1, <2>1, <2>2, <2>3, <2>4, ToRest, Zenon
<1>4. CASE Refuse(s)
  <2>1. sess[s].pc = "idle" /\ queue' = queue /\ idle' = idle
        /\ sess' = [sess EXCEPT ![s] = Failed(sess[s])]
    BY <1>1, <1>4 DEF Refuse
  <2>2. env' \in Setup
    <3> DEFINE n == env.refusals - 1
    <3>1. env.refusals \in 0..MaxEvents
      BY <1>1 DEF Setup
    <3>2. n \in 0..MaxEvents /\ env' = [env EXCEPT !.refusals = n]
      BY <1>4, <3>1, ScatterAssumption DEF Refuse
    <3> HIDE DEF n
    <3> QED  BY <1>1, <3>2 DEF Setup
  <2> QED  BY <1>1, <2>1, <2>2, RestingMembers, ToRest, Zenon
<1>5. CASE Leave(s) \/ ClientGone(s)
  <2>1. sess[s].pc \in {"idle", "merge"} /\ queue' = queue /\ env' = env
        /\ sess' = [sess EXCEPT ![s] = NewSession]
    BY <1>5 DEF Leave, ClientGone, Ended
  <2>2. idle' \in [Shard -> Seq(ConnType)]
    <3>1. CASE sess[s].lease = NoConn
      BY <1>1, <1>5, <3>1 DEF Leave, ClientGone, Ended
    <3>2. CASE sess[s].lease # NoConn
      <4>1. Fresh(sess[s].lease.at) \in ConnType
        BY <1>1 DEF Fresh, ConnType
      <4> QED  BY <1>1, <1>5, <3>2, <4>1, ParkTyped DEF Leave, ClientGone, Ended
    <3> QED  BY <3>1, <3>2
  <2> QED  BY <1>1, <2>1, <2>2, RestingMembers, ToRest, Zenon
<1> QED  BY <1>2, <1>3, <1>4, <1>5

\* The ways out of a scatter: its last reply, a connection that breaks, a sum that fails.
LEMMA OutIInv ==
    ASSUME IInv, NEW s \in Session, OwnBreaks(s) \/ SumFails(s) \/ Reply(s)
    PROVE  IInv'
<1>1. /\ sess \in [Session -> Member] /\ sess[s] \in Member
      /\ idle \in [Shard -> Seq(ConnType)] /\ env \in Setup /\ TypeOK /\ NoConn \in ConnType
  BY Zenon DEF IInv, TypeOK, NoConn, ConnType
<1> DEFINE f == Failed(sess[s])
<1>2. /\ f \in Member /\ Rests(f) /\ f.rows = <<>> /\ f.pc = "idle"
  BY <1>1, RestingMembers
<1> HIDE DEF f
<1>3. CASE OwnBreaks(s)
  <2> DEFINE q == [f EXCEPT !.lease = NoConn]
  <2>1. q \in Member /\ Rests(q) /\ q.rows = <<>> /\ q.pc = "idle"
    BY <1>1, <1>2, Zenon DEF Member, Rests
  <2>2. /\ sess' = [sess EXCEPT ![s] = q] /\ queue' = queue /\ idle' = idle
        /\ sess[s].pc = "own"
    BY <1>1, <1>3 DEF OwnBreaks, f
  <2>3. env' \in Setup
    BY <1>1, <1>3, FailTyped DEF OwnBreaks
  <2> HIDE DEF q
  <2> QED  BY <1>1, <2>1, <2>2, <2>3, ToRest, Zenon
<1>4. CASE SumFails(s)
  <2>2. /\ sess' = [sess EXCEPT ![s] = f] /\ queue' = queue /\ idle' = idle
        /\ sess[s].pc = "merge"
    BY <1>1, <1>4 DEF SumFails, f
  <2>3. env' \in Setup
    BY <1>1, <1>4, FailTyped DEF SumFails
  <2> QED  BY <1>1, <1>2, <2>2, <2>3, ToRest, Zenon
<1>5. CASE Reply(s)
  <2> DEFINE q == [f EXCEPT !.cur = IF sess[s].err THEN None ELSE sess[s].cur]
  <2>1. q \in Member /\ Rests(q) /\ q.rows = <<>> /\ q.pc = "idle"
    BY <1>1, <1>2, Zenon DEF Member, Rests
  <2>2. /\ sess' = [sess EXCEPT ![s] = q] /\ queue' = queue /\ idle' = idle /\ env' = env
        /\ sess[s].pc = "checkin"
    BY <1>1, <1>5 DEF Reply, f
  <2> HIDE DEF q
  <2> QED  BY <1>1, <2>1, <2>2, ToRest, Zenon
<1> QED  BY <1>3, <1>4, <1>5

\* A waiter joins a pool's queue.
LEMMA QueueJoins ==
    ASSUME IInv, NEW s \in Session, NEW n \in Nat, NEW e \in Shard, <<s, n>> \notin Queued[e],
           queue' = [queue EXCEPT ![e] = Append(@, <<s, n>>)]
    PROVE  /\ queue' \in [Shard -> Seq(Session \X Nat)] /\ QueuesOK'
           /\ \A f \in Shard, d \in Session, m \in Nat :
                 <<d, m>> \in Queued'[f] <=> <<d, m>> \in Queued[f] \/ (f = e /\ d = s /\ m = n)
<1> DEFINE W == Session \X Nat
           w == <<s, n>>
           a == Append(queue[e], w)
<1>1. /\ w \in W /\ \A d \in Session, m \in Nat : <<d, m>> = w <=> (d = s /\ m = n)
  OBVIOUS
<1>2. /\ queue \in [Shard -> Seq(W)] /\ Inj(queue[e]) /\ queue' = [queue EXCEPT ![e] = a]
      /\ w \notin Range(queue[e])
  BY DEF IInv, TypeOK, QueuesOK, Queued
<1> HIDE DEF W, w
<1>3. queue[e] \in Seq(W)
  BY <1>2
<1>4. a \in Seq(W) /\ Inj(a) /\ Range(a) = Range(queue[e]) \cup {w}
  BY <1>1, <1>2, <1>3, Joins
<1> HIDE DEF a
<1>5. /\ queue' \in [Shard -> Seq(W)] /\ queue'[e] = a
      /\ \A f \in Shard \ {e} : queue'[f] = queue[f]
  BY <1>2, <1>4, Zenon
<1>6. QueuesOK'
  BY <1>4, <1>5, Zenon DEF IInv, QueuesOK
<1>7. \A f \in Shard : Queued[f] = Range(queue[f]) /\ Queued'[f] = Range(queue'[f])
  BY DEF Queued
<1>8. Queued'[e] = Queued[e] \cup {w} /\ \A f \in Shard \ {e} : Queued'[f] = Queued[f]
  BY <1>4, <1>5, <1>7, Zenon
<1>9. ASSUME NEW f \in Shard, NEW d \in Session, NEW m \in Nat
      PROVE  <<d, m>> \in Queued'[f] <=> <<d, m>> \in Queued[f] \/ (f = e /\ d = s /\ m = n)
  <2>1. CASE f = e
    BY <1>1, <1>8, <2>1
  <2>2. CASE f # e
    BY <1>8, <2>2
  <2> QED  BY <2>1, <2>2
<1> QED  BY <1>5, <1>6, <1>9, Zenon DEF W

\* The first waiter of a pool leaves its queue.
LEMMA QueueLeaves ==
    ASSUME IInv, NEW s \in Session, NEW n \in Nat, NEW e \in Shard, queue[e] # <<>>,
           Head(queue[e]) = <<s, n>>, queue' = [queue EXCEPT ![e] = Tail(@)]
    PROVE  /\ queue' \in [Shard -> Seq(Session \X Nat)] /\ QueuesOK' /\ <<s, n>> \in Queued[e]
           /\ \A f \in Shard, d \in Session, m \in Nat :
                 <<d, m>> \in Queued'[f] <=> <<d, m>> \in Queued[f] /\ ~(f = e /\ d = s /\ m = n)
<1> DEFINE W == Session \X Nat
           w == <<s, n>>
           a == Tail(queue[e])
<1>1. /\ w \in W /\ \A d \in Session, m \in Nat : <<d, m>> = w <=> (d = s /\ m = n)
  OBVIOUS
<1>2. /\ queue \in [Shard -> Seq(W)] /\ Inj(queue[e]) /\ queue' = [queue EXCEPT ![e] = a]
      /\ w = Head(queue[e])
  BY DEF IInv, TypeOK, QueuesOK
<1> HIDE DEF W, w
<1>3. queue[e] \in Seq(W)
  BY <1>2
<1>4. a \in Seq(W) /\ Inj(a) /\ Range(a) = Range(queue[e]) \ {w} /\ w \in Range(queue[e])
  BY <1>1, <1>2, <1>3, Leaves
<1> HIDE DEF a
<1>5. /\ queue' \in [Shard -> Seq(W)] /\ queue'[e] = a
      /\ \A f \in Shard \ {e} : queue'[f] = queue[f]
  BY <1>2, <1>4
<1>6. QueuesOK'
  BY <1>4, <1>5, Zenon DEF IInv, QueuesOK
<1>7. \A f \in Shard : Queued[f] = Range(queue[f]) /\ Queued'[f] = Range(queue'[f])
  BY DEF Queued
<1>8. Queued'[e] = Queued[e] \ {w} /\ \A f \in Shard \ {e} : Queued'[f] = Queued[f]
  BY <1>4, <1>5, <1>7, Zenon
<1>9. <<s, n>> \in Queued[e]
  BY <1>4, <1>7 DEF w
<1> QED  BY <1>1, <1>5, <1>6, <1>8, <1>9, Zenon DEF W

\* A session asks its pool for a connection.
LEMMA ToAttach ==
    ASSUME IInv, NEW s \in Session, NEW q \in Member, NEW e \in Shard,
           sess[s].pc \in {"gone", "idle"}, q.pc = "attaching", Rests(q), q.rows = <<>>,
           sess' = [sess EXCEPT ![s] = q], queue' = [queue EXCEPT ![e] = Append(@, <<s, 0>>)],
           idle' = idle, env' = env
    PROVE  IInv'
<1>1. /\ MemberOK(sess[s]) /\ WaitOK(sess[s], s, Queued) /\ 0 \in Nat
      /\ idle \in [Shard -> Seq(ConnType)] /\ env \in Setup
  BY DEF IInv, TypeOK, MembersOK, WaitersOK
<1>2. DOMAIN q.legs = {} /\ Range(q.done) = {} /\ Inj(q.done) /\ DOMAIN sess[s].legs = {}
  BY <1>1 DEF Rests, Range, Inj, MemberOK
<1>3. MemberOK(q)
  BY <1>2 DEF MemberOK, Rests, Active
<1>4. \A f \in Shard : <<s, 0>> \notin Queued[f]
  BY <1>1, Zenon DEF WaitOK
<1>5. /\ queue' \in [Shard -> Seq(Session \X Nat)] /\ QueuesOK'
      /\ \A f \in Shard, d \in Session, m \in Nat :
            <<d, m>> \in Queued'[f] <=> <<d, m>> \in Queued[f] \/ (f = e /\ d = s /\ m = 0)
  BY <1>1, <1>4, QueueJoins, Zenon
<1> HIDE DEF Queued
<1>6. \A f \in Shard, n \in Nat \ {0} : ~Waits(q, n, f) /\ ~Waits(sess[s], n, f)
  BY <1>2 DEF Waits
<1>7. WaitOK(q, s, Queued')
  BY <1>1, <1>4, <1>5, <1>6, Zenon DEF WaitOK
<1> QED  BY <1>1, <1>3, <1>5, <1>7, SessionMoves, Zenon

\* A client connects, or its query needs a connection.
LEMMA ArriveIInv == ASSUME IInv, NEW s \in Session, Arrive(s) \/ Attach(s)  PROVE IInv'
<1>1. /\ sess \in [Session -> Member] /\ sess[s] \in Member /\ MemberOK(sess[s])
      /\ idle \in [Shard -> Seq(ConnType)] /\ env \in Setup /\ Homes \subseteq Shard
  BY DEF IInv, TypeOK, MembersOK, Setup, Homes
<1>2. NewSession \in Member /\ Rests(NewSession) /\ NewSession.rows = <<>>
  BY <1>1, RestingMembers, Zenon
<1>3. CASE Attach(s)
  <2>1. PICK e \in Shard : /\ queue' = [queue EXCEPT ![e] = Append(@, <<s, 0>>)]
                           /\ sess' = [sess EXCEPT ![s].pc = "attaching", ![s].cur = e]
    BY <1>1, <1>3, Zenon DEF Attach
  <2> DEFINE q == [sess[s] EXCEPT !.pc = "attaching", !.cur = e]
  <2>2. sess[s].pc = "idle" /\ Rests(sess[s]) /\ sess[s].rows = <<>> /\ idle' = idle /\ env' = env
    BY <1>1, <1>3, Zenon DEF Attach, MemberOK
  <2>3. q \in Member /\ q.pc = "attaching" /\ Rests(q) /\ q.rows = <<>>
    BY <1>1, <2>2, Zenon DEF Member, Rests
  <2>4. sess' = [sess EXCEPT ![s] = q]
    BY <1>1, <2>1, Zenon
  <2> HIDE DEF q
  <2> QED  BY <1>1, <2>1, <2>2, <2>3, <2>4, ToAttach, Zenon
<1>4. CASE Arrive(s) /\ SessionMode
  <2>1. PICK e \in Shard : queue' = [queue EXCEPT ![e] = Append(@, <<s, 0>>)]
    BY <1>1, <1>4 DEF Arrive
  <2> DEFINE q == [NewSession EXCEPT !.pc = "attaching", !.cur = First]
  <2>2. /\ sess[s].pc = "gone" /\ idle' = idle /\ env' = env
        /\ sess' = [sess EXCEPT ![s] = q]
    BY <1>4 DEF Arrive
  <2>3. q \in Member /\ q.pc = "attaching" /\ Rests(q) /\ q.rows = <<>>
    BY <1>2, ScatterAssumption, Zenon DEF Member, Rests
  <2> HIDE DEF q
  <2> QED  BY <2>1, <2>2, <2>3, ToAttach, Zenon
<1>5. CASE Arrive(s) /\ ~SessionMode
  <2> DEFINE q == [NewSession EXCEPT !.pc = "idle"]
  <2>1. /\ sess[s].pc = "gone" /\ idle' = idle /\ env' = env /\ queue' = queue
        /\ sess' = [sess EXCEPT ![s] = q]
    BY <1>5 DEF Arrive
  <2>2. q \in Member /\ q.pc = "idle" /\ Rests(q) /\ q.rows = <<>>
    BY <1>2 DEF Member, Rests
  <2> HIDE DEF q
  <2> QED  BY <1>1, <2>1, <2>2, ToRest, Zenon
<1> QED  BY <1>3, <1>4, <1>5

\* One leg changes.
LEMMA LegMoves ==
    ASSUME NEW legs \in Seq(LegType), NEW i \in DOMAIN legs, NEW l \in LegType
    PROVE  /\ [legs EXCEPT ![i] = l] \in Seq(LegType) /\ Len([legs EXCEPT ![i] = l]) = Len(legs)
           /\ DOMAIN [legs EXCEPT ![i] = l] = DOMAIN legs /\ i \in Nat \ {0}
  BY ExceptSeq, LenProperties

\* A checkout hands out a connection, fresh or from the idle stack.
LEMMA TakenTyped ==
    ASSUME TypeOK, NEW s \in Session, NEW e \in Shard, Dequeue(e)
    PROVE  Taken(s, e) \in ConnType /\ idle' \in [Shard -> Seq(ConnType)]
<1>1. idle \in [Shard -> Seq(ConnType)] /\ idle[e] \in Seq(ConnType)
  BY DEF TypeOK
<1>2. CASE idle[e] = <<>>
  BY <1>1, <1>2, Zenon DEF Taken, Fresh, ConnType, Dequeue
<1>3. CASE idle[e] # <<>>
  <2>1. /\ Len(idle[e]) \in Nat \ {0} /\ Last(idle[e]) = idle[e][Len(idle[e])]
        /\ Front(idle[e]) = SubSeq(idle[e], 1, Len(idle[e]) - 1)
    BY <1>1, <1>3, EmptySeq, LenProperties DEF Front, Last
  <2>2. Last(idle[e]) \in ConnType
    BY <1>1, <2>1, ElementOfSeq
  <2>3. Front(idle[e]) \in Seq(ConnType)
    <3>1. \A j \in 1 .. (Len(idle[e]) - 1) : idle[e][j] \in ConnType
      BY <1>1, <2>1, ElementOfSeq
    <3> QED  BY <1>1, <2>1, <3>1, SubSeqProperties
  <2> DEFINE c == Last(idle[e])
             r == Front(idle[e])
  <2>4. idle' = [idle EXCEPT ![e] = r]
    BY <1>1, <1>3 DEF Dequeue
  <2>5. Taken(s, e) = IF s \in Named THEN [c EXCEPT !.by = s] ELSE c
    BY <1>3 DEF Taken
  <2> HIDE DEF c, r
  <2>6. c \in ConnType /\ r \in Seq(ConnType)
    BY <2>2, <2>3 DEF c, r
  <2>7. Taken(s, e) \in ConnType
    BY <2>5, <2>6 DEF ConnType
  <2> QED  BY <1>1, <2>4, <2>6, <2>7
<1> QED  BY <1>2, <1>3

\* An attaching session gets its connection.
LEMMA AttachedIInv == ASSUME IInv, NEW s \in Session, Attached(s)  PROVE IInv'
<1>1. PICK e \in Shard : /\ Granted(s, 0, e) /\ Dequeue(e) /\ env' = env
                         /\ sess' = [sess EXCEPT ![s].pc = "idle", ![s].lease = Taken(s, e)]
  BY Zenon DEF Attached
<1>2. /\ sess \in [Session -> Member] /\ sess[s] \in Member /\ MemberOK(sess[s])
      /\ WaitOK(sess[s], s, Queued) /\ env \in Setup /\ TypeOK /\ 0 \in Nat
  BY DEF IInv, TypeOK, MembersOK, WaitersOK
<1>3. Taken(s, e) \in ConnType /\ idle' \in [Shard -> Seq(ConnType)]
  BY <1>1, <1>2, TakenTyped
<1>4. /\ queue' \in [Shard -> Seq(Session \X Nat)] /\ QueuesOK' /\ <<s, 0>> \in Queued[e]
      /\ \A f \in Shard, d \in Session, m \in Nat :
            <<d, m>> \in Queued'[f] <=> <<d, m>> \in Queued[f] /\ ~(f = e /\ d = s /\ m = 0)
  BY <1>1, <1>2, QueueLeaves, Zenon DEF Granted, Dequeue
<1>5. sess[s].pc = "attaching" /\ Rests(sess[s]) /\ sess[s].rows = <<>>
  BY <1>2, <1>4 DEF WaitOK, MemberOK
<1> DEFINE q == [sess[s] EXCEPT !.pc = "idle", !.lease = Taken(s, e)]
<1>6. /\ q \in Member /\ q.pc = "idle" /\ q.legs = sess[s].legs /\ Rests(q) /\ q.rows = <<>>
      /\ sess' = [sess EXCEPT ![s] = q]
  BY <1>1, <1>2, <1>3, <1>5, Zenon DEF Member, Rests
<1> HIDE DEF q, Queued
<1>7. DOMAIN q.legs = {} /\ Range(q.done) = {} /\ Inj(q.done)
  BY <1>6 DEF Rests, Range, Inj
<1>8. MemberOK(q)
  BY <1>6, <1>7 DEF MemberOK, Rests, Active
<1>9. \A f \in Shard, n \in Nat \ {0} : ~Waits(q, n, f) /\ ~Waits(sess[s], n, f)
  BY <1>6, <1>7 DEF Waits
<1>10. WaitOK(q, s, Queued')
  BY <1>2, <1>4, <1>5, <1>6, <1>9, Zenon DEF WaitOK
<1> QED  BY <1>1, <1>2, <1>3, <1>4, <1>6, <1>8, <1>10, SessionMoves, Zenon

\* The leg on the session's lease is one of the legs, and on the session's shard.
LEMMA OwnLegIn ==
    ASSUME NEW q, NEW r \in Seq(Shard)
    PROVE  /\ OwnLeg(q, r) \in Nat
           /\ OwnLeg(q, r) = 0 \/ (OwnLeg(q, r) \in DOMAIN r /\ r[OwnLeg(q, r)] = q.cur /\ q.lease # NoConn)
<1> DEFINE T == {i \in DOMAIN r : r[i] = q.cur}
<1>1. DOMAIN r = 1 .. Len(r) /\ Len(r) \in Nat
  BY LenProperties
<1>2. CASE q.lease = NoConn \/ q.cur \notin Range(r)
  BY <1>2 DEF OwnLeg
<1>3. CASE q.lease # NoConn /\ q.cur \in Range(r)
  <2>1. T \in SUBSET Nat /\ T # {}
    BY <1>1, <1>3 DEF Range
  <2>2. PICK i \in T : \A j \in T : i <= j
    <3> HIDE DEF T
    <3> QED  BY <2>1, LeastOf
  <2>3. i \in DOMAIN r /\ r[i] = q.cur /\ \A j \in 1 .. (i - 1) : r[j] # q.cur
    BY <1>1, <2>2
  <2> DEFINE P(k) == r[k] = q.cur /\ \A j \in 1 .. (k - 1) : r[j] # q.cur
  <2>4. OwnLeg(q, r) = CHOOSE k \in DOMAIN r : P(k)
    BY <1>3, Zenon DEF OwnLeg
  <2>5. \E k \in DOMAIN r : P(k)
    BY <2>3
  <2>6. OwnLeg(q, r) \in DOMAIN r /\ P(OwnLeg(q, r))
    <3> HIDE DEF P
    <3> QED  BY <2>4, <2>5
  <2> QED  BY <1>1, <1>3, <2>6
<1> QED  BY <1>2, <1>3

\* A scatter begins.
LEMMA ScatterIInv ==
    ASSUME IInv, NEW s \in Session, NEW r \in Requests, Scatter(s, r)
    PROVE  IInv'
<1> DEFINE own == OwnLeg(sess[s], r)
           legs == [i \in DOMAIN r |-> Leg(r[i], IF i = own THEN "own" ELSE "new")]
           q == [sess[s] EXCEPT !.own = own, !.legs = legs]
           m == [q EXCEPT !.pc = AfterLegs(q)]
<1>1. /\ sess \in [Session -> Member] /\ sess[s] \in Member /\ MemberOK(sess[s])
      /\ idle \in [Shard -> Seq(ConnType)] /\ env \in Setup
      /\ r \in Seq(Shard) /\ DOMAIN r = 1 .. Len(r) /\ Len(r) \in Nat
  BY ScatterAssumption, LenProperties DEF IInv, TypeOK, MembersOK
<1>2. /\ sess' = [sess EXCEPT ![s] = m] /\ queue' = queue /\ idle' = idle /\ sess[s].pc = "idle"
      /\ Rests(sess[s]) /\ sess[s].rows = <<>>
  BY <1>1 DEF Scatter, MemberOK
<1>3. env' \in Setup
  <2> DEFINE n == env.scatters - 1
  <2>1. env.scatters \in 0..MaxEvents
    BY <1>1 DEF Setup
  <2>2. n \in 0..MaxEvents /\ env' = [env EXCEPT !.scatters = n]
    BY <2>1, ScatterAssumption DEF Scatter
  <2> HIDE DEF n
  <2> QED  BY <1>1, <2>2, Zenon DEF Setup
<1>4. own \in Nat /\ (own = 0 \/ own \in DOMAIN r)
  BY <1>1, OwnLegIn
<1> HIDE DEF own
<1>5. legs \in Seq(LegType)
  <2>1. \A i \in 1 .. Len(r) : Leg(r[i], IF i = own THEN "own" ELSE "new") \in LegType
    BY <1>1, ElementOfSeq DEF Leg, LegType, NoConn, ConnType
  <2> QED  BY <1>1, <2>1
<1>6. DOMAIN legs = DOMAIN r /\ \A i \in DOMAIN r : legs[i].st = IF i = own THEN "own" ELSE "new"
  BY DEF Leg
<1> HIDE DEF legs
<1>7. q.legs = legs /\ q.own = own /\ q.done = <<>> /\ ~q.err /\ q.rows = <<>> /\ q \in Member
  BY <1>1, <1>2, <1>4, <1>5, Zenon DEF Member, Rests
<1>8. /\ AfterLegs(q) = "gather" \/ (DOMAIN r \subseteq {own} /\ AfterLegs(q) = "own" /\ own # 0)
                        \/ (DOMAIN r \subseteq {own} /\ AfterLegs(q) = "merge" /\ own = 0)
  BY <1>6, <1>7 DEF AfterLegs
<1> HIDE DEF q
<1>9. /\ m \in Member /\ m.legs = legs /\ m.own = own /\ m.done = <<>> /\ ~m.err /\ m.rows = <<>>
      /\ m.pc = AfterLegs(q)
  BY <1>7, <1>8 DEF Member
<1> HIDE DEF m
<1>10. Range(m.done) = {} /\ Inj(m.done)
  BY <1>9 DEF Range, Inj
<1>11. \A i \in DOMAIN r : i \in Nat \ {0}
  BY <1>1
<1>12. MemberOK(m)
  BY <1>4, <1>6, <1>8, <1>9, <1>10, <1>11 DEF MemberOK, Collects, Active
<1>13. DOMAIN sess[s].legs = {}
  BY <1>2 DEF Rests
<1>14. \A e \in Shard, n \in Nat \ {0} : ~Waits(m, n, e) /\ ~Waits(sess[s], n, e)
  BY <1>6, <1>9, <1>13 DEF Waits
<1> QED  BY <1>1, <1>2, <1>3, <1>8, <1>9, <1>12, <1>14, SessionMovesAlone, Zenon

\* A session that gathers, one of whose pooled legs moves but does not end.
LEMMA LegGoesOn ==
    ASSUME NEW q \in Member, MemberOK(q), NEW i \in DOMAIN q.legs, NEW l \in LegType,
           q.legs[i].st \in {"new", "wait", "run"}, l.st \in {"wait", "run"},
           NEW m, m = [q EXCEPT !.legs = [q.legs EXCEPT ![i] = l]]
    PROVE  /\ m \in Member /\ MemberOK(m) /\ m.pc = "gather" /\ q.pc = "gather"
           /\ i \in Nat \ {0} /\ m.lease = q.lease /\ m.cur = q.cur /\ m.own = q.own
           /\ DOMAIN m.legs = DOMAIN q.legs /\ m.legs[i] = l
           /\ \A j \in DOMAIN q.legs \ {i} : m.legs[j] = q.legs[j]
<1> DEFINE legs == [q.legs EXCEPT ![i] = l]
<1>1. /\ legs \in Seq(LegType) /\ DOMAIN legs = DOMAIN q.legs /\ i \in Nat \ {0}
      /\ legs[i] = l /\ \A j \in DOMAIN q.legs \ {i} : legs[j] = q.legs[j]
  BY LegMoves DEF Member
<1> HIDE DEF legs
<1>2. /\ m \in Member /\ m.legs = legs /\ m.pc = q.pc /\ m.own = q.own /\ m.done = q.done
      /\ m.err = q.err /\ m.rows = q.rows /\ m.lease = q.lease /\ m.cur = q.cur
  BY <1>1, Zenon DEF Member, legs
<1>3. q.pc = "gather" /\ Collects(q) /\ q.rows = <<>>
  BY DEF MemberOK, Active
<1>4. i # q.own
  BY <1>1, <1>3 DEF Collects
<1>5. Collects(m)
  BY <1>1, <1>2, <1>3, <1>4 DEF Collects
<1>6. MemberOK(m)
  BY <1>1, <1>2, <1>3, <1>4, <1>5 DEF MemberOK, Active
<1> QED  BY <1>1, <1>2, <1>3, <1>6

\* A leg asks for a permit.
LEMMA LegAsksIInv ==
    ASSUME IInv, NEW s \in Session, NEW i \in Index, LegAsks(s, i)
    PROVE  IInv'
<1> DEFINE q == sess[s]
           e == q.legs[i].ep
           l == [q.legs[i] EXCEPT !.st = "wait"]
           m == [q EXCEPT !.legs = [q.legs EXCEPT ![i] = l]]
<1>1. /\ sess \in [Session -> Member] /\ q \in Member /\ MemberOK(q) /\ WaitOK(q, s, Queued)
      /\ idle \in [Shard -> Seq(ConnType)] /\ env \in Setup
  BY DEF IInv, TypeOK, MembersOK, WaitersOK
<1>2. i \in DOMAIN q.legs /\ q.legs[i].st = "new" /\ q.legs[i] \in LegType /\ e \in Shard
  <2>1. i \in DOMAIN q.legs /\ q.legs[i].st = "new" /\ q.legs \in Seq(LegType)
    BY <1>1 DEF LegAsks, Unasked, Member
  <2>2. q.legs[i] \in LegType
    BY <2>1
  <2> QED  BY <2>1, <2>2 DEF LegType
<1>3. l \in LegType /\ l.st = "wait" /\ l.ep = e
  BY <1>2 DEF LegType
<1>4. /\ sess' = [sess EXCEPT ![s] = m] /\ idle' = idle /\ env' = env
      /\ queue' = [queue EXCEPT ![e] = Append(@, <<s, i>>)]
  BY <1>1, <1>2 DEF LegAsks, Member
<1> HIDE DEF l, q, e
<1>5. /\ m \in Member /\ MemberOK(m) /\ m.pc = "gather" /\ q.pc = "gather"
      /\ i \in Nat \ {0} /\ DOMAIN m.legs = DOMAIN q.legs /\ m.legs[i] = l
      /\ \A j \in DOMAIN q.legs \ {i} : m.legs[j] = q.legs[j]
  BY <1>1, <1>2, <1>3, LegGoesOn
<1> HIDE DEF m
<1>6. ~Waits(q, i, e)
  BY <1>2 DEF Waits
<1>7. <<s, i>> \notin Queued[e]
  BY <1>1, <1>2, <1>5, <1>6 DEF WaitOK
<1>8. /\ queue' \in [Shard -> Seq(Session \X Nat)] /\ QueuesOK'
      /\ \A f \in Shard, d \in Session, n \in Nat :
            <<d, n>> \in Queued'[f] <=> <<d, n>> \in Queued[f] \/ (f = e /\ d = s /\ n = i)
  BY <1>2, <1>4, <1>5, <1>7, QueueJoins, Zenon
<1>9. \A f \in Shard, n \in Nat \ {0} : Waits(m, n, f) <=> Waits(q, n, f) \/ (f = e /\ n = i)
  BY <1>2, <1>3, <1>5 DEF Waits
<1>10. WaitOK(m, s, Queued')
  <2>1. \A f \in Shard : <<s, 0>> \in Queued'[f] <=> <<s, 0>> \in Queued[f]
    BY <1>5, <1>8
  <2>2. \A f \in Shard, n \in Nat \ {0} : <<s, n>> \in Queued'[f] <=> Waits(m, n, f)
    BY <1>1, <1>5, <1>8, <1>9 DEF WaitOK
  <2> QED  BY <1>1, <1>5, <1>8, <2>1, <2>2, Zenon DEF WaitOK
<1> QED  BY <1>1, <1>4, <1>5, <1>8, <1>10, SessionMoves, Zenon

\* A leg gets its connection.
LEMMA LegStartsIInv ==
    ASSUME IInv, NEW s \in Session, NEW i \in Index, LegStarts(s, i)
    PROVE  IInv'
<1> DEFINE q == sess[s]
           e == q.legs[i].ep
           c == Taken(s, e)
           l == [q.legs[i] EXCEPT !.st = "run", !.conn = c]
           m == [q EXCEPT !.legs = [q.legs EXCEPT ![i] = l]]
<1>1. /\ sess \in [Session -> Member] /\ q \in Member /\ MemberOK(q) /\ WaitOK(q, s, Queued)
      /\ env \in Setup /\ TypeOK
  BY DEF IInv, TypeOK, MembersOK, WaitersOK
<1>2. i \in DOMAIN q.legs /\ q.legs[i] \in LegType /\ e \in Shard /\ i \in Nat \ {0}
  <2>1. i \in DOMAIN q.legs /\ q.legs \in Seq(LegType)
    BY <1>1 DEF LegStarts, Member
  <2>2. q.legs[i] \in LegType /\ i \in Nat \ {0}
    BY <2>1
  <2> QED  BY <2>1, <2>2 DEF LegType
<1>3. /\ sess' = [sess EXCEPT ![s] = m] /\ env' = env /\ Granted(s, i, e) /\ Dequeue(e)
  BY <1>1, <1>2 DEF LegStarts, Member
<1>4. c \in ConnType /\ idle' \in [Shard -> Seq(ConnType)]
  BY <1>1, <1>2, <1>3, TakenTyped
<1> HIDE DEF c, q, e
<1>5. l \in LegType /\ l.st = "run" /\ l.ep = e
  BY <1>2, <1>4, Zenon DEF LegType, e
<1> HIDE DEF l
<1>6. /\ queue' \in [Shard -> Seq(Session \X Nat)] /\ QueuesOK' /\ <<s, i>> \in Queued[e]
      /\ \A f \in Shard, d \in Session, n \in Nat :
            <<d, n>> \in Queued'[f] <=> <<d, n>> \in Queued[f] /\ ~(f = e /\ d = s /\ n = i)
  BY <1>2, <1>3, QueueLeaves, Zenon DEF Granted, Dequeue
<1>7. q.legs[i].st = "wait"
  BY <1>1, <1>2, <1>6 DEF WaitOK, Waits
<1>8. /\ m \in Member /\ MemberOK(m) /\ m.pc = "gather" /\ q.pc = "gather"
      /\ DOMAIN m.legs = DOMAIN q.legs /\ m.legs[i] = l
      /\ \A j \in DOMAIN q.legs \ {i} : m.legs[j] = q.legs[j]
  BY <1>1, <1>2, <1>5, <1>7, LegGoesOn
<1> HIDE DEF m
<1>9. \A f \in Shard, n \in Nat \ {0} : Waits(m, n, f) <=> Waits(q, n, f) /\ ~(f = e /\ n = i)
  BY <1>2, <1>5, <1>8 DEF Waits, e
<1>10. WaitOK(m, s, Queued')
  <2>1. \A f \in Shard : <<s, 0>> \in Queued'[f] <=> <<s, 0>> \in Queued[f]
    BY <1>2, <1>6
  <2>2. \A f \in Shard, n \in Nat \ {0} : <<s, n>> \in Queued'[f] <=> Waits(m, n, f)
    BY <1>1, <1>6, <1>8, <1>9 DEF WaitOK
  <2> QED  BY <1>1, <1>5, <1>8, <2>1, <2>2 DEF WaitOK
<1> QED  BY <1>1, <1>3, <1>4, <1>6, <1>8, <1>10, SessionMoves, Zenon

\* A leg has its result: the session gathers on, or turns to its own leg, or merges.
LEMMA LegAnswersIInv ==
    ASSUME IInv, NEW s \in Session, NEW i \in Index, NEW dirty \in BOOLEAN, LegAnswers(s, i, dirty)
    PROVE  IInv'
<1> DEFINE q == sess[s]
           l == [q.legs[i] EXCEPT !.st = "done", !.dirty = dirty,
                                  !.conn.by = IF dirty THEN s ELSE @]
           legs == [q.legs EXCEPT ![i] = l]
           done == Append(q.done, i)
           p == [q EXCEPT !.legs = legs, !.done = done]
           m == [p EXCEPT !.pc = AfterLegs(p)]
<1>1. /\ sess \in [Session -> Member] /\ q \in Member /\ MemberOK(q)
      /\ idle \in [Shard -> Seq(ConnType)] /\ env \in Setup
      /\ q.legs \in Seq(LegType) /\ q.done \in Seq(Nat)
  BY DEF IInv, TypeOK, MembersOK, Member
<1>2. i \in DOMAIN q.legs /\ q.legs[i].st = "run" /\ q.legs[i] \in LegType /\ i \in Nat \ {0}
  <2>1. i \in DOMAIN q.legs /\ q.legs[i].st = "run"
    BY DEF LegAnswers, Running
  <2> QED  BY <1>1, <2>1
<1>3. l \in LegType /\ l.st = "done"
  BY <1>2, Zenon DEF LegType, ConnType
<1>4. /\ sess' = [sess EXCEPT ![s] = m] /\ idle' = idle /\ env' = env /\ queue' = queue
  BY <1>1 DEF LegAnswers, Member
<1> HIDE DEF l, q
<1>5. /\ legs \in Seq(LegType) /\ DOMAIN legs = DOMAIN q.legs
      /\ legs[i] = l /\ \A j \in DOMAIN q.legs \ {i} : legs[j] = q.legs[j]
  BY <1>1, <1>2, <1>3, LegMoves
<1>6. q.pc = "gather" /\ Collects(q) /\ q.rows = <<>> /\ Inj(q.done)
  BY <1>1, <1>2 DEF MemberOK, Active
<1>7. i # q.own /\ i \notin Range(q.done)
  BY <1>2, <1>6 DEF Collects
<1>8. done \in Seq(Nat) /\ Inj(done) /\ Range(done) = Range(q.done) \cup {i}
  <2>1. q.done \in Seq(Nat) /\ i \in Nat
    BY <1>1, <1>2
  <2> QED  BY <1>6, <1>7, <2>1, Joins
<1> HIDE DEF legs, done
<1>9. /\ p \in Member /\ p.legs = legs /\ p.own = q.own /\ p.done = done /\ p.err = q.err
      /\ p.rows = q.rows
  BY <1>1, <1>5, <1>8, Zenon DEF Member
<1> HIDE DEF p
<1>10. /\ AfterLegs(p) \in {"gather", "own", "merge"}
       /\ AfterLegs(p) = "own" => q.own # 0
       /\ AfterLegs(p) = "merge" => q.own = 0
       /\ AfterLegs(p) # "gather" => \A j \in DOMAIN legs : legs[j].st \notin {"new", "wait", "run"}
  BY <1>9 DEF AfterLegs
<1>11. /\ m \in Member /\ m.legs = legs /\ m.own = q.own /\ m.done = done /\ m.err = q.err
       /\ m.rows = q.rows /\ m.pc = AfterLegs(p)
  BY <1>9, <1>10, Zenon DEF Member
<1> HIDE DEF m
<1>12. /\ \A j \in DOMAIN legs : j # q.own => legs[j].st \in {"new", "wait", "run", "done"}
       /\ \A j \in DOMAIN legs : j # q.own => (legs[j].st = "done" <=> j \in Range(done))
       /\ q.own # 0 => legs[q.own].st = "own"
       /\ q.own = 0 \/ q.own \in DOMAIN legs
       /\ Range(done) \subseteq DOMAIN legs /\ q.own \notin Range(done)
  <2>1. q.own = 0 \/ q.own \in DOMAIN legs
    BY <1>1, <1>5 DEF MemberOK
  <2>2. Range(done) \subseteq DOMAIN legs
    BY <1>1, <1>2, <1>5, <1>8 DEF MemberOK
  <2>3. q.own # 0 => legs[q.own].st = "own"
    BY <1>5, <1>6, <1>7, <2>1 DEF Collects
  <2>4. \A j \in DOMAIN legs : j # q.own => legs[j].st \in {"new", "wait", "run", "done"}
    BY <1>3, <1>5, <1>6 DEF Collects
  <2>5. \A j \in DOMAIN legs : j # q.own => (legs[j].st = "done" <=> j \in Range(done))
    BY <1>3, <1>5, <1>6, <1>8 DEF Collects
  <2>6. q.own \notin Range(done)
    BY <1>6, <1>7, <1>8 DEF Collects
  <2> QED  BY <2>1, <2>2, <2>3, <2>4, <2>5, <2>6
<1>13. Collects(m)
  BY <1>6, <1>11, <1>12, <1>10 DEF Collects
<1>14. \A j \in DOMAIN legs : j \in Nat \ {0}
  BY <1>5
<1>15. MemberOK(m)
  BY <1>6, <1>8, <1>10, <1>11, <1>12, <1>13, <1>14 DEF MemberOK, Active
<1>16. \A e \in Shard, n \in Nat \ {0} : Waits(m, n, e) <=> Waits(q, n, e)
  BY <1>2, <1>3, <1>5, <1>11 DEF Waits
<1> QED  BY <1>1, <1>4, <1>6, <1>10, <1>11, <1>15, <1>16, SessionMovesAlone, Zenon DEF q

\* A leg fails: those that did not answer are dropped, and leave the queues.
LEMMA LegFailsIInv ==
    ASSUME IInv, NEW s \in Session, NEW i \in Index, LegFails(s, i)
    PROVE  IInv'
<1> DEFINE q == sess[s]
           legs == [j \in DOMAIN q.legs |-> IF q.legs[j].st \in {"wait", "run"}
                                            THEN Dropped(q.legs[j]) ELSE q.legs[j]]
           m == [q EXCEPT !.pc = "checkin", !.err = TRUE, !.legs = legs]
<1>1. /\ sess \in [Session -> Member] /\ q \in Member /\ MemberOK(q) /\ WaitOK(q, s, Queued)
      /\ idle \in [Shard -> Seq(ConnType)] /\ TypeOK /\ q.legs \in Seq(LegType)
      /\ queue \in [Shard -> Seq(Session \X Nat)]
  BY Zenon DEF IInv, TypeOK, MembersOK, WaitersOK, Member
<1>2. /\ sess' = [sess EXCEPT ![s] = m] /\ idle' = idle /\ env' \in Setup
      /\ queue' = [e \in Shard |-> Without(queue[e], s)]
  BY <1>1, FailTyped, Zenon DEF LegFails, Member
<1>3. i \in DOMAIN q.legs /\ q.legs[i].st = "run" /\ Unasked(s) = {}
  BY DEF LegFails, Running
<1>4. /\ q.pc = "gather" /\ q.rows = <<>> /\ Collects(q)
      /\ \A j \in DOMAIN q.legs : q.legs[j].st # "new"
  BY <1>1, <1>3 DEF MemberOK, Unasked, Active
<1> HIDE DEF q
<1>5. \A j \in DOMAIN q.legs : q.legs[j] \in LegType /\ Dropped(q.legs[j]) \in LegType
  <2>1. \A j \in DOMAIN q.legs : q.legs[j] \in LegType
    BY <1>1
  <2>2. NoConn \in ConnType
    BY DEF NoConn, ConnType
  <2> QED  BY <2>1, <2>2, Zenon DEF Dropped, LegType
<1>6. legs \in Seq(LegType)
  <2>1. DOMAIN q.legs = 1 .. Len(q.legs) /\ Len(q.legs) \in Nat
    BY <1>1, LenProperties
  <2> QED  BY <1>5, <2>1
<1>7. /\ DOMAIN legs = DOMAIN q.legs
      /\ \A j \in DOMAIN legs : legs[j].st \notin {"new", "wait", "run"}
  <2>1. \A j \in DOMAIN q.legs : Dropped(q.legs[j]).st = "dropped"
    BY <1>5, Zenon DEF Dropped, LegType
  <2> QED  BY <1>4, <2>1
<1> HIDE DEF legs
<1>8. /\ m \in Member /\ m.legs = legs /\ m.own = q.own /\ m.done = q.done /\ m.err
      /\ m.rows = q.rows /\ m.pc = "checkin"
  BY <1>1, <1>6, Zenon DEF Member
<1> HIDE DEF m
<1>9. MemberOK(m)
  BY <1>1, <1>4, <1>7, <1>8 DEF MemberOK, Active
<1>10. \A e \in Shard : /\ queue'[e] \in Seq(Session \X Nat) /\ Inj(queue'[e])
                        /\ Queued'[e] = {w \in Queued[e] : w[1] # s}
  <2> TAKE e \in Shard
  <2> DEFINE W == Session \X Nat
  <2>1. queue[e] \in Seq(W) /\ Inj(queue[e]) /\ queue'[e] = Without(queue[e], s)
    BY <1>1, <1>2 DEF IInv, QueuesOK
  <2>2. Queued[e] = Range(queue[e]) /\ Queued'[e] = Range(queue'[e])
    BY DEF Queued
  <2> HIDE DEF W
  <2>3. queue'[e] \in Seq(W) /\ Inj(queue'[e]) /\ Queued'[e] = {w \in Queued[e] : w[1] # s}
    BY <2>1, <2>2, Drops
  <2> QED  BY <2>3 DEF W
<1>11. queue' \in [Shard -> Seq(Session \X Nat)] /\ QueuesOK'
  BY <1>2, <1>10 DEF QueuesOK
<1>12. \A e \in Shard, d \in Session, n \in Nat :
          <<d, n>> \in Queued'[e] <=> <<d, n>> \in Queued[e] /\ d # s
  BY <1>10
<1>13. WaitOK(m, s, Queued')
  <2>1. 0 \in Nat /\ \A e \in Shard, n \in Nat : <<s, n>> \notin Queued'[e]
    BY <1>12
  <2>2. \A e \in Shard, n \in Nat \ {0} : ~Waits(m, n, e)
    BY <1>7, <1>8 DEF Waits
  <2> QED  BY <1>8, <2>1, <2>2 DEF WaitOK
<1> QED  BY <1>1, <1>2, <1>8, <1>9, <1>11, <1>12, <1>13, SessionMoves, Zenon

\* The session's own leg ends.
LEMMA OwnEndsIInv ==
    ASSUME IInv, NEW s \in Session, NEW err \in BOOLEAN, OwnEnds(s, err)
    PROVE  IInv'
<1> DEFINE q == sess[s]
           st == IF err THEN "dropped" ELSE "done"
           l == [q.legs[q.own] EXCEPT !.st = st]
           legs == [q.legs EXCEPT ![q.own] = l]
           m == [q EXCEPT !.pc = IF err THEN "checkin" ELSE "merge", !.err = err, !.legs = legs]
<1>1. /\ sess \in [Session -> Member] /\ q \in Member /\ MemberOK(q)
      /\ idle \in [Shard -> Seq(ConnType)] /\ env \in Setup /\ TypeOK
      /\ q.legs \in Seq(LegType)
  BY DEF IInv, TypeOK, MembersOK, Member
<1>2. env' \in Setup /\ queue' = queue /\ idle' = idle /\ q.pc = "own"
  BY <1>1, FailTyped DEF OwnEnds
<1>3. sess' = [sess EXCEPT ![s] = m]
  BY <1>1, Zenon DEF OwnEnds, Member
<1> HIDE DEF q
<1>4. /\ q.own \in DOMAIN q.legs /\ Collects(q) /\ q.rows = <<>>
      /\ \A j \in DOMAIN q.legs : j # q.own => q.legs[j].st = "done"
  <2>1. q.own \in DOMAIN q.legs /\ Collects(q) /\ q.rows = <<>>
    BY <1>1, <1>2 DEF MemberOK, Active
  <2>2. \A j \in DOMAIN q.legs : q.legs[j].st \notin {"new", "wait", "run"}
    BY <1>1, <1>2 DEF MemberOK
  <2> QED  BY <2>1, <2>2 DEF Collects
<1>5. l \in LegType /\ l.st = st
  <2>1. q.legs[q.own] \in LegType
    BY <1>1, <1>4
  <2> QED  BY <2>1 DEF LegType
<1> HIDE DEF l
<1>6. /\ legs \in Seq(LegType) /\ DOMAIN legs = DOMAIN q.legs /\ q.own \in Nat \ {0}
      /\ legs[q.own] = l /\ \A j \in DOMAIN q.legs \ {q.own} : legs[j] = q.legs[j]
  BY <1>1, <1>4, <1>5, LegMoves
<1> HIDE DEF legs
<1>7. /\ m \in Member /\ m.legs = legs /\ m.own = q.own /\ m.done = q.done /\ m.err = err
      /\ m.rows = q.rows /\ m.pc = IF err THEN "checkin" ELSE "merge"
  BY <1>1, <1>6, Zenon DEF Member
<1> HIDE DEF m
<1>8. ~err => /\ \A j \in DOMAIN legs : legs[j].st = "done"
              /\ Collects(m)
  <2>1. ~err => \A j \in DOMAIN legs : legs[j].st = "done"
    BY <1>4, <1>5, <1>6
  <2> QED  BY <1>4, <1>6, <1>7, <2>1 DEF Collects
<1>9. \A j \in DOMAIN legs : legs[j].st \notin {"new", "wait", "run"}
  BY <1>4, <1>5, <1>6
<1>10. MemberOK(m)
  BY <1>1, <1>4, <1>6, <1>7, <1>8, <1>9 DEF MemberOK, Active
<1>11. \A e \in Shard, n \in Nat \ {0} : ~Waits(m, n, e) /\ ~Waits(q, n, e)
  BY <1>1, <1>2, <1>7, <1>9 DEF Waits, MemberOK
<1> QED  BY <1>1, <1>2, <1>3, <1>7, <1>10, <1>11, SessionMovesAlone, Zenon DEF q

\* A sequence that names each of the first n numbers once has n elements.
LEMMA InjectiveLength ==
    ASSUME NEW q \in Seq(Nat), NEW n \in Nat, Inj(q), Range(q) = 1 .. n
    PROVE  Len(q) = n
<1>1. Len(q) \in Nat /\ DOMAIN q = 1 .. Len(q)
  BY LenProperties
<1>2. /\ IsFiniteSet(1 .. n) /\ Cardinality(1 .. n) = n /\ Cardinality(1 .. Len(q)) = Len(q)
  <2>1. \A k \in Nat : IsFiniteSet(1 .. k) /\ Cardinality(1 .. k) = k
    <3> TAKE k \in Nat
    <3>1. 1 \in Int /\ k \in Int /\ (IF 1 > k THEN 0 ELSE k - 1 + 1) = k
      OBVIOUS
    <3> QED  BY <3>1, FS_Interval
  <2> QED  BY <1>1, <2>1
<1>3. q \in [1 .. Len(q) -> 1 .. n]
  BY <1>1 DEF Range
<1>4. q \in Injection(1 .. Len(q), 1 .. n)
  BY <1>1, <1>3 DEF Injection, IsInjective, Inj
<1>5. q \in Surjection(1 .. Len(q), 1 .. n)
  BY <1>1, <1>3, Zenon DEF Surjection, Range
<1> QED  BY <1>2, <1>4, <1>5, FS_Injection

\* A number goes before those of a sequence it is not in.
LEMMA Precedes ==
    ASSUME NEW x \in Nat, NEW done \in Seq(Nat), Inj(done), x \notin Range(done),
           NEW rows \in Seq(Nat), Len(rows) = Len(done) + 1, rows[1] = x,
           \A i \in 2 .. (Len(done) + 1) : rows[i] = done[i - 1]
    PROVE  Inj(rows) /\ Range(rows) = Range(done) \cup {x}
<1> DEFINE n == Len(done)
<1>0. n \in Nat /\ DOMAIN done = 1 .. n /\ DOMAIN rows = 1 .. (n + 1)
  BY LenProperties
<1>2. \A i \in 2 .. (n + 1) : i - 1 \in 1 .. n /\ rows[i] = done[i - 1]
  BY <1>0
<1> HIDE DEF n
<1>1. \A i \in 1 .. n : done[i] # x /\ i + 1 \in 2 .. (n + 1) /\ rows[i + 1] = done[i]
  <2>1. \A i \in 1 .. n : done[i] # x
    BY <1>0, Zenon DEF Range
  <2>2. \A i \in 1 .. n : i + 1 \in 2 .. (n + 1) /\ (i + 1) - 1 = i
    BY <1>0
  <2>3. \A i \in 1 .. n : rows[i + 1] = done[(i + 1) - 1]
    BY <1>2, <2>2
  <2> QED  BY <2>1, <2>2, <2>3
<1>3. Inj(rows)
  <2> SUFFICES ASSUME NEW i \in 1 .. (n + 1), NEW j \in 1 .. (n + 1), rows[i] = rows[j]  PROVE i = j
    BY <1>0 DEF Inj
  <2>1. CASE i = 1 \/ j = 1
    BY <1>0, <1>1, <1>2, <2>1
  <2>2. CASE i # 1 /\ j # 1
    <3>1. i \in 2 .. (n + 1) /\ j \in 2 .. (n + 1)
      BY <1>0, <2>2
    <3>2. i - 1 \in DOMAIN done /\ j - 1 \in DOMAIN done /\ done[i - 1] = done[j - 1]
      BY <1>0, <1>2, <3>1, Zenon
    <3>3. i - 1 = j - 1
      BY <3>2, Zenon DEF Inj
    <3> QED  BY <3>1, <3>3
  <2> QED  BY <2>1, <2>2
<1>4. ASSUME NEW y \in Range(rows)  PROVE y \in Range(done) \cup {x}
  <2>1. PICK i \in 1 .. (n + 1) : rows[i] = y
    BY <1>0 DEF Range
  <2>2. CASE i = 1
    BY <2>1, <2>2
  <2>3. CASE i # 1
    <3>1. i \in 2 .. (n + 1)
      BY <1>0, <2>3
    <3>2. i - 1 \in DOMAIN done /\ done[i - 1] = y
      BY <1>0, <1>2, <2>1, <3>1, Zenon
    <3> QED  BY <3>2 DEF Range
  <2> QED  BY <2>2, <2>3
<1>5. ASSUME NEW y \in Range(done)  PROVE y \in Range(rows)
  <2>1. PICK i \in 1 .. n : done[i] = y
    BY <1>0 DEF Range
  <2>2. i + 1 \in DOMAIN rows /\ rows[i + 1] = y
    BY <1>0, <1>1, <2>1
  <2> QED  BY <2>2, Zenon DEF Range
<1>6. x \in Range(rows)
  BY <1>0 DEF Range
<1> QED  BY <1>3, <1>4, <1>5, <1>6, Zenon

\* The session's leg goes before the pooled ones.
LEMMA RowsOnce ==
    ASSUME NEW own \in Nat, NEW done \in Seq(Nat), Inj(done), own \notin Range(done)
    PROVE  LET rows == (IF own = 0 THEN <<>> ELSE <<own>>) \o done
           IN  /\ rows \in Seq(Nat) /\ Inj(rows)
               /\ Range(rows) = Range(done) \cup (IF own = 0 THEN {} ELSE {own})
<1> DEFINE rows == (IF own = 0 THEN <<>> ELSE <<own>>) \o done
<1>1. Len(done) \in Nat /\ DOMAIN done = 1 .. Len(done)
  BY LenProperties
<1>2. CASE own = 0
  <2>1. rows = done
    BY <1>2, ConcatEmptySeq
  <2> QED  BY <1>2, <2>1
<1>3. CASE own # 0
  <2>1. <<own>> \in Seq(Nat) /\ Len(<<own>>) = 1 /\ rows = <<own>> \o done
    BY <1>3
  <2>2. /\ rows \in Seq(Nat) /\ Len(rows) = 1 + Len(done)
        /\ \A i \in 1 .. 1 + Len(done) : rows[i] = IF i <= 1 THEN <<own>>[i] ELSE done[i - 1]
    <3> DEFINE first == <<own>>
    <3> HIDE DEF rows, first
    <3>1. first \in Seq(Nat) /\ Len(first) = 1 /\ rows = first \o done
      BY <2>1 DEF first
    <3>2. /\ first \o done \in Seq(Nat) /\ Len(first \o done) = Len(first) + Len(done)
          /\ \A i \in 1 .. Len(first) + Len(done) :
                (first \o done)[i] = IF i <= Len(first) THEN first[i] ELSE done[i - Len(first)]
      BY <3>1, ConcatProperties, Zenon
    <3> QED  BY <1>1, <3>1, <3>2 DEF first
  <2> HIDE DEF rows
  <2>3. Len(rows) = Len(done) + 1 /\ rows[1] = own
    BY <1>1, <2>2
  <2>4. \A i \in 2 .. (Len(done) + 1) : rows[i] = done[i - 1]
    BY <1>1, <2>2
  <2>5. Inj(rows) /\ Range(rows) = Range(done) \cup {own}
    BY <1>1, <2>2, <2>3, <2>4, Precedes
  <2>6. /\ rows \in Seq(Nat) /\ Inj(rows)
        /\ Range(rows) = Range(done) \cup (IF own = 0 THEN {} ELSE {own})
    BY <1>3, <2>2, <2>5
  <2> QED  BY <2>6 DEF rows
<1> QED  BY <1>2, <1>3

\* The rows are merged.
LEMMA MergeIInv == ASSUME IInv, NEW s \in Session, Merge(s)  PROVE IInv'
<1> DEFINE q == sess[s]
           rows == (IF q.own = 0 THEN <<>> ELSE <<q.own>>) \o q.done
           m == [q EXCEPT !.pc = "checkin", !.rows = rows]
<1>1. /\ sess \in [Session -> Member] /\ q \in Member /\ MemberOK(q)
      /\ idle \in [Shard -> Seq(ConnType)] /\ env \in Setup
      /\ q.legs \in Seq(LegType) /\ q.done \in Seq(Nat) /\ q.own \in Nat
  BY DEF IInv, TypeOK, MembersOK, Member
<1>2. env' = env /\ queue' = queue /\ idle' = idle /\ q.pc = "merge"
  BY DEF Merge
<1>3. sess' = [sess EXCEPT ![s] = m]
  BY <1>1, Zenon DEF Merge, Member
<1> HIDE DEF q
<1>4. /\ Collects(q) /\ \A j \in DOMAIN q.legs : q.legs[j].st = "done"
      /\ q.own = 0 \/ q.own \in DOMAIN q.legs
      /\ Inj(q.done) /\ Range(q.done) \subseteq DOMAIN q.legs /\ q.own \notin Range(q.done)
  BY <1>1, <1>2 DEF MemberOK, Active, Collects
<1>5. DOMAIN q.legs = 1 .. Len(q.legs) /\ Len(q.legs) \in Nat
  BY <1>1, LenProperties
<1>6. /\ rows \in Seq(Nat) /\ Inj(rows)
      /\ Range(rows) = Range(q.done) \cup (IF q.own = 0 THEN {} ELSE {q.own})
  BY <1>1, <1>4, RowsOnce
<1>7. Range(rows) = DOMAIN q.legs
  BY <1>4, <1>5, <1>6, Zenon DEF Collects
<1>8. Len(rows) = Len(q.legs)
  BY <1>5, <1>6, <1>7, InjectiveLength, Zenon
<1> HIDE DEF rows
<1>9. /\ m \in Member /\ m.legs = q.legs /\ m.own = q.own /\ m.done = q.done /\ m.err = q.err
      /\ m.rows = rows /\ m.pc = "checkin"
  BY <1>1, <1>6, Zenon DEF Member
<1> HIDE DEF m
<1>10. Whole(m)
  BY <1>4, <1>7, <1>8, <1>9 DEF Whole, Collects
<1>11. MemberOK(m)
  BY <1>1, <1>2, <1>4, <1>9, <1>10 DEF MemberOK, Active
<1>12. \A e \in Shard, n \in Nat \ {0} : Waits(m, n, e) <=> Waits(q, n, e)
  BY <1>9 DEF Waits
<1> QED  BY <1>1, <1>2, <1>3, <1>9, <1>11, <1>12, SessionMovesAlone, Zenon DEF q

\* The next outcome's connection is given back or closed.
LEMMA CheckinIInv == ASSUME IInv, NEW s \in Session, Checkin(s)  PROVE IInv'
<1> DEFINE q == sess[s]
           i == Head(q.done)
           done == Tail(q.done)
           l == [q.legs[i] EXCEPT !.conn = NoConn]
           legs == [q.legs EXCEPT ![i] = l]
           m == [q EXCEPT !.done = done, !.legs = legs]
<1>1. /\ sess \in [Session -> Member] /\ q \in Member /\ MemberOK(q)
      /\ idle \in [Shard -> Seq(ConnType)] /\ env \in Setup /\ TypeOK
      /\ q.legs \in Seq(LegType) /\ q.done \in Seq(Nat)
  BY Zenon DEF IInv, TypeOK, MembersOK, Member
<1>2. q.pc = "checkin" /\ q.done # <<>> /\ queue' = queue
  BY Zenon DEF Checkin
<1>3. sess' = [sess EXCEPT ![s] = m]
  BY <1>1, Zenon DEF Checkin, Member
<1>4. /\ \/ Park(q.legs[i].conn) /\ env' = env
         \/ Park(Fresh(q.legs[i].ep)) /\ env' = env
         \/ Fail /\ idle' = idle
  BY Zenon DEF Checkin
<1> HIDE DEF q
<1>5. /\ done \in Seq(Nat) /\ Inj(done) /\ i \in Range(q.done)
      /\ Range(done) = Range(q.done) \ {i}
  BY <1>1, <1>2, Leaves DEF MemberOK
<1> HIDE DEF done, i
<1>6. i \in DOMAIN q.legs /\ q.legs[i] \in LegType
  <2>1. i \in DOMAIN q.legs
    BY <1>1, <1>5 DEF MemberOK
  <2> QED  BY <1>1, <2>1
<1>7. /\ l \in LegType /\ l.st = q.legs[i].st /\ q.legs[i].conn \in ConnType
      /\ Fresh(q.legs[i].ep) \in ConnType
  BY <1>6 DEF LegType, ConnType, NoConn, Fresh
<1> HIDE DEF l
<1>8. /\ legs \in Seq(LegType) /\ DOMAIN legs = DOMAIN q.legs /\ Len(legs) = Len(q.legs)
      /\ legs[i] = l /\ \A j \in DOMAIN q.legs \ {i} : legs[j] = q.legs[j]
  BY <1>1, <1>6, <1>7, LegMoves
<1>9. \A j \in DOMAIN q.legs : legs[j].st = q.legs[j].st
  BY <1>7, <1>8
<1> HIDE DEF legs
<1>10. /\ m \in Member /\ m.legs = legs /\ m.own = q.own /\ m.done = done /\ m.err = q.err
       /\ m.rows = q.rows /\ m.pc = "checkin"
  BY <1>1, <1>2, <1>5, <1>8, Zenon DEF Member
<1> HIDE DEF m
<1>11. m.rows # <<>> => Whole(m)
  BY <1>1, <1>8, <1>9, <1>10 DEF Whole, MemberOK
<1>12. MemberOK(m)
  BY <1>1, <1>2, <1>5, <1>8, <1>9, <1>10, <1>11, Zenon DEF MemberOK, Active
<1>13. \A e \in Shard, n \in Nat \ {0} : ~Waits(m, n, e) /\ ~Waits(q, n, e)
  BY <1>1, <1>2, <1>8, <1>9, <1>10 DEF Waits, MemberOK
<1>14. idle' \in [Shard -> Seq(ConnType)] /\ env' \in Setup
  <2>1. CASE Fail /\ idle' = idle
    BY <1>1, <2>1, FailTyped
  <2>2. CASE Park(q.legs[i].conn) /\ env' = env
    BY <1>1, <1>7, <2>2, ParkTyped
  <2>3. CASE Park(Fresh(q.legs[i].ep)) /\ env' = env
    BY <1>1, <1>7, <2>3, ParkTyped
  <2> QED  BY <1>4, <2>1, <2>2, <2>3
<1> QED  BY <1>1, <1>2, <1>3, <1>10, <1>12, <1>13, <1>14, SessionMovesAlone, Zenon DEF q

-----------------------------------------------------------------------------
(***************************************************************************)
(* The theorems.                                                           *)
(***************************************************************************)

\* Every step keeps the invariant.
LEMMA NextIInv == IInv /\ [Next]_vars => IInv'
<1> SUFFICES ASSUME IInv, [Next]_vars PROVE IInv'
  OBVIOUS
<1>1. CASE UNCHANGED vars
  <2>1. Queued' = Queued /\ sess' = sess /\ queue' = queue /\ idle' = idle /\ env' = env
    BY <1>1 DEF vars, Queued
  <2>2. TypeOK' /\ MembersOK' /\ QueuesOK'
    BY <2>1 DEF IInv, TypeOK, MembersOK, QueuesOK
  <2>3. WaitersOK'
    BY <2>1 DEF IInv, WaitersOK
  <2> QED  BY <2>2, <2>3 DEF IInv
<1>2. CASE Next
  <2>1. PICK s \in Session :
        \/ Arrive(s) \/ Attach(s) \/ Attached(s) \/ Detach(s) \/ Lose(s) \/ Leave(s)
        \/ Refuse(s)
        \/ \E r \in Requests : Scatter(s, r)
        \/ \E i \in Index : LegAsks(s, i) \/ LegStarts(s, i) \/ LegFails(s, i)
        \/ \E i \in Index, dirty \in BOOLEAN : LegAnswers(s, i, dirty)
        \/ \E err \in BOOLEAN : OwnEnds(s, err)
        \/ OwnBreaks(s) \/ Merge(s) \/ SumFails(s) \/ ClientGone(s)
        \/ Checkin(s) \/ Reply(s)
    BY <1>2 DEF Next
  <2> QED  BY <2>1, ArriveIInv, AttachedIInv, IdleIInv, OutIInv, ScatterIInv, LegAsksIInv,
              LegStartsIInv, LegFailsIInv, LegAnswersIInv, OwnEndsIInv, MergeIInv, CheckinIInv
<1> QED  BY <1>1, <1>2

\* The invariant holds at first.
LEMMA InitIInv == Init => IInv
<1> SUFFICES ASSUME Init PROVE IInv
  OBVIOUS
<1>1. \A s \in Session : sess[s] = NewSession
  BY DEF Init
<1>2. /\ NewSession \in Member /\ Rests(NewSession) /\ NewSession.rows = <<>>
      /\ NewSession.pc = "gone"
  <2>1. <<>> \in Seq(LegType) /\ <<>> \in Seq(Nat) /\ NoConn \in ConnType
    BY EmptySeq DEF NoConn, ConnType
  <2> QED  BY <2>1, Zenon DEF NewSession, Member, Rests
<1>3. /\ DOMAIN NewSession.legs = {} /\ Range(NewSession.done) = {} /\ Inj(NewSession.done)
  BY <1>2 DEF Rests, Range, Inj
<1>4. MemberOK(NewSession)
  BY <1>2, <1>3 DEF MemberOK, Rests, Active
<1>5. TypeOK
  <2>1. <<>> \in Seq(Session \X Nat) /\ <<>> \in Seq(ConnType)
    BY EmptySeq
  <2> QED  BY <1>2, <2>1, ScatterAssumption DEF Init, TypeOK
<1>6. QueuesOK /\ \A e \in Shard : Queued[e] = {}
  BY DEF Init, QueuesOK, Queued, Inj, Range
<1>7. \A s \in Session : WaitOK(NewSession, s, Queued)
  <2>1. \A e \in Shard, n \in Nat : ~Waits(NewSession, n, e)
    BY <1>3 DEF Waits
  <2> QED  BY <1>2, <1>6, <2>1 DEF WaitOK
<1> QED  BY <1>1, <1>4, <1>5, <1>6, <1>7 DEF IInv, MembersOK, WaitersOK

\* The account of the legs and of the queues is kept by every step of every session.
THEOREM ScatterInductive == Spec => []IInv
<1> QED  BY InitIInv, NextIInv, PTL DEF Spec

\* Every session, leg, waiter and idle connection has its type.
THEOREM ScatterTypes == Spec => []TypeOK
<1>1. IInv => TypeOK
  BY DEF IInv
<1> QED  BY <1>1, ScatterInductive, PTL

\* The client gets the rows of all legs, each once, or none.
THEOREM AllRowsOrNone == Spec => []WholeOrNothing
<1>1. IInv => WholeOrNothing
  BY DEF IInv, MembersOK, MemberOK, Whole, WholeOrNothing
<1> QED  BY <1>1, ScatterInductive, PTL
=============================================================================
