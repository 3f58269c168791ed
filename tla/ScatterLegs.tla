----------------------------- MODULE ScatterLegs ----------------------------
(***************************************************************************)
(* More about Scatter, from the invariant of ScatterProofs: who waits in   *)
(* the pools' queues, where the leg on the session's own lease runs, and   *)
(* what becomes of the legs that answered.                                 *)
(***************************************************************************)
EXTENDS ScatterProofs

\* A leaf that names no prover is tried by SMT, by Zenon, and by SMT again.
USE SMTT(60), ZenonT(30), SMTT(60)

(***************************************************************************)
(* The leg on the session's lease.  The lease is connected to the endpoint *)
(* the session takes for its current one, as long as it takes any: the     *)
(* pool it waits at is that endpoint's, and a pool's idle connections are  *)
(* its own.  In session mode a session takes the first endpoint of its     *)
(* route for the one it starts on, so that nothing is known of a lease     *)
(* whose current endpoint is First.                                        *)
(***************************************************************************)

\* A session with current endpoint cur may be linked to e.
At(mode, cur, e) == cur = e \/ (mode /\ cur = First)

LinkOK(mode, q) ==
    /\ q.lease # NoConn /\ q.cur # None => At(mode, q.cur, q.lease.at)
    /\ q.own # 0 /\ q.pc \in {"gather", "own"} =>
          q.lease # NoConn /\ q.cur # None /\ q.legs[q.own].ep = q.cur

IdleAtHome == \A e \in Shard : \A k \in DOMAIN idle[e] : idle[e][k].at = e

ShardInv ==
    /\ \A s \in Session : LinkOK(env.sessionMode, sess[s])
    /\ \A s \in Session, e \in Shard : <<s, 0>> \in Queued[e] => At(env.sessionMode, sess[s].cur, e)
    /\ IdleAtHome

\* One session moves; no other begins to wait.
LEMMA LinkMoves ==
    ASSUME IInv, ShardInv, NEW s \in Session, NEW q, LinkOK(env.sessionMode, q), sess' = [sess EXCEPT ![s] = q],
           \A e \in Shard : <<s, 0>> \in Queued'[e] => At(env.sessionMode, q.cur, e),
           \A d \in Session \ {s}, e \in Shard : <<d, 0>> \in Queued'[e] => <<d, 0>> \in Queued[e],
           IdleAtHome', env'.sessionMode = env.sessionMode
    PROVE  ShardInv'
<1>1. sess'[s] = q /\ \A d \in Session \ {s} : sess'[d] = sess[d]
  BY DEF IInv, TypeOK
<1>2. ASSUME NEW d \in Session PROVE LinkOK(env.sessionMode, sess'[d])
  BY <1>1 DEF ShardInv
<1>3. ASSUME NEW d \in Session, NEW e \in Shard, <<d, 0>> \in Queued'[e]
      PROVE  At(env.sessionMode, sess'[d].cur, e)
  BY <1>1, <1>3 DEF ShardInv
<1> QED  BY <1>2, <1>3 DEF ShardInv

\* ... and the queues stay.
LEMMA LinkMovesAlone ==
    ASSUME IInv, ShardInv, NEW s \in Session, NEW q, LinkOK(env.sessionMode, q), sess' = [sess EXCEPT ![s] = q],
           queue' = queue, q.cur = sess[s].cur \/ sess[s].pc # "attaching",
           IdleAtHome', env'.sessionMode = env.sessionMode
    PROVE  ShardInv'
<1>1. Queued' = Queued
  BY DEF Queued
<1>2. WaitOK(sess[s], s, Queued)
  BY DEF IInv, WaitersOK
<1>3. \A e \in Shard : <<s, 0>> \in Queued'[e] => At(env.sessionMode, q.cur, e)
  BY <1>1, <1>2 DEF ShardInv, WaitOK
<1> QED  BY <1>1, <1>3, LinkMoves, Zenon

\* A parked connection goes to its own pool.
LEMMA ParkAtHome == ASSUME TypeOK, IdleAtHome, NEW c \in ConnType, Park(c)  PROVE IdleAtHome'
<1>1. idle \in [Shard -> Seq(ConnType)]
  BY DEF TypeOK
<1>2. ASSUME NEW e \in Shard PROVE \A k \in DOMAIN idle'[e] : idle'[e][k].at = e
  <2>1. idle[e] \in Seq(ConnType) /\ \A k \in DOMAIN idle[e] : idle[e][k].at = e
    BY <1>1 DEF IdleAtHome
  <2>2. CASE e # c.at
    BY <1>1, <2>1, <2>2 DEF Park
  <2>3. CASE e = c.at
    <3>1. idle'[e] = Append(idle[e], c)
      BY <1>1, <2>3 DEF Park
    <3>2. /\ Len(idle[e]) \in Nat /\ DOMAIN idle[e] = 1 .. Len(idle[e])
          /\ DOMAIN Append(idle[e], c) = 1 .. (Len(idle[e]) + 1)
          /\ \A k \in 1 .. Len(idle[e]) : Append(idle[e], c)[k] = idle[e][k]
          /\ Append(idle[e], c)[Len(idle[e]) + 1] = c
      BY <2>1, AppendProperties, LenProperties
    <3>3. \A k \in 1 .. (Len(idle[e]) + 1) : Append(idle[e], c)[k].at = e
      BY <2>1, <2>3, <3>2
    <3> QED  BY <3>1, <3>2, <3>3
  <2> QED  BY <2>2, <2>3
<1> QED  BY <1>2 DEF IdleAtHome

\* A checkout hands out a connection of the pool it asks.
LEMMA TakenAtHome ==
    ASSUME TypeOK, IdleAtHome, NEW s \in Session, NEW e \in Shard, Dequeue(e)
    PROVE  IdleAtHome' /\ Taken(s, e).at = e
<1>1. idle \in [Shard -> Seq(ConnType)] /\ idle[e] \in Seq(ConnType)
      /\ \A k \in DOMAIN idle[e] : idle[e][k].at = e
  BY DEF TypeOK, IdleAtHome
<1>2. CASE idle[e] = <<>>
  <2>1. idle' = idle
    BY <1>1, <1>2 DEF Dequeue
  <2> QED  BY <1>2, <2>1 DEF Taken, Fresh, IdleAtHome
<1>3. CASE idle[e] # <<>>
  <2> DEFINE n == Len(idle[e])
             c == Last(idle[e])
             r == Front(idle[e])
  <2>1. n \in Nat \ {0} /\ DOMAIN idle[e] = 1 .. n
    BY <1>1, <1>3, EmptySeq, LenProperties
  <2>2. c \in ConnType /\ c.at = e
    BY <1>1, <2>1, ElementOfSeq DEF Last
  <2>3. r = SubSeq(idle[e], 1, n - 1)
    BY DEF Front
  <2>4. DOMAIN r = 1 .. (n - 1) /\ \A k \in 1 .. (n - 1) : r[k] = idle[e][k]
    <3>1. \A j \in 1 .. (n - 1) : idle[e][j] \in ConnType
      BY <1>1, <2>1, ElementOfSeq
    <3>2. n - 1 \in Int /\ 1 \in Int /\ n - 1 \in Nat
      BY <2>1
    <3>3. /\ r \in Seq(ConnType) /\ Len(r) = n - 1
          /\ \A i \in 1 .. n - 1 - 1 + 1 : r[i] = idle[e][1 + i - 1]
      BY <2>1, <2>3, <3>1, <3>2, SubSeqProperties
    <3> HIDE DEF n, r
    <3> QED  BY <3>2, <3>3, LenProperties
  <2>5. idle' = [idle EXCEPT ![e] = r]
    BY <1>1, <1>3 DEF Dequeue
  <2>6. Taken(s, e) = IF s \in Named THEN [c EXCEPT !.by = s] ELSE c
    BY <1>3 DEF Taken
  <2> HIDE DEF n, c, r
  <2>7. \A k \in DOMAIN r : r[k].at = e
    BY <1>1, <2>1, <2>4
  <2>8. IdleAtHome'
    BY <1>1, <2>5, <2>7 DEF IdleAtHome
  <2>9. Taken(s, e).at = e
    BY <2>2, <2>6 DEF ConnType
  <2> QED  BY <2>8, <2>9
<1> QED  BY <1>2, <1>3

\* The events counted down are no part of the setup's shape.
LEMMA FailKeepsSetup ==
    ASSUME TypeOK, Fail
    PROVE  env'.sessionMode = env.sessionMode
  BY DEF TypeOK, Setup, Fail

\* Steps of a session outside of a scatter.
LEMMA IdleLink ==
    ASSUME IInv, ShardInv, NEW s \in Session,
           Detach(s) \/ Lose(s) \/ Refuse(s) \/ Leave(s) \/ ClientGone(s)
    PROVE  ShardInv'
<1>1. /\ sess \in [Session -> Member] /\ sess[s] \in Member /\ TypeOK /\ LinkOK(env.sessionMode, sess[s])
      /\ IdleAtHome /\ sess[s].lease \in ConnType /\ env \in Setup
      /\ MemberOK(sess[s])
  BY ZenonT(30) DEF IInv, TypeOK, ShardInv, Member, MembersOK
<1>2. NewSession.lease = NoConn /\ NewSession.own = 0 /\ LinkOK(env.sessionMode, NewSession)
  BY DEF NewSession, LinkOK
<1>3. CASE Detach(s)
  <2> DEFINE q == [sess[s] EXCEPT !.lease = NoConn]
  <2>1. sess' = [sess EXCEPT ![s] = q] /\ queue' = queue /\ env' = env /\ sess[s].pc = "idle"
    BY <1>1, <1>3 DEF Detach
  <2>2. q.cur = sess[s].cur /\ q.lease = NoConn /\ q.pc = "idle"
    BY <1>1, <2>1 DEF Member
  <2>3. LinkOK(env.sessionMode, q)
    BY <2>2 DEF LinkOK
  <2>4. IdleAtHome'
    BY <1>1, <1>3, ParkAtHome DEF Detach
  <2> HIDE DEF q
  <2> QED  BY <2>1, <2>2, <2>3, <2>4, LinkMovesAlone, Zenon
<1>4. CASE Lose(s)
  <2> DEFINE q == [sess[s] EXCEPT !.lease = NoConn, !.cur = None]
  <2>1. sess' = [sess EXCEPT ![s] = q] /\ queue' = queue /\ idle' = idle /\ sess[s].pc = "idle"
    BY <1>1, <1>4, Zenon DEF Lose
  <2>2. q.lease = NoConn /\ q.pc = "idle"
    BY <1>1, <2>1 DEF Member
  <2>3. LinkOK(env.sessionMode, q) /\ IdleAtHome'
    BY <1>1, <2>1, <2>2 DEF LinkOK, IdleAtHome
  <2>4. env'.sessionMode = env.sessionMode
    BY <1>1, <1>4, FailKeepsSetup DEF Lose
  <2> HIDE DEF q
  <2> QED  BY <2>1, <2>2, <2>3, <2>4, LinkMovesAlone, Zenon
<1>5. CASE Refuse(s)
  <2> DEFINE q == Failed(sess[s])
  <2>1. sess' = [sess EXCEPT ![s] = q] /\ queue' = queue /\ idle' = idle /\ sess[s].pc = "idle"
    BY <1>1, <1>5 DEF Refuse
  <2>2. q.cur = None /\ q.own = 0
    BY <1>1 DEF Failed, Member
  <2>3. LinkOK(env.sessionMode, q) /\ IdleAtHome'
    BY <1>1, <2>1, <2>2 DEF LinkOK, IdleAtHome
  <2>4. env'.sessionMode = env.sessionMode
    BY <1>1, <1>5 DEF Refuse, Setup
  <2> HIDE DEF q
  <2> QED  BY <2>1, <2>2, <2>3, <2>4, LinkMovesAlone, Zenon
<1>6. CASE Leave(s) \/ ClientGone(s)
  <2>1. sess[s].pc # "attaching" /\ queue' = queue /\ env' = env
        /\ sess' = [sess EXCEPT ![s] = NewSession]
    BY <1>6 DEF Leave, ClientGone, Ended
  <2>2. IdleAtHome'
    <3>1. CASE sess[s].lease = NoConn
      <4>1. idle' = idle
        BY <1>6, <3>1 DEF Leave, ClientGone, Ended
      <4> QED  BY <1>1, <4>1 DEF IdleAtHome
    <3>2. CASE sess[s].lease # NoConn
      <4>1. Fresh(sess[s].lease.at) \in ConnType
        BY <1>1 DEF Fresh, ConnType
      <4> QED  BY <1>1, <1>6, <3>2, <4>1, ParkAtHome DEF Leave, ClientGone, Ended
    <3> QED  BY <3>1, <3>2
  <2> QED  BY <1>2, <2>1, <2>2, LinkMovesAlone, Zenon
<1> QED  BY <1>3, <1>4, <1>5, <1>6

\* The steps after the last pooled leg.
LEMMA OutLink ==
    ASSUME IInv, ShardInv, NEW s \in Session,
           \/ OwnBreaks(s) \/ SumFails(s) \/ Reply(s) \/ Merge(s)
           \/ \E err \in BOOLEAN : OwnEnds(s, err)
    PROVE  ShardInv'
<1>1. /\ sess \in [Session -> Member] /\ sess[s] \in Member /\ TypeOK /\ LinkOK(env.sessionMode, sess[s])
      /\ IdleAtHome /\ env \in Setup
  BY DEF IInv, TypeOK, ShardInv
<1>2. queue' = queue /\ idle' = idle /\ sess[s].pc # "attaching"
  BY Zenon DEF OwnBreaks, SumFails, Reply, Merge, OwnEnds
<1>3. IdleAtHome' /\ env'.sessionMode = env.sessionMode
  BY <1>1, <1>2, FailKeepsSetup, Zenon DEF IdleAtHome, OwnBreaks, SumFails, Reply, Merge, OwnEnds
<1> DEFINE f == Failed(sess[s])
<1>4. f \in Member /\ f.cur = None /\ f.own = 0 /\ f.lease = sess[s].lease
  BY <1>1, RestingMembers, Zenon DEF Failed, Member
<1>5. CASE OwnBreaks(s)
  <2> DEFINE q == [f EXCEPT !.lease = NoConn]
  <2>1. sess' = [sess EXCEPT ![s] = q]
    BY <1>1, <1>5 DEF OwnBreaks
  <2> HIDE DEF f
  <2>2. LinkOK(env.sessionMode, q)
    BY <1>4 DEF LinkOK, Member
  <2> HIDE DEF q
  <2> QED  BY <1>2, <1>3, <2>1, <2>2, LinkMovesAlone, Zenon
<1>6. CASE SumFails(s)
  <2>1. sess' = [sess EXCEPT ![s] = f]
    BY <1>1, <1>6 DEF SumFails
  <2> HIDE DEF f
  <2>2. LinkOK(env.sessionMode, f)
    BY <1>4 DEF LinkOK
  <2> QED  BY <1>2, <1>3, <2>1, <2>2, LinkMovesAlone, Zenon
<1>7. CASE Reply(s)
  <2> DEFINE q == [f EXCEPT !.cur = IF sess[s].err THEN None ELSE sess[s].cur]
  <2>1. sess' = [sess EXCEPT ![s] = q]
    BY <1>1, <1>7 DEF Reply
  <2> HIDE DEF f
  <2>2. q.own = 0 /\ q.lease = sess[s].lease /\ q.cur \in {None, sess[s].cur}
    BY <1>4 DEF Member
  <2> HIDE DEF q
  <2>3. LinkOK(env.sessionMode, q)
    BY <1>1, <2>2 DEF LinkOK
  <2> QED  BY <1>2, <1>3, <2>1, <2>3, LinkMovesAlone, Zenon
<1>8. CASE Merge(s)
  <2> DEFINE rows == (IF sess[s].own = 0 THEN <<>> ELSE <<sess[s].own>>) \o sess[s].done
             q == [sess[s] EXCEPT !.pc = "checkin", !.rows = rows]
  <2>1. sess' = [sess EXCEPT ![s] = q]
    BY <1>1, <1>8, Zenon DEF Merge
  <2> HIDE DEF rows
  <2>2. q.pc = "checkin" /\ q.lease = sess[s].lease /\ q.cur = sess[s].cur
    BY <1>1 DEF Member
  <2> HIDE DEF q
  <2>3. LinkOK(env.sessionMode, q)
    BY <1>1, <2>2 DEF LinkOK
  <2> QED  BY <1>2, <1>3, <2>1, <2>3, LinkMovesAlone, Zenon
<1>9. ASSUME NEW err \in BOOLEAN, OwnEnds(s, err)
      PROVE  ShardInv'
  <2> DEFINE legs == [sess[s].legs EXCEPT ![sess[s].own].st = IF err THEN "dropped" ELSE "done"]
             q == [sess[s] EXCEPT !.pc = IF err THEN "checkin" ELSE "merge", !.err = err, !.legs = legs]
  <2>1. sess' = [sess EXCEPT ![s] = q]
    BY <1>1, <1>9, Zenon DEF OwnEnds, Member
  <2> HIDE DEF legs
  <2>2. q.pc \in {"checkin", "merge"} /\ q.lease = sess[s].lease /\ q.cur = sess[s].cur
    BY <1>1 DEF Member
  <2> HIDE DEF q
  <2>3. LinkOK(env.sessionMode, q)
    BY <1>1, <2>2 DEF LinkOK
  <2> QED  BY <1>2, <1>3, <2>1, <2>3, LinkMovesAlone, Zenon
<1> QED  BY <1>5, <1>6, <1>7, <1>8, <1>9

\* A session that begins to attach waits once.
LEMMA AttachJoins ==
    ASSUME IInv, NEW s \in Session, NEW e \in Shard, sess[s].pc # "attaching",
           queue' = [queue EXCEPT ![e] = Append(@, <<s, 0>>)]
    PROVE  /\ \A f \in Shard : <<s, 0>> \in Queued'[f] => f = e
           /\ \A d \in Session \ {s}, f \in Shard : <<d, 0>> \in Queued'[f] => <<d, 0>> \in Queued[f]
<1>1. WaitOK(sess[s], s, Queued) /\ 0 \in Nat
  BY DEF IInv, WaitersOK
<1>2. \A f \in Shard : <<s, 0>> \notin Queued[f]
  BY <1>1 DEF WaitOK
<1>3. \A f \in Shard, d \in Session, m \in Nat :
         <<d, m>> \in Queued'[f] <=> <<d, m>> \in Queued[f] \/ (f = e /\ d = s /\ m = 0)
  BY <1>1, <1>2, QueueJoins, Zenon
<1> HIDE DEF Queued
<1> QED  BY <1>1, <1>2, <1>3

\* A session that asks for a connection waits at the pool it takes for its own.
LEMMA JoinsLink ==
    ASSUME IInv, ShardInv, NEW s \in Session, NEW q, NEW e \in Shard, sess[s].pc \in {"gone", "idle"},
           q.lease = NoConn, q.own = 0, At(env.sessionMode, q.cur, e), sess' = [sess EXCEPT ![s] = q],
           queue' = [queue EXCEPT ![e] = Append(@, <<s, 0>>)], idle' = idle, env' = env
    PROVE  ShardInv'
<1>1. sess[s].pc # "attaching"
  OBVIOUS
<1>2. /\ \A f \in Shard : <<s, 0>> \in Queued'[f] => f = e
      /\ \A d \in Session \ {s}, f \in Shard : <<d, 0>> \in Queued'[f] => <<d, 0>> \in Queued[f]
  BY <1>1, AttachJoins, Zenon
<1>3. LinkOK(env.sessionMode, q)
  BY DEF LinkOK
<1>4. IdleAtHome'
  BY DEF ShardInv, IdleAtHome
<1>5. \A f \in Shard : <<s, 0>> \in Queued'[f] => At(env.sessionMode, q.cur, f)
  BY <1>2, Zenon
<1> QED  BY <1>2, <1>3, <1>4, <1>5, LinkMoves, Zenon

\* A client connects, or its query needs a connection.
LEMMA ArriveLink == ASSUME IInv, ShardInv, NEW s \in Session, Arrive(s) \/ Attach(s)  PROVE ShardInv'
<1>1. /\ sess \in [Session -> Member] /\ sess[s] \in Member /\ MemberOK(sess[s])
      /\ env \in Setup /\ Homes \subseteq Shard /\ IdleAtHome
  BY DEF IInv, TypeOK, MembersOK, Setup, Homes, ShardInv
<1>2. CASE Attach(s)
  <2>1. PICK e \in Shard : /\ queue' = [queue EXCEPT ![e] = Append(@, <<s, 0>>)]
                           /\ sess' = [sess EXCEPT ![s].pc = "attaching", ![s].cur = e]
    BY <1>1, <1>2, Zenon DEF Attach
  <2> DEFINE q == [sess[s] EXCEPT !.pc = "attaching", !.cur = e]
  <2>2. sess[s].pc = "idle" /\ sess[s].lease = NoConn /\ sess[s].own = 0 /\ idle' = idle /\ env' = env
    BY <1>1, <1>2, Zenon DEF Attach, MemberOK, Rests
  <2>3. q.lease = NoConn /\ q.own = 0 /\ q.cur = e /\ sess' = [sess EXCEPT ![s] = q]
    BY <1>1, <2>1, <2>2, Zenon DEF Member
  <2>4. At(env.sessionMode, q.cur, e)
    BY <2>3 DEF At
  <2> HIDE DEF q
  <2> QED  BY <2>1, <2>2, <2>3, <2>4, JoinsLink, Zenon
<1>3. CASE Arrive(s) /\ SessionMode
  <2>1. PICK e \in Homes : queue' = [queue EXCEPT ![e] = Append(@, <<s, 0>>)]
    BY <1>3 DEF Arrive
  <2>2. e \in Shard /\ env.sessionMode
    BY <1>1, <1>3, <2>1 DEF SessionMode
  <2> DEFINE q == [NewSession EXCEPT !.pc = "attaching", !.cur = First]
  <2>3. /\ sess[s].pc = "gone" /\ idle' = idle /\ env' = env /\ sess' = [sess EXCEPT ![s] = q]
    BY <1>3 DEF Arrive
  <2>4. q.lease = NoConn /\ q.own = 0 /\ At(env.sessionMode, q.cur, e)
    BY <2>2 DEF NewSession, At
  <2> HIDE DEF q
  <2> QED  BY <2>1, <2>2, <2>3, <2>4, JoinsLink, Zenon
<1>4. CASE Arrive(s) /\ ~SessionMode
  <2> DEFINE q == [NewSession EXCEPT !.pc = "idle"]
  <2>1. /\ sess[s].pc = "gone" /\ idle' = idle /\ env' = env /\ queue' = queue
        /\ sess' = [sess EXCEPT ![s] = q]
    BY <1>4 DEF Arrive
  <2>2. LinkOK(env.sessionMode, q)
    BY DEF NewSession, LinkOK
  <2>3. IdleAtHome'
    BY <1>1, <2>1 DEF IdleAtHome
  <2> HIDE DEF q
  <2> QED  BY <2>1, <2>2, <2>3, LinkMovesAlone, Zenon
<1> QED  BY <1>2, <1>3, <1>4

\* An attaching session gets a connection to the endpoint it takes for its own.
LEMMA AttachedLink == ASSUME IInv, ShardInv, NEW s \in Session, Attached(s)  PROVE ShardInv'
<1>1. PICK e \in Shard : /\ Granted(s, 0, e) /\ Dequeue(e) /\ env' = env
                         /\ sess' = [sess EXCEPT ![s].pc = "idle", ![s].lease = Taken(s, e)]
  BY Zenon DEF Attached
<1>2. /\ sess \in [Session -> Member] /\ sess[s] \in Member /\ TypeOK /\ IdleAtHome /\ 0 \in Nat
  BY DEF IInv, TypeOK, ShardInv
<1>3. IdleAtHome' /\ Taken(s, e).at = e
  BY <1>1, <1>2, TakenAtHome
<1>4. /\ <<s, 0>> \in Queued[e]
      /\ \A f \in Shard, d \in Session, m \in Nat :
            <<d, m>> \in Queued'[f] <=> <<d, m>> \in Queued[f] /\ ~(f = e /\ d = s /\ m = 0)
  BY <1>1, <1>2, QueueLeaves, Zenon DEF Granted, Dequeue
<1>5. \A f \in Shard : <<s, 0>> \in Queued[f] => At(env.sessionMode, sess[s].cur, f)
  BY DEF ShardInv
<1> DEFINE c == Taken(s, e)
           q == [sess[s] EXCEPT !.pc = "idle", !.lease = c]
<1>6. sess' = [sess EXCEPT ![s] = q]
  BY <1>1, <1>2, Zenon
<1>7. c.at = e
  BY <1>3
<1> HIDE DEF c, Queued
<1>8. q.lease = c /\ q.cur = sess[s].cur /\ q.pc = "idle"
  BY <1>2 DEF Member
<1> HIDE DEF q
<1>9. LinkOK(env.sessionMode, q)
  BY <1>4, <1>5, <1>7, <1>8 DEF LinkOK
<1>10. \A f \in Shard : <<s, 0>> \in Queued'[f] => At(env.sessionMode, q.cur, f)
  BY <1>2, <1>4, <1>5, <1>8
<1>11. \A d \in Session \ {s}, f \in Shard : <<d, 0>> \in Queued'[f] => <<d, 0>> \in Queued[f]
  BY <1>2, <1>4
<1> QED  BY <1>1, <1>3, <1>6, <1>9, <1>10, <1>11, LinkMoves, Zenon

\* partition: the leg on the lease is for the session's endpoint.
LEMMA ScatterLink ==
    ASSUME IInv, ShardInv, NEW s \in Session, NEW r \in Requests, Scatter(s, r)
    PROVE  ShardInv'
<1> DEFINE own == OwnLeg(sess[s], r)
           legs == [i \in DOMAIN r |-> Leg(r[i], IF i = own THEN "own" ELSE "new")]
           q == [sess[s] EXCEPT !.own = own, !.legs = legs]
           m == [q EXCEPT !.pc = AfterLegs(q)]
<1>1. /\ sess \in [Session -> Member] /\ sess[s] \in Member /\ LinkOK(env.sessionMode, sess[s]) /\ IdleAtHome
      /\ env \in Setup /\ r \in Seq(Shard)
  BY ScatterAssumption DEF IInv, TypeOK, ShardInv
<1>2. sess' = [sess EXCEPT ![s] = m] /\ queue' = queue /\ idle' = idle /\ sess[s].pc = "idle"
  BY <1>1 DEF Scatter
<1>3. env'.sessionMode = env.sessionMode
  BY <1>1 DEF Scatter, Setup
<1>4. own # 0 => own \in DOMAIN r /\ r[own] = sess[s].cur /\ sess[s].lease # NoConn
  BY <1>1, OwnLegIn
<1>5. own # 0 => legs[own].ep = sess[s].cur /\ sess[s].cur \in Shard
  <2>1. \A i \in DOMAIN r : legs[i].ep = r[i] /\ r[i] \in Shard
    BY <1>1 DEF Leg
  <2> HIDE DEF own, legs
  <2> QED  BY <1>4, <2>1
<1> HIDE DEF own, legs
<1>6. m.own = own /\ m.legs = legs /\ m.lease = sess[s].lease /\ m.cur = sess[s].cur
  BY <1>1 DEF Member
<1> HIDE DEF m
<1>7. LinkOK(env.sessionMode, m)
  BY <1>1, <1>4, <1>5, <1>6, ScatterAssumption DEF LinkOK
<1>8. IdleAtHome'
  BY <1>1, <1>2 DEF IdleAtHome
<1> QED  BY <1>2, <1>3, <1>7, <1>8, LinkMovesAlone, Zenon

\* A leg's step: the session's lease, its endpoint and the legs' shards stay.
LEMMA LegLink ==
    ASSUME IInv, ShardInv, NEW s \in Session, NEW q,
           sess' = [sess EXCEPT ![s] = q], q.lease = sess[s].lease, q.cur = sess[s].cur,
           q.pc \in {"gather", "own"} =>
              /\ q.own = sess[s].own /\ sess[s].pc = "gather"
              /\ q.own # 0 => q.legs[q.own].ep = sess[s].legs[q.own].ep,
           \A d \in Session, e \in Shard : <<d, 0>> \in Queued'[e] => <<d, 0>> \in Queued[e],
           IdleAtHome', env'.sessionMode = env.sessionMode
    PROVE  ShardInv'
<1>1. LinkOK(env.sessionMode, sess[s])
  BY DEF ShardInv
<1>2. LinkOK(env.sessionMode, q)
  BY <1>1 DEF LinkOK
<1>3. \A e \in Shard : <<s, 0>> \in Queued'[e] => At(env.sessionMode, q.cur, e)
  BY DEF ShardInv
<1> QED  BY <1>2, <1>3, LinkMoves, Zenon

\* A leg asks for a permit.
LEMMA LegAsksLink ==
    ASSUME IInv, ShardInv, NEW s \in Session, NEW i \in Index, LegAsks(s, i)
    PROVE  ShardInv'
<1>1. /\ sess \in [Session -> Member] /\ sess[s] \in Member /\ MemberOK(sess[s]) /\ TypeOK
      /\ sess[s].legs \in Seq(LegType) /\ IdleAtHome /\ WaitOK(sess[s], s, Queued) /\ 0 \in Nat
  BY DEF IInv, TypeOK, ShardInv, MembersOK, Member, WaitersOK
<1>2. i \in DOMAIN sess[s].legs /\ env' = env
  BY Zenon DEF LegAsks, Unasked
<1> DEFINE e == sess[s].legs[i].ep
<1>3. sess[s].legs[i] \in LegType /\ e \in Shard /\ i \in Nat \ {0}
  <2>1. sess[s].legs[i] \in LegType /\ i \in Nat \ {0}
    BY <1>1, <1>2
  <2> QED  BY <2>1 DEF LegType
<1> DEFINE l == [sess[s].legs[i] EXCEPT !.st = "wait"]
           q == [sess[s] EXCEPT !.legs = [sess[s].legs EXCEPT ![i] = l]]
<1>4. /\ sess' = [sess EXCEPT ![s] = q] /\ idle' = idle /\ sess[s].legs[i].st = "new"
      /\ queue' = [queue EXCEPT ![e] = Append(@, <<s, i>>)]
  BY <1>1, <1>2 DEF LegAsks, Member, Unasked
<1>5. l \in LegType /\ l.st = "wait" /\ l.ep = e
  BY <1>3 DEF LegType
<1> HIDE DEF l
<1>6. /\ q.pc = "gather" /\ sess[s].pc = "gather"
      /\ q.lease = sess[s].lease /\ q.cur = sess[s].cur /\ q.own = sess[s].own
      /\ q.legs[i] = l /\ \A j \in DOMAIN sess[s].legs \ {i} : q.legs[j] = sess[s].legs[j]
  <2>1. /\ sess[s] \in Member /\ MemberOK(sess[s]) /\ l.st \in {"wait", "run"}
        /\ sess[s].legs[i].st \in {"new", "wait", "run"}
    BY <1>1, <1>4, <1>5, ZenonT(30)
  <2>2. q = [sess[s] EXCEPT !.legs = [sess[s].legs EXCEPT ![i] = l]]
    OBVIOUS
  <2> HIDE DEF q
  <2> QED  BY <1>2, <1>5, <2>1, <2>2, LegGoesOn
<1>7. <<s, i>> \notin Queued[e]
  BY <1>1, <1>3, <1>4, Zenon DEF WaitOK, Waits
<1>8. \A f \in Shard, d \in Session, n \in Nat :
         <<d, n>> \in Queued'[f] <=> <<d, n>> \in Queued[f] \/ (f = e /\ d = s /\ n = i)
  <2> HIDE DEF e
  <2> QED  BY <1>3, <1>4, <1>7, QueueJoins, Zenon
<1>9. \A d \in Session, f \in Shard : <<d, 0>> \in Queued'[f] => <<d, 0>> \in Queued[f]
  <2> HIDE DEF e
  <2> QED  BY <1>1, <1>3, <1>8
<1>10. q.own # 0 => q.legs[q.own].ep = sess[s].legs[q.own].ep
  <2>1. sess[s].own # 0 => sess[s].own \in DOMAIN sess[s].legs
    BY <1>1 DEF MemberOK
  <2> HIDE DEF q
  <2> QED  BY <1>5, <1>6, <2>1
<1>11. IdleAtHome'
  BY <1>1, <1>4 DEF IdleAtHome
<1> HIDE DEF q
<1> QED  BY <1>2, <1>4, <1>6, <1>9, <1>10, <1>11, LegLink, Zenon

\* A leg gets its connection.
LEMMA LegStartsLink ==
    ASSUME IInv, ShardInv, NEW s \in Session, NEW i \in Index, LegStarts(s, i)
    PROVE  ShardInv'
<1> DEFINE q == sess[s]
           e == q.legs[i].ep
           c == Taken(s, e)
           l == [q.legs[i] EXCEPT !.st = "run", !.conn = c]
           m == [q EXCEPT !.legs = [q.legs EXCEPT ![i] = l]]
<1>1. /\ sess \in [Session -> Member] /\ q \in Member /\ MemberOK(q) /\ WaitOK(q, s, Queued)
      /\ env \in Setup /\ TypeOK
  BY DEF IInv, TypeOK, MembersOK, WaitersOK
<1>2. i \in DOMAIN q.legs /\ q.legs[i] \in LegType /\ e \in Shard /\ i \in Nat \ {0}
  <2>1. i \in DOMAIN q.legs /\ q.legs \in Seq(LegType)
    BY <1>1 DEF LegStarts, Member
  <2>2. q.legs[i] \in LegType /\ i \in Nat \ {0}
    BY <2>1
  <2> QED  BY <2>1, <2>2 DEF LegType
<1>3. /\ sess' = [sess EXCEPT ![s] = m] /\ env' = env /\ Granted(s, i, e) /\ Dequeue(e)
  BY <1>1, <1>2 DEF LegStarts, Member
<1>4. c \in ConnType /\ IdleAtHome'
  BY <1>1, <1>2, <1>3, TakenTyped, TakenAtHome DEF ShardInv
<1>5. sess[s] = q
  OBVIOUS
<1> HIDE DEF c, q, e
<1>6. l \in LegType /\ l.st = "run" /\ l.ep = e
  BY <1>2, <1>4, Zenon DEF LegType, e
<1> HIDE DEF l
<1>7. /\ <<s, i>> \in Queued[e]
      /\ \A f \in Shard, d \in Session, n \in Nat :
            <<d, n>> \in Queued'[f] <=> <<d, n>> \in Queued[f] /\ ~(f = e /\ d = s /\ n = i)
  BY <1>2, <1>3, QueueLeaves, Zenon DEF Granted, Dequeue
<1>8. q.legs[i].st = "wait"
  BY <1>1, <1>2, <1>7 DEF WaitOK, Waits
<1>9. /\ m.pc = "gather" /\ q.pc = "gather" /\ m.lease = q.lease /\ m.cur = q.cur /\ m.own = q.own
      /\ m.legs[i] = l /\ \A j \in DOMAIN q.legs \ {i} : m.legs[j] = q.legs[j]
  <2>1. m = [q EXCEPT !.legs = [q.legs EXCEPT ![i] = l]]
    OBVIOUS
  <2> HIDE DEF m
  <2> QED  BY <1>1, <1>2, <1>6, <1>8, <2>1, LegGoesOn
<1> HIDE DEF m
<1>10. \A d \in Session, f \in Shard : <<d, 0>> \in Queued'[f] => <<d, 0>> \in Queued[f]
  <2>1. 0 \in Nat
    OBVIOUS
  <2> QED  BY <1>7, <2>1
<1>11. m.own # 0 => m.legs[m.own].ep = q.legs[m.own].ep
  <2>1. q.own # 0 => q.own \in DOMAIN q.legs
    BY <1>1 DEF MemberOK
  <2> QED  BY <1>6, <1>9, <2>1 DEF e
<1> QED  BY <1>3, <1>4, <1>5, <1>9, <1>10, <1>11, LegLink, Zenon


\* A leg has its result.
LEMMA LegAnswersLink ==
    ASSUME IInv, ShardInv, NEW s \in Session, NEW i \in Index, NEW dirty \in BOOLEAN,
           LegAnswers(s, i, dirty)
    PROVE  ShardInv'
<1> DEFINE q == sess[s]
           l == [q.legs[i] EXCEPT !.st = "done", !.dirty = dirty,
                                  !.conn.by = IF dirty THEN s ELSE @]
           legs == [q.legs EXCEPT ![i] = l]
           done == Append(q.done, i)
           p == [q EXCEPT !.legs = legs, !.done = done]
           m == [p EXCEPT !.pc = AfterLegs(p)]
<1>1. /\ sess \in [Session -> Member] /\ q \in Member /\ MemberOK(q) /\ q.legs \in Seq(LegType)
      /\ IdleAtHome
  BY DEF IInv, TypeOK, MembersOK, Member, ShardInv
<1>2. /\ i \in DOMAIN q.legs /\ q.legs[i].st = "run"
      /\ queue' = queue /\ idle' = idle /\ env' = env
  BY DEF LegAnswers, Running
<1>3. sess' = [sess EXCEPT ![s] = m]
  BY <1>1 DEF LegAnswers, Member
<1>4. Queued' = Queued /\ IdleAtHome' /\ sess[s] = q
  BY <1>1, <1>2 DEF Queued, IdleAtHome
<1> HIDE DEF q
<1>5. q.pc = "gather" /\ (q.own # 0 => q.own \in DOMAIN q.legs) /\ q.legs[i] \in LegType
  BY <1>1, <1>2 DEF MemberOK
<1>6. l.ep = q.legs[i].ep
  BY <1>5 DEF LegType
<1> HIDE DEF l
<1>7. \A j \in DOMAIN q.legs : legs[j].ep = q.legs[j].ep
  BY <1>1, <1>6
<1> HIDE DEF legs, done
<1>8. m.lease = q.lease /\ m.cur = q.cur /\ m.own = q.own /\ m.legs = legs
  BY <1>1 DEF Member
<1> HIDE DEF m
<1>9. m.own # 0 => m.legs[m.own].ep = q.legs[m.own].ep
  BY <1>5, <1>7, <1>8
<1> QED  BY <1>2, <1>3, <1>4, <1>5, <1>8, <1>9, LegLink, Zenon

\* A leg fails, or an outcome's connection is given back.
LEMMA LegEndsLink ==
    ASSUME IInv, ShardInv, NEW s \in Session, Checkin(s) \/ \E i \in Index : LegFails(s, i)
    PROVE  ShardInv'
<1> DEFINE q == sess[s]
<1>1. /\ sess \in [Session -> Member] /\ q \in Member /\ MemberOK(q) /\ q.legs \in Seq(LegType)
      /\ IdleAtHome /\ TypeOK /\ q.done \in Seq(Nat)
  BY ZenonT(30) DEF IInv, TypeOK, MembersOK, Member, ShardInv
<1>2. ASSUME NEW i \in Index, LegFails(s, i) PROVE ShardInv'
  <2> DEFINE legs == [j \in DOMAIN q.legs |-> IF q.legs[j].st \in {"wait", "run"}
                                              THEN Dropped(q.legs[j]) ELSE q.legs[j]]
             m == [q EXCEPT !.pc = "checkin", !.err = TRUE, !.legs = legs]
  <2>1. sess' = [sess EXCEPT ![s] = m] /\ queue' = [e \in Shard |-> Without(queue[e], s)]
    BY <1>1, <1>2, Zenon DEF LegFails, Member
  <2>2. /\ idle' = idle /\ Fail
    BY <1>2 DEF LegFails
  <2>3. IdleAtHome' /\ env'.sessionMode = env.sessionMode
    BY <1>1, <2>2, FailKeepsSetup DEF IdleAtHome
  <2> HIDE DEF legs
  <2>4. m.lease = q.lease /\ m.cur = q.cur /\ m.pc = "checkin"
    BY <1>1 DEF Member
  <2> HIDE DEF m
  <2>5. \A e \in Shard : Queued'[e] \subseteq Queued[e]
    <3> TAKE e \in Shard
    <3> DEFINE W == Session \X Nat
    <3>1. queue[e] \in Seq(W) /\ Inj(queue[e]) /\ queue'[e] = Without(queue[e], s)
      BY <1>1, <2>1 DEF IInv, QueuesOK, TypeOK
    <3>2. Queued[e] = Range(queue[e]) /\ Queued'[e] = Range(queue'[e])
      BY DEF Queued
    <3> HIDE DEF W
    <3>3. Range(queue'[e]) = {w \in Range(queue[e]) : w[1] # s}
      BY <3>1, Drops
    <3> QED  BY <3>2, <3>3
  <2>6. \A d \in Session, e \in Shard : <<d, 0>> \in Queued'[e] => <<d, 0>> \in Queued[e]
    BY <2>5
  <2> QED  BY <2>1, <2>3, <2>4, <2>6, LegLink, Zenon
<1>3. CASE Checkin(s)
  <2> DEFINE i == Head(q.done)
             legs == [q.legs EXCEPT ![i].conn = NoConn]
             m == [q EXCEPT !.done = Tail(q.done), !.legs = legs]
  <2>1. sess' = [sess EXCEPT ![s] = m] /\ q.pc = "checkin" /\ q.done # <<>> /\ queue' = queue
    BY <1>1, <1>3, Zenon DEF Checkin, Member
  <2>2. /\ \/ Park(q.legs[i].conn) /\ env' = env
           \/ Park(Fresh(q.legs[i].ep)) /\ env' = env
           \/ Fail /\ idle' = idle
    BY <1>3, Zenon DEF Checkin
  <2>3. q.legs[i].conn \in ConnType /\ Fresh(q.legs[i].ep) \in ConnType
    <3>1. i \in DOMAIN q.legs
      BY <1>1, <2>1, Leaves DEF MemberOK
    <3>2. q.legs[i] \in LegType
      BY <1>1, <3>1
    <3> QED  BY <3>2, Zenon DEF LegType, ConnType, Fresh
  <2>4. IdleAtHome' /\ env'.sessionMode = env.sessionMode
    <3>1. CASE Fail /\ idle' = idle
      BY <1>1, <3>1, FailKeepsSetup DEF IdleAtHome
    <3>2. CASE Park(q.legs[i].conn) /\ env' = env
      BY <1>1, <2>3, <3>2, ParkAtHome
    <3>3. CASE Park(Fresh(q.legs[i].ep)) /\ env' = env
      BY <1>1, <2>3, <3>3, ParkAtHome
    <3> QED  BY <2>2, <3>1, <3>2, <3>3
  <2> HIDE DEF legs
  <2>5. m.lease = q.lease /\ m.cur = q.cur /\ m.pc = "checkin"
    BY <1>1, <2>1 DEF Member
  <2> HIDE DEF m
  <2>6. Queued' = Queued
    BY <2>1 DEF Queued
  <2> QED  BY <2>1, <2>4, <2>5, <2>6, LegLink, Zenon
<1> QED  BY <1>2, <1>3

\* Leases and idle connections are where their sessions and pools take them to be.
THEOREM ShardInductive == Spec => []ShardInv
<1>1. Init => ShardInv
  <2> SUFFICES ASSUME Init PROVE ShardInv
    OBVIOUS
  <2>1. IdleAtHome /\ \A e \in Shard : Queued[e] = {}
    BY DEF Init, IdleAtHome, Queued, Range
  <2>2. \A s \in Session : LinkOK(env.sessionMode, sess[s])
    BY DEF Init, LinkOK, NewSession
  <2> QED  BY <2>1, <2>2 DEF ShardInv
<1>2. IInv /\ ShardInv /\ [Next]_vars => ShardInv'
  <2> SUFFICES ASSUME IInv, ShardInv, [Next]_vars PROVE ShardInv'
    OBVIOUS
  <2>1. CASE UNCHANGED vars
    <3>1. Queued' = Queued /\ sess' = sess /\ idle' = idle /\ env' = env
      BY <2>1 DEF vars, Queued
    <3> QED  BY <3>1 DEF ShardInv, IdleAtHome
  <2>2. CASE Next
    <3>1. PICK s \in Session :
          \/ Arrive(s) \/ Attach(s) \/ Attached(s) \/ Detach(s) \/ Lose(s) \/ Leave(s)
          \/ Refuse(s)
          \/ \E r \in Requests : Scatter(s, r)
          \/ \E i \in Index : LegAsks(s, i) \/ LegStarts(s, i) \/ LegFails(s, i)
          \/ \E i \in Index, dirty \in BOOLEAN : LegAnswers(s, i, dirty)
          \/ \E err \in BOOLEAN : OwnEnds(s, err)
          \/ OwnBreaks(s) \/ Merge(s) \/ SumFails(s) \/ ClientGone(s)
          \/ Checkin(s) \/ Reply(s)
      BY <2>2, ZenonT(30) DEF Next
    <3> QED  BY <3>1, ArriveLink, AttachedLink, IdleLink, OutLink, ScatterLink, LegAsksLink,
                LegStartsLink, LegAnswersLink, LegEndsLink, ZenonT(30)
  <2> QED  BY <2>1, <2>2
<1> QED  BY <1>1, <1>2, ScatterInductive, PTL DEF Spec

\* The leg on the session's lease is one for the shard this lease is connected to, whatever
\* the session lost, relinked to or failed before, but for First's leg in session mode.
THEOREM OwnLegAtItsShard == Spec => []LegsReachTheirShard
<1>1. ShardInv => LegsReachTheirShard
  BY DEF ShardInv, LinkOK, At, LegsReachTheirShard, SessionMode
<1> QED  BY <1>1, ShardInductive, PTL

-----------------------------------------------------------------------------
\* Only the legs that are still wanted and the sessions that attach wait for a permit, and
\* each of them does.
THEOREM WaitersAreExact == Spec => []QueuesAreExact
<1>1. IInv => QueuesAreExact
  <2> SUFFICES ASSUME IInv PROVE QueuesAreExact
    OBVIOUS
  <2>1. /\ sess \in [Session -> Member] /\ queue \in [Shard -> Seq(Session \X Nat)]
        /\ \A s \in Session : WaitOK(sess[s], s, Queued) /\ MemberOK(sess[s])
    BY DEF IInv, TypeOK, WaitersOK, MembersOK
  <2>2. ASSUME NEW e \in Shard
        PROVE  /\ \A x \in QueuedAt(e) : \E s \in Session, n \in Nat : x = <<s, n, e>> /\ <<s, n>> \in Queued[e]
               /\ \A s \in Session, n \in Nat : <<s, n>> \in Queued[e] => <<s, n, e>> \in QueuedAt(e)
    <3>1. queue[e] \in Seq(Session \X Nat) /\ Queued[e] = Range(queue[e])
      BY <2>1 DEF Queued
    <3>2. \A i \in DOMAIN queue[e] : /\ queue[e][i] \in Session \X Nat /\ queue[e][i] \in Queued[e]
                                     /\ queue[e][i] = <<queue[e][i][1], queue[e][i][2]>>
                                     /\ queue[e][i][1] \in Session /\ queue[e][i][2] \in Nat
      BY <3>1 DEF Range
    <3>3. \A x \in QueuedAt(e) : \E s \in Session, n \in Nat : x = <<s, n, e>> /\ <<s, n>> \in Queued[e]
      <4> TAKE x \in QueuedAt(e)
      <4>1. PICK i \in DOMAIN queue[e] : x = <<queue[e][i][1], queue[e][i][2], e>>
        BY DEF QueuedAt
      <4> QED  BY <3>2, <4>1
    <3>4. ASSUME NEW s \in Session, NEW n \in Nat, <<s, n>> \in Queued[e]
          PROVE  <<s, n, e>> \in QueuedAt(e)
      <4>1. PICK i \in DOMAIN queue[e] : queue[e][i] = <<s, n>>
        BY <3>1, <3>4 DEF Range
      <4>2. queue[e][i][1] = s /\ queue[e][i][2] = n
        BY <4>1
      <4>3. <<queue[e][i][1], queue[e][i][2], e>> \in QueuedAt(e)
        BY DEF QueuedAt
      <4> QED  BY <4>2, <4>3
    <3> QED  BY <3>3, <3>4
  <2>3. \A s \in Session, n \in Nat \ {0}, e \in Shard : Waits(sess[s], n, e) => <<s, n, e>> \in Wanted(s)
    BY DEF Waits, Wanted
  <2>4. ASSUME NEW s \in Session
        PROVE  \A x \in Wanted(s) : \E n \in Nat \ {0}, e \in Shard : x = <<s, n, e>> /\ Waits(sess[s], n, e)
    <3>1. sess[s].legs \in Seq(LegType)
      BY <2>1 DEF Member
    <3>2. \A i \in DOMAIN sess[s].legs : i \in Nat \ {0} /\ sess[s].legs[i] \in LegType
      BY <3>1
    <3>3. \A i \in DOMAIN sess[s].legs : sess[s].legs[i].ep \in Shard
      BY <3>2 DEF LegType
    <3> QED  BY <3>2, <3>3 DEF Waits, Wanted
  <2>5. AllQueued \subseteq Awaiting
    <3> SUFFICES ASSUME NEW e \in Shard, NEW x \in QueuedAt(e) PROVE x \in Awaiting
      BY DEF AllQueued
    <3>1. PICK s \in Session, n \in Nat : x = <<s, n, e>> /\ <<s, n>> \in Queued[e]
      BY <2>2
    <3>2. CASE n = 0
      <4>1. s \in Attaching
        BY <2>1, <3>1, <3>2 DEF WaitOK, Attaching
      <4> QED  BY <3>1, <3>2, <4>1 DEF Awaiting
    <3>3. CASE n # 0
      <4>1. n \in Nat \ {0} /\ Waits(sess[s], n, e)
        BY <2>1, <3>1, <3>3, Zenon DEF WaitOK
      <4> QED  BY <2>3, <3>1, <4>1 DEF Awaiting
    <3> QED  BY <3>2, <3>3
  <2>6. \A s \in Session, n \in Nat \ {0}, e \in Shard : Waits(sess[s], n, e) => <<s, n, e>> \in QueuedAt(e)
    <3> SUFFICES ASSUME NEW s \in Session, NEW n \in Nat \ {0}, NEW e \in Shard, Waits(sess[s], n, e)
                 PROVE  <<s, n, e>> \in QueuedAt(e)
      OBVIOUS
    <3>1. <<s, n>> \in Queued[e]
      BY <2>1, Zenon DEF WaitOK
    <3> QED  BY <2>2, <3>1
  <2>7. ASSUME NEW w \in Awaiting, w[2] # 0 PROVE w \in AllQueued
    <3>1. w \notin {<<s, 0, e>> : s \in Attaching, e \in Shard}
      BY <2>7
    <3>2. PICK s \in Session : w \in Wanted(s)
      BY <3>1 DEF Awaiting
    <3>3. PICK n \in Nat \ {0}, e \in Shard : w = <<s, n, e>> /\ Waits(sess[s], n, e)
      BY <2>4, <3>2
    <3>4. w \in QueuedAt(e)
      BY <2>6, <3>3
    <3> QED  BY <3>4 DEF AllQueued
  <2>8. ASSUME NEW s \in Attaching
        PROVE  Cardinality({w \in AllQueued : w[1] = s}) = 1
    <3>0. s \in Session /\ sess[s].pc = "attaching"
      BY DEF Attaching
    <3>1. WaitOK(sess[s], s, Queued) /\ DOMAIN sess[s].legs = {}
      <4>1. WaitOK(sess[s], s, Queued) /\ MemberOK(sess[s])
        BY <2>1, <3>0
      <4>2. sess[s].legs = <<>>
        BY <3>0, <4>1, Zenon DEF MemberOK, Rests
      <4> QED  BY <4>1, <4>2
    <3>2. PICK e \in Shard : <<s, 0>> \in Queued[e]
      BY <3>0, <3>1 DEF WaitOK
    <3>3. <<s, 0, e>> \in AllQueued
      BY <2>2, <3>0, <3>2 DEF AllQueued
    <3>4. ASSUME NEW w \in AllQueued, w[1] = s PROVE w = <<s, 0, e>>
      <4>1. PICK f \in Shard : w \in QueuedAt(f)
        BY DEF AllQueued
      <4>2. PICK d \in Session, n \in Nat : w = <<d, n, f>> /\ <<d, n>> \in Queued[f]
        BY <2>2, <4>1, ZenonT(30)
      <4>3. d = s
        BY <3>4, <4>2
      <4>4. \A m \in Nat \ {0} : ~Waits(sess[s], m, f)
        BY <3>1 DEF Waits
      <4>5. n = 0
        BY <3>0, <3>1, <4>2, <4>3, <4>4 DEF WaitOK
      <4>6. f = e
        BY <3>1, <3>2, <4>2, <4>3, <4>5 DEF WaitOK
      <4> QED  BY <4>2, <4>3, <4>5, <4>6
    <3> DEFINE x == <<s, 0, e>>
    <3>5. x[1] = s
      OBVIOUS
    <3>6. {w \in AllQueued : w[1] = s} = {x}
      BY <3>3, <3>4, <3>5
    <3> HIDE DEF x
    <3> QED  BY <3>6, FS_Singleton
  <2> QED  BY <2>5, <2>7, <2>8, Zenon DEF QueuesAreExact
<1> QED  BY <1>1, ScatterInductive, PTL

-----------------------------------------------------------------------------
(***************************************************************************)
(* The legs that answered.  A leg that runs or is among the outcomes has a *)
(* connection of its shard's pool; what a step makes of an outcome follows *)
(* from the account of the legs: an outcome is done, so no step of another *)
(* leg touches it.                                                         *)
(***************************************************************************)

HeldOK(q) ==
    \A k \in DOMAIN q.legs :
        q.legs[k].st = "run" \/ k \in Range(q.done) => q.legs[k].conn.at = q.legs[k].ep

HeldInv == \A s \in Session : HeldOK(sess[s])

\* What a step of s does to its outcomes.
Fate(s) ==
    /\ HeldOK(sess'[s])
    /\ \A k \in Range(sess[s].done) : StillCollected(s, k) \/ CheckedIn(s, k) \/ GivesUp(s)

\* While legs are awaited, the outcomes are done and none of them is the session's leg.
LEMMA OutcomesAreDone ==
    ASSUME NEW q, MemberOK(q), q.pc \in {"gather", "own"}, NEW k \in Range(q.done)
    PROVE  k \in DOMAIN q.legs /\ k # q.own /\ q.legs[k].st = "done"
<1>1. Collects(q) /\ k \in DOMAIN q.legs
  BY DEF MemberOK, Active
<1> QED  BY <1>1 DEF Collects

\* The outcomes stay: neither they nor their number change.
LEMMA FateOfNone ==
    ASSUME TypeOK, NEW s \in Session, HeldOK(sess[s]), NEW q, sess' = [sess EXCEPT ![s] = q],
           q.legs = sess[s].legs, q.done = sess[s].done
    PROVE  Fate(s)
<1>1. sess'[s] = q
  BY DEF TypeOK
<1> QED  BY <1>1 DEF Fate, HeldOK, StillCollected

\* A session at rest has no outcomes.
LEMMA FateAtRest ==
    ASSUME TypeOK, NEW s \in Session, NEW q, sess' = [sess EXCEPT ![s] = q],
           DOMAIN q.legs = {}, sess[s].done = <<>> \/ GivesUp(s)
    PROVE  Fate(s)
<1>1. sess'[s] = q
  BY DEF TypeOK
<1>2. HeldOK(sess'[s])
  BY <1>1 DEF HeldOK
<1>3. sess[s].done = <<>> => Range(sess[s].done) = {}
  BY DEF Range
<1> QED  BY <1>2, <1>3 DEF Fate

\* Steps between scatters, and those that leave one.
LEMMA RestFate ==
    ASSUME IInv, HeldInv, NEW s \in Session,
           \/ Arrive(s) \/ Attach(s) \/ Attached(s) \/ Detach(s) \/ Lose(s) \/ Leave(s) \/ Refuse(s)
           \/ OwnBreaks(s) \/ Merge(s) \/ SumFails(s) \/ ClientGone(s) \/ Reply(s)
    PROVE  Fate(s)
<1>1. /\ TypeOK /\ sess \in [Session -> Member] /\ sess[s] \in Member /\ MemberOK(sess[s])
      /\ HeldOK(sess[s])
  BY DEF IInv, TypeOK, MembersOK, HeldInv
<1>2. CASE Attached(s)
  <2>1. PICK c : sess' = [sess EXCEPT ![s].pc = "idle", ![s].lease = c]
    BY <1>2, Zenon DEF Attached
  <2> DEFINE q == [sess[s] EXCEPT !.pc = "idle", !.lease = c]
  <2>2. sess' = [sess EXCEPT ![s] = q] /\ q.legs = sess[s].legs /\ q.done = sess[s].done
    BY <1>1, <2>1 DEF Member
  <2> HIDE DEF q
  <2> QED  BY <1>1, <2>2, FateOfNone, Zenon
<1>3. CASE Attach(s)
  <2>1. PICK e : sess' = [sess EXCEPT ![s].pc = "attaching", ![s].cur = e]
    BY <1>3, Zenon DEF Attach
  <2> DEFINE q == [sess[s] EXCEPT !.pc = "attaching", !.cur = e]
  <2>2. sess' = [sess EXCEPT ![s] = q] /\ q.legs = sess[s].legs /\ q.done = sess[s].done
    BY <1>1, <2>1 DEF Member
  <2> HIDE DEF q
  <2> QED  BY <1>1, <2>2, FateOfNone, Zenon
<1>4. CASE Detach(s) \/ Lose(s)
  <2> DEFINE p == [sess[s] EXCEPT !.lease = NoConn]
             q == [sess[s] EXCEPT !.lease = NoConn, !.cur = None]
  <2>1. sess' = [sess EXCEPT ![s] = p] \/ sess' = [sess EXCEPT ![s] = q]
    BY <1>1, <1>4, Zenon DEF Detach, Lose
  <2>2. /\ p.legs = sess[s].legs /\ p.done = sess[s].done
        /\ q.legs = sess[s].legs /\ q.done = sess[s].done
    BY <1>1 DEF Member
  <2> HIDE DEF p, q
  <2> QED  BY <1>1, <2>1, <2>2, FateOfNone, Zenon
<1>5. CASE Merge(s)
  <2>1. PICK rows : sess' = [sess EXCEPT ![s].pc = "checkin", ![s].rows = rows]
    BY <1>5, Zenon DEF Merge
  <2> DEFINE q == [sess[s] EXCEPT !.pc = "checkin", !.rows = rows]
  <2>2. sess' = [sess EXCEPT ![s] = q] /\ q.legs = sess[s].legs /\ q.done = sess[s].done
    BY <1>1, <2>1 DEF Member
  <2> HIDE DEF q
  <2> QED  BY <1>1, <2>2, FateOfNone, Zenon
<1> DEFINE f == Failed(sess[s])
<1>6. /\ f \in Member /\ f.pc = "idle" /\ f.legs = <<>>
      /\ NewSession \in Member /\ NewSession.pc = "gone" /\ NewSession.legs = <<>>
      /\ DOMAIN <<>> = {}
  <2>1. DOMAIN <<>> = {}
    OBVIOUS
  <2> QED  BY <1>1, <2>1, RestingMembers, Zenon DEF Rests
<1> HIDE DEF f
<1>7. CASE Arrive(s) \/ Leave(s) \/ ClientGone(s)
  <2>1. /\ sess[s].pc \in {"gone", "idle", "merge"}
        /\ \E q : sess' = [sess EXCEPT ![s] = q] /\ q.legs = <<>>
        /\ sess[s].pc = "merge" => sess' = [sess EXCEPT ![s] = NewSession]
    <3>1. CASE Arrive(s)
      <4> DEFINE p == [NewSession EXCEPT !.pc = "idle"]
                 q == [NewSession EXCEPT !.pc = "attaching", !.cur = First]
      <4>1. sess[s].pc = "gone" /\ (sess' = [sess EXCEPT ![s] = p] \/ sess' = [sess EXCEPT ![s] = q])
        BY <3>1, Zenon DEF Arrive
      <4>2. p.legs = <<>> /\ q.legs = <<>>
        BY DEF NewSession
      <4> HIDE DEF p, q
      <4> QED  BY <4>1, <4>2
    <3>2. CASE Leave(s) \/ ClientGone(s)
      BY <1>6, <3>2 DEF Leave, ClientGone, Ended
    <3> QED  BY <1>7, <3>1, <3>2
  <2>2. PICK q : sess' = [sess EXCEPT ![s] = q] /\ q.legs = <<>>
    BY <2>1, Zenon
  <2>3. sess[s].done = <<>> \/ GivesUp(s)
    <3>1. CASE sess[s].pc = "merge"
      BY <1>1, <1>6, <2>1, <3>1 DEF GivesUp
    <3>2. CASE sess[s].pc # "merge"
      BY <1>1, <2>1, <3>2 DEF MemberOK, Rests
    <3> QED  BY <3>1, <3>2
  <2> QED  BY <1>1, <1>6, <2>2, <2>3, FateAtRest, Zenon
<1>8. CASE Refuse(s) \/ SumFails(s)
  <2>1. sess' = [sess EXCEPT ![s] = f] /\ sess[s].pc \in {"idle", "merge"}
    BY <1>1, <1>8 DEF Refuse, SumFails, f
  <2>2. sess[s].done = <<>> \/ GivesUp(s)
    BY <1>1, <1>6, <2>1 DEF MemberOK, Rests, GivesUp
  <2> QED  BY <1>1, <1>6, <2>1, <2>2, FateAtRest, Zenon
<1>9. CASE OwnBreaks(s)
  <2> DEFINE q == [f EXCEPT !.lease = NoConn]
  <2>1. sess' = [sess EXCEPT ![s] = q] /\ sess[s].pc = "own"
    BY <1>1, <1>9 DEF OwnBreaks, f
  <2>2. q.legs = <<>> /\ q.pc = "idle"
    BY <1>6 DEF Member
  <2> HIDE DEF q
  <2>3. GivesUp(s)
    BY <1>1, <2>1, <2>2 DEF GivesUp
  <2> QED  BY <1>1, <1>6, <2>1, <2>2, <2>3, FateAtRest, Zenon
<1>10. CASE Reply(s)
  <2> DEFINE q == [f EXCEPT !.cur = IF sess[s].err THEN None ELSE sess[s].cur]
  <2>1. sess' = [sess EXCEPT ![s] = q] /\ sess[s].done = <<>>
    BY <1>1, <1>10 DEF Reply, f
  <2>2. q.legs = <<>>
    BY <1>6 DEF Member
  <2> HIDE DEF q
  <2> QED  BY <1>1, <1>6, <2>1, <2>2, FateAtRest, Zenon
<1> QED  BY <1>2, <1>3, <1>4, <1>5, <1>7, <1>8, <1>9, <1>10, Zenon

\* A scatter begins with no outcomes and no leg that runs.
LEMMA ScatterFate ==
    ASSUME IInv, NEW s \in Session, NEW r \in Requests, Scatter(s, r)
    PROVE  Fate(s)
<1> DEFINE own == OwnLeg(sess[s], r)
           legs == [i \in DOMAIN r |-> Leg(r[i], IF i = own THEN "own" ELSE "new")]
           q == [sess[s] EXCEPT !.own = own, !.legs = legs]
           m == [q EXCEPT !.pc = AfterLegs(q)]
<1>1. /\ sess \in [Session -> Member] /\ sess[s] \in Member /\ MemberOK(sess[s])
  BY DEF IInv, TypeOK, MembersOK
<1>2. sess' = [sess EXCEPT ![s] = m] /\ sess[s].pc = "idle"
  BY <1>1 DEF Scatter
<1>3. sess[s].done = <<>> /\ Range(sess[s].done) = {}
  BY <1>1, <1>2 DEF MemberOK, Rests, Range
<1>4. \A k \in DOMAIN legs : legs[k].st # "run"
  BY DEF Leg
<1> HIDE DEF own, legs
<1>5. m.legs = legs /\ m.done = sess[s].done
  BY <1>1 DEF Member
<1> HIDE DEF m
<1>6. sess'[s] = m
  BY <1>1, <1>2
<1> QED  BY <1>3, <1>4, <1>5, <1>6 DEF Fate, HeldOK

\* One leg moves and the outcomes are those before.
LEMMA FateOfLeg ==
    ASSUME TypeOK, NEW s \in Session, HeldOK(sess[s]), MemberOK(sess[s]), sess[s].pc \in {"gather", "own"},
           NEW q, sess' = [sess EXCEPT ![s] = q], q.done = sess[s].done,
           DOMAIN q.legs = DOMAIN sess[s].legs,
           \A k \in DOMAIN q.legs :
              \/ q.legs[k] = sess[s].legs[k]
              \/ sess[s].legs[k].st # "done" \/ k = sess[s].own,
           \A k \in DOMAIN q.legs :
              \/ q.legs[k] = sess[s].legs[k]
              \/ q.legs[k].st # "run"
              \/ q.legs[k].conn.at = q.legs[k].ep
    PROVE  Fate(s)
<1>1. sess'[s] = q
  BY DEF TypeOK
<1>2. ASSUME NEW k \in Range(sess[s].done)
      PROVE  k \in DOMAIN q.legs /\ q.legs[k] = sess[s].legs[k]
  BY OutcomesAreDone
<1>3. HeldOK(q)
  BY <1>2 DEF HeldOK
<1> QED  BY <1>1, <1>2, <1>3 DEF Fate, StillCollected

\* A leg asks for a permit.
LEMMA LegAsksFate ==
    ASSUME IInv, HeldInv, NEW s \in Session, NEW i \in Index, LegAsks(s, i)
    PROVE  Fate(s)
<1>1. /\ TypeOK /\ sess[s] \in Member /\ MemberOK(sess[s]) /\ HeldOK(sess[s])
      /\ sess[s].legs \in Seq(LegType)
  BY DEF IInv, TypeOK, MembersOK, HeldInv, Member
<1>2. i \in DOMAIN sess[s].legs /\ sess[s].legs[i].st = "new"
  BY DEF LegAsks, Unasked
<1>3. sess[s].pc = "gather" /\ sess[s].legs[i] \in LegType
  BY <1>1, <1>2 DEF MemberOK
<1> DEFINE l == [sess[s].legs[i] EXCEPT !.st = "wait"]
           legs == [sess[s].legs EXCEPT ![i] = l]
           q == [sess[s] EXCEPT !.legs = legs]
<1>4. sess' = [sess EXCEPT ![s] = q]
  BY <1>1, <1>2 DEF LegAsks, Member, TypeOK
<1>5. l.st = "wait"
  BY <1>3 DEF LegType
<1> HIDE DEF l
<1>6. /\ DOMAIN legs = DOMAIN sess[s].legs /\ legs[i] = l
      /\ \A k \in DOMAIN legs \ {i} : legs[k] = sess[s].legs[k]
  BY <1>1, <1>2
<1> HIDE DEF legs
<1>7. q.legs = legs /\ q.done = sess[s].done
  BY <1>1 DEF Member
<1> HIDE DEF q
<1>8. \A k \in DOMAIN q.legs : q.legs[k] = sess[s].legs[k] \/ (k = i /\ q.legs[k] = l)
  BY <1>6, <1>7
<1>9. DOMAIN q.legs = DOMAIN sess[s].legs
  BY <1>6, <1>7
<1>10. \A k \in DOMAIN q.legs : \/ q.legs[k] = sess[s].legs[k]
                                \/ sess[s].legs[k].st # "done" \/ k = sess[s].own
  BY <1>2, <1>8
<1>11. \A k \in DOMAIN q.legs : \/ q.legs[k] = sess[s].legs[k] \/ q.legs[k].st # "run"
                                \/ q.legs[k].conn.at = q.legs[k].ep
  BY <1>5, <1>8
<1> QED  BY <1>1, <1>3, <1>4, <1>7, <1>9, <1>10, <1>11, FateOfLeg

\* A leg gets a connection of its shard's pool.
LEMMA LegStartsFate ==
    ASSUME IInv, ShardInv, HeldInv, NEW s \in Session, NEW i \in Index, LegStarts(s, i)
    PROVE  Fate(s)
<1> DEFINE e == sess[s].legs[i].ep
           c == Taken(s, e)
           l == [sess[s].legs[i] EXCEPT !.st = "run", !.conn = c]
           legs == [sess[s].legs EXCEPT ![i] = l]
           q == [sess[s] EXCEPT !.legs = legs]
<1>1. /\ TypeOK /\ sess[s] \in Member /\ MemberOK(sess[s]) /\ HeldOK(sess[s])
      /\ sess[s].legs \in Seq(LegType) /\ WaitOK(sess[s], s, Queued) /\ IdleAtHome
  BY DEF IInv, TypeOK, MembersOK, HeldInv, Member, WaitersOK, ShardInv
<1>2. i \in DOMAIN sess[s].legs
  BY DEF LegStarts
<1>3. sess[s].legs[i] \in LegType /\ i \in Nat \ {0}
  BY <1>1, <1>2
<1>4. e \in Shard
  BY <1>3 DEF LegType
<1>5. sess' = [sess EXCEPT ![s] = q] /\ Granted(s, i, e) /\ Dequeue(e)
  BY <1>1, <1>2 DEF LegStarts, Member, TypeOK
<1>6. c.at = e
  BY <1>1, <1>4, <1>5, TakenAtHome
<1> HIDE DEF e
<1>7. <<s, i>> \in Queued[e]
  BY <1>3, <1>4, <1>5, QueueLeaves, Zenon DEF Granted, Dequeue
<1>8. sess[s].legs[i].st = "wait" /\ sess[s].pc = "gather"
  <2>1. sess[s].legs[i].st = "wait"
    BY <1>1, <1>3, <1>4, <1>7 DEF WaitOK, Waits
  <2> QED  BY <1>1, <1>2, <2>1 DEF MemberOK
<1> HIDE DEF c
<1>9. l.ep = e /\ l.conn.at = e
  BY <1>3, <1>6 DEF LegType, e
<1> HIDE DEF l
<1>10. /\ DOMAIN legs = DOMAIN sess[s].legs /\ legs[i] = l
       /\ \A k \in DOMAIN legs \ {i} : legs[k] = sess[s].legs[k]
  BY <1>1, <1>2
<1> HIDE DEF legs
<1>11. q.legs = legs /\ q.done = sess[s].done
  BY <1>1 DEF Member
<1> HIDE DEF q
<1>12. \A k \in DOMAIN q.legs : q.legs[k] = sess[s].legs[k] \/ (k = i /\ q.legs[k] = l)
  BY <1>10, <1>11
<1>13. DOMAIN q.legs = DOMAIN sess[s].legs
  BY <1>10, <1>11
<1>14. \A k \in DOMAIN q.legs : \/ q.legs[k] = sess[s].legs[k]
                                \/ sess[s].legs[k].st # "done" \/ k = sess[s].own
  BY <1>8, <1>12
<1>15. \A k \in DOMAIN q.legs : \/ q.legs[k] = sess[s].legs[k] \/ q.legs[k].st # "run"
                                \/ q.legs[k].conn.at = q.legs[k].ep
  BY <1>9, <1>12
<1> QED  BY <1>1, <1>5, <1>8, <1>11, <1>13, <1>14, <1>15, FateOfLeg

\* A leg has its result: one more outcome.
LEMMA LegAnswersFate ==
    ASSUME IInv, HeldInv, NEW s \in Session, NEW i \in Index, NEW dirty \in BOOLEAN,
           LegAnswers(s, i, dirty)
    PROVE  Fate(s)
<1> DEFINE l == [sess[s].legs[i] EXCEPT !.st = "done", !.dirty = dirty,
                                        !.conn.by = IF dirty THEN s ELSE @]
           legs == [sess[s].legs EXCEPT ![i] = l]
           done == Append(sess[s].done, i)
           p == [sess[s] EXCEPT !.legs = legs, !.done = done]
           m == [p EXCEPT !.pc = AfterLegs(p)]
<1>1. /\ sess \in [Session -> Member] /\ sess[s] \in Member /\ MemberOK(sess[s]) /\ HeldOK(sess[s])
      /\ sess[s].legs \in Seq(LegType) /\ sess[s].done \in Seq(Nat)
  BY DEF IInv, TypeOK, MembersOK, HeldInv, Member
<1>2. i \in DOMAIN sess[s].legs /\ sess[s].legs[i].st = "run"
  BY DEF LegAnswers, Running
<1>3. sess[s].pc = "gather" /\ sess[s].legs[i] \in LegType /\ i \in Nat
  BY <1>1, <1>2 DEF MemberOK
<1>4. sess' = [sess EXCEPT ![s] = m]
  BY <1>1 DEF LegAnswers, Member
<1>5. l.ep = sess[s].legs[i].ep /\ l.conn.at = sess[s].legs[i].conn.at /\ l.st = "done"
  BY <1>3 DEF LegType, ConnType
<1>6. sess[s].legs[i].conn.at = sess[s].legs[i].ep
  BY <1>1, <1>2 DEF HeldOK
<1> HIDE DEF l
<1>7. /\ DOMAIN legs = DOMAIN sess[s].legs /\ legs[i] = l
      /\ \A k \in DOMAIN legs \ {i} : legs[k] = sess[s].legs[k]
  BY <1>1, <1>2
<1>8. Range(done) = Range(sess[s].done) \cup {i}
  <2>1. /\ Len(sess[s].done) \in Nat /\ DOMAIN sess[s].done = 1 .. Len(sess[s].done)
        /\ DOMAIN done = 1 .. (Len(sess[s].done) + 1)
        /\ \A k \in 1 .. Len(sess[s].done) : done[k] = sess[s].done[k]
        /\ done[Len(sess[s].done) + 1] = i
    BY <1>1, <1>3, AppendProperties, LenProperties
  <2> HIDE DEF done
  <2> QED  BY <2>1 DEF Range
<1> HIDE DEF legs, done
<1>9. m.legs = legs /\ m.done = done
  BY <1>1 DEF Member
<1> HIDE DEF m
<1>10. sess'[s] = m
  BY <1>1, <1>4
<1>11. \A k \in Range(sess[s].done) : k \in DOMAIN sess[s].legs /\ k # i
  BY <1>1, <1>2, <1>3, OutcomesAreDone
<1>12. HeldOK(m)
  <2> SUFFICES ASSUME NEW k \in DOMAIN legs, legs[k].st = "run" \/ k \in Range(done)
               PROVE  legs[k].conn.at = legs[k].ep
    BY <1>9 DEF HeldOK
  <2>1. CASE k = i
    BY <1>5, <1>6, <1>7, <2>1
  <2>2. CASE k # i
    BY <1>1, <1>7, <1>8, <2>2 DEF HeldOK
  <2> QED  BY <2>1, <2>2
<1>13. \A k \in Range(sess[s].done) : StillCollected(s, k)
  BY <1>7, <1>8, <1>9, <1>10, <1>11 DEF StillCollected
<1> QED  BY <1>10, <1>12, <1>13 DEF Fate

\* A leg fails, or the session's own ends: the outcomes stay.
LEMMA FailsFate ==
    ASSUME IInv, HeldInv, NEW s \in Session,
           \/ \E i \in Index : LegFails(s, i)
           \/ \E err \in BOOLEAN : OwnEnds(s, err)
    PROVE  Fate(s)
<1>1. /\ TypeOK /\ sess \in [Session -> Member] /\ sess[s] \in Member /\ MemberOK(sess[s])
      /\ HeldOK(sess[s]) /\ sess[s].legs \in Seq(LegType)
  BY ZenonT(30) DEF IInv, TypeOK, MembersOK, HeldInv, Member
<1>2. ASSUME NEW i \in Index, LegFails(s, i) PROVE Fate(s)
  <2> DEFINE legs == [j \in DOMAIN sess[s].legs |-> IF sess[s].legs[j].st \in {"wait", "run"}
                                     THEN Dropped(sess[s].legs[j]) ELSE sess[s].legs[j]]
             q == [sess[s] EXCEPT !.pc = "checkin", !.err = TRUE, !.legs = legs]
  <2>1. sess' = [sess EXCEPT ![s] = q]
    BY <1>1, <1>2, Zenon DEF LegFails, Member
  <2>2. sess[s].pc = "gather"
    BY <1>1, <1>2 DEF LegFails, Running, MemberOK
  <2>3. \A l \in LegType : Dropped(l).st = "dropped"
    BY DEF Dropped, LegType
  <2>4. \A k \in DOMAIN legs : \/ legs[k] = sess[s].legs[k]
                               \/ sess[s].legs[k].st # "done" /\ legs[k].st # "run"
    BY <1>1, <2>3
  <2>5. DOMAIN legs = DOMAIN sess[s].legs
    OBVIOUS
  <2> HIDE DEF legs
  <2>6. q.legs = legs /\ q.done = sess[s].done
    BY <1>1 DEF Member
  <2> HIDE DEF q
  <2> QED  BY <1>1, <2>1, <2>2, <2>4, <2>5, <2>6, FateOfLeg
<1>3. ASSUME NEW err \in BOOLEAN, OwnEnds(s, err) PROVE Fate(s)
  <2> DEFINE o == sess[s].own
             legs == [sess[s].legs EXCEPT ![o].st = IF err THEN "dropped" ELSE "done"]
             q == [sess[s] EXCEPT !.pc = IF err THEN "checkin" ELSE "merge", !.err = err, !.legs = legs]
  <2>1. sess' = [sess EXCEPT ![s] = q] /\ sess[s].pc = "own"
    BY <1>1, <1>3, Zenon DEF OwnEnds, Member
  <2>2. o \in DOMAIN sess[s].legs
    BY <1>1, <2>1 DEF MemberOK
  <2>3. sess[s].legs[o] \in LegType
    BY <1>1, <2>2
  <2>4. legs[o].st # "run"
    BY <1>1, <2>2, <2>3 DEF LegType
  <2>5. DOMAIN legs = DOMAIN sess[s].legs /\ \A k \in DOMAIN legs : k # o => legs[k] = sess[s].legs[k]
    BY <1>1, <2>2
  <2> HIDE DEF legs
  <2>6. q.legs = legs /\ q.done = sess[s].done
    BY <1>1 DEF Member
  <2> HIDE DEF q
  <2> QED  BY <1>1, <2>1, <2>4, <2>5, <2>6, FateOfLeg
<1> QED  BY <1>2, <1>3

\* The next outcome is checked in: a clean one is parked in its shard's pool.
LEMMA CheckinFate == ASSUME IInv, HeldInv, NEW s \in Session, Checkin(s)  PROVE Fate(s)
<1> DEFINE i == Head(sess[s].done)
           legs == [sess[s].legs EXCEPT ![i].conn = NoConn]
           rest == Tail(sess[s].done)
           q == [sess[s] EXCEPT !.done = rest, !.legs = legs]
<1>1. /\ TypeOK /\ sess \in [Session -> Member] /\ sess[s] \in Member /\ MemberOK(sess[s])
      /\ HeldOK(sess[s]) /\ sess[s].legs \in Seq(LegType) /\ sess[s].done \in Seq(Nat)
      /\ idle \in [Shard -> Seq(ConnType)] /\ Inj(sess[s].done)
      /\ Range(sess[s].done) \subseteq DOMAIN sess[s].legs
  BY ZenonT(30) DEF IInv, TypeOK, MembersOK, HeldInv, Member, MemberOK
<1>2. sess' = [sess EXCEPT ![s] = q] /\ sess[s].pc = "checkin" /\ sess[s].done # <<>>
  BY <1>1, Zenon DEF Checkin, Member
<1>3. sess[s].legs[i].dirty \/ Park(sess[s].legs[i].conn)
  BY Zenon DEF Checkin
<1>4. i \in Range(sess[s].done) /\ Range(rest) = Range(sess[s].done) \ {i}
  BY <1>1, <1>2, Leaves
<1> HIDE DEF i, rest
<1>5. i \in DOMAIN sess[s].legs /\ sess[s].legs[i] \in LegType
  BY <1>1, <1>4
<1>6. sess[s].legs[i].conn.at = sess[s].legs[i].ep /\ sess[s].legs[i].ep \in Shard
  BY <1>1, <1>4, <1>5 DEF HeldOK, LegType
<1>7. CheckedIn(s, i)
  <2>1. CASE sess[s].legs[i].dirty
    BY <1>2, <2>1 DEF CheckedIn
  <2>2. CASE Park(sess[s].legs[i].conn)
    BY <1>1, <1>2, <1>6, <2>2 DEF CheckedIn, Park
  <2> QED  BY <1>3, <2>1, <2>2
<1>8. /\ DOMAIN legs = DOMAIN sess[s].legs /\ legs[i].st = sess[s].legs[i].st
      /\ \A k \in DOMAIN legs \ {i} : legs[k] = sess[s].legs[k]
  BY <1>1, <1>5 DEF LegType
<1> HIDE DEF legs
<1>9. q.legs = legs /\ q.done = rest
  BY <1>1 DEF Member
<1> HIDE DEF q
<1>10. sess'[s] = q
  BY <1>1, <1>2
<1>11. \A k \in Range(sess[s].done) \ {i} : StillCollected(s, k)
  BY <1>1, <1>4, <1>8, <1>9, <1>10 DEF StillCollected
<1>12. \A k \in DOMAIN legs : legs[k].st # "run"
  BY <1>1, <1>2, <1>8 DEF MemberOK
<1>13. HeldOK(q)
  BY <1>1, <1>4, <1>8, <1>9, <1>12 DEF HeldOK
<1> QED  BY <1>7, <1>10, <1>11, <1>13 DEF Fate

\* A step of one session is no step of another.
LEMMA OthersRest ==
    ASSUME IInv, NEW s \in Session, NEW d \in Session, d # s,
           \/ Arrive(s) \/ Attach(s) \/ Attached(s) \/ Detach(s) \/ Lose(s) \/ Leave(s)
           \/ Refuse(s)
           \/ \E r \in Requests : Scatter(s, r)
           \/ \E i \in Index : LegAsks(s, i) \/ LegStarts(s, i) \/ LegFails(s, i)
           \/ \E i \in Index, dirty \in BOOLEAN : LegAnswers(s, i, dirty)
           \/ \E err \in BOOLEAN : OwnEnds(s, err)
           \/ OwnBreaks(s) \/ Merge(s) \/ SumFails(s) \/ ClientGone(s)
           \/ Checkin(s) \/ Reply(s)
    PROVE  sess'[d] = sess[d]
<1>1. sess \in [Session -> Member]
  BY DEF IInv, TypeOK
<1>2. CASE \/ Arrive(s) \/ Leave(s) \/ Refuse(s) \/ OwnBreaks(s) \/ SumFails(s) \/ ClientGone(s)
           \/ Reply(s)
  <2>1. \E q : sess' = [sess EXCEPT ![s] = q]
    BY <1>2, Zenon DEF Arrive, Leave, Refuse, OwnBreaks, SumFails, ClientGone, Reply, Ended
  <2> QED  BY <1>1, <2>1
<1>3. CASE Attach(s) \/ Attached(s) \/ Detach(s) \/ Lose(s) \/ Merge(s)
  BY <1>1, <1>3 DEF Attach, Attached, Detach, Lose, Merge
<1>4. CASE \E r \in Requests : Scatter(s, r)
  BY <1>1, <1>4 DEF Scatter
<1>5. CASE \E i \in Index : LegAsks(s, i) \/ LegStarts(s, i) \/ LegFails(s, i)
  BY <1>1, <1>5 DEF LegAsks, LegStarts, LegFails
<1>6. CASE \E i \in Index, dirty \in BOOLEAN : LegAnswers(s, i, dirty)
  BY <1>1, <1>6 DEF LegAnswers
<1>7. CASE \E err \in BOOLEAN : OwnEnds(s, err)
  BY <1>1, <1>7 DEF OwnEnds
<1>8. CASE Checkin(s)
  BY <1>1, <1>8 DEF Checkin
<1> QED  BY <1>2, <1>3, <1>4, <1>5, <1>6, <1>7, <1>8, Zenon

\* A leg that answered stays among the outcomes with its connection until it is checked in,
\* which parks a clean one, whatever happens to the other legs; only an early return after
\* the last pooled leg loses it.
THEOREM OutcomesAreKept == Spec => CleanLegsReturned
<1> DEFINE Good == \A s \in Session : \A i \in Range(sess[s].done) :
                      StillCollected(s, i) \/ CheckedIn(s, i) \/ GivesUp(s)
<1>1. Init => HeldInv
  BY DEF Init, HeldInv, HeldOK, NewSession
<1>2. ASSUME IInv, ShardInv, HeldInv, [Next]_vars
      PROVE  HeldInv' /\ [Good]_vars
  <2>1. CASE UNCHANGED vars
    BY <1>2, <2>1 DEF vars, HeldInv, HeldOK
  <2>2. CASE Next
    <3>1. PICK s \in Session :
          \/ Arrive(s) \/ Attach(s) \/ Attached(s) \/ Detach(s) \/ Lose(s) \/ Leave(s)
          \/ Refuse(s)
          \/ \E r \in Requests : Scatter(s, r)
          \/ \E i \in Index : LegAsks(s, i) \/ LegStarts(s, i) \/ LegFails(s, i)
          \/ \E i \in Index, dirty \in BOOLEAN : LegAnswers(s, i, dirty)
          \/ \E err \in BOOLEAN : OwnEnds(s, err)
          \/ OwnBreaks(s) \/ Merge(s) \/ SumFails(s) \/ ClientGone(s)
          \/ Checkin(s) \/ Reply(s)
      BY <2>2, ZenonT(30) DEF Next
    <3>2. Fate(s)
      BY <1>2, <3>1, RestFate, ScatterFate, LegAsksFate, LegStartsFate, LegAnswersFate, FailsFate,
         CheckinFate, ZenonT(30)
    <3>3. \A d \in Session \ {s} : sess'[d] = sess[d]
      BY <1>2, <3>1, OthersRest, ZenonT(30)
    <3>4. ASSUME NEW d \in Session PROVE Fate(d)
      <4>1. CASE d = s
        BY <3>2, <4>1
      <4>2. CASE d # s
        BY <1>2, <3>3, <4>2 DEF Fate, HeldInv, HeldOK, StillCollected
      <4> QED  BY <4>1, <4>2
    <3>5. HeldInv' /\ Good
      BY <3>4 DEF Fate, HeldInv
    <3> QED  BY <3>5
  <2> QED  BY <1>2, <2>1, <2>2
<1>3. /\ IInv /\ ShardInv /\ HeldInv /\ [Next]_vars => HeldInv'
      /\ IInv /\ ShardInv /\ HeldInv /\ [Next]_vars => [Good]_vars
  BY <1>2
<1> QED  BY <1>1, <1>3, ScatterInductive, ShardInductive, PTL DEF Spec, CleanLegsReturned
=============================================================================
