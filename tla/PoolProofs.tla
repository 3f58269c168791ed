----------------------------- MODULE PoolProofs -----------------------------
(***************************************************************************)
(* Proofs about the pool, for every set of tasks, every set of             *)
(* connections, every max_size and every number of dropped futures.        *)
(***************************************************************************)
EXTENDS Pool, FiniteSetTheorems, SequenceTheorems, TLAPS

\* A leaf that names no prover is tried by SMT, by Zenon, and by SMT again.
USE SMTT(60), ZenonT(30), SMTT(60)

(***************************************************************************)
(* The inductive invariant.  SizeBound is not inductive alone: that        *)
(* PopEmpty keeps it needs the permits to be conserved, and that a release *)
(* keeps those needs the queue to hold exactly the queued tasks, once.     *)
(***************************************************************************)
QueueOK ==
    /\ \A i, j \in DOMAIN queue : queue[i] = queue[j] => i = j
    /\ NoIdlePermit

IInv ==
    /\ TypeOK
    /\ QueueOK
    /\ PermitsConserved
    /\ SizeBound
    /\ Exclusive

\* There is at least one permit, whatever max_size is (Pool::new).
LEMMA PermitsType == Permits \in Nat \ {0}
BY PoolAssumption DEF Permits

\* The sets of tasks the invariants count are finite.
LEMMA TaskSets ==
    /\ IsFiniteSet(Holder) /\ IsFiniteSet(Committed)
    /\ Cardinality(Holder) \in Nat /\ Cardinality(Committed) \in Nat
    /\ Committed \subseteq Holder
<1>1. Holder \in SUBSET Task /\ Committed \in SUBSET Task
  BY DEF Holder, Committed
<1>2. IsFiniteSet(Holder) /\ IsFiniteSet(Committed)
  BY <1>1, FS_Subset, PoolAssumption
<1>3. Committed \subseteq Holder
  BY DEF Holder, Committed
<1> QED  BY <1>2, <1>3, FS_CardinalityType

\* The same for the next state.
LEMMA TaskSetsPrime ==
    /\ IsFiniteSet(Holder') /\ IsFiniteSet(Committed')
    /\ Cardinality(Holder') \in Nat /\ Cardinality(Committed') \in Nat
<1>1. Holder' \in SUBSET Task /\ Committed' \in SUBSET Task
  BY DEF Holder, Committed
<1>2. IsFiniteSet(Holder') /\ IsFiniteSet(Committed')
  BY <1>1, FS_Subset, PoolAssumption
<1> QED  BY <1>2, FS_CardinalityType

\* Removing the first element of a sequence without repetitions.
LEMMA TailOK ==
    ASSUME NEW S, NEW q \in Seq(S), q # <<>>,
           \A i, j \in DOMAIN q : q[i] = q[j] => i = j
    PROVE  /\ Head(q) \in S
           /\ \E i \in DOMAIN q : q[i] = Head(q)
           /\ Tail(q) \in Seq(S)
           /\ \A i, j \in DOMAIN Tail(q) : Tail(q)[i] = Tail(q)[j] => i = j
           /\ \A x : (\E i \in DOMAIN Tail(q) : Tail(q)[i] = x)
                       <=> (x # Head(q) /\ \E i \in DOMAIN q : q[i] = x)
<1>1. /\ Len(q) \in Nat \ {0} /\ DOMAIN q = 1 .. Len(q)
      /\ Head(q) \in S /\ Head(q) = q[1]
  BY LenProperties, EmptySeq, HeadTailProperties
<1>2. /\ Tail(q) \in Seq(S) /\ Len(Tail(q)) = Len(q) - 1
      /\ \A i \in 1 .. Len(q) - 1 : Tail(q)[i] = q[i + 1]
  BY HeadTailProperties
<1>3. DOMAIN Tail(q) = 1 .. Len(q) - 1
  BY <1>2, LenProperties
<1>4. \A i, j \in DOMAIN Tail(q) : Tail(q)[i] = Tail(q)[j] => i = j
  BY <1>1, <1>2, <1>3
<1>5. ASSUME NEW x
      PROVE (\E i \in DOMAIN Tail(q) : Tail(q)[i] = x)
              <=> (x # Head(q) /\ \E i \in DOMAIN q : q[i] = x)
  <2>1. ASSUME NEW i \in DOMAIN Tail(q), Tail(q)[i] = x
        PROVE  x # Head(q) /\ \E k \in DOMAIN q : q[k] = x
    BY <1>1, <1>2, <1>3, <2>1
  <2>2. ASSUME NEW k \in DOMAIN q, q[k] = x, x # Head(q)
        PROVE  \E i \in DOMAIN Tail(q) : Tail(q)[i] = x
    <3>1. k - 1 \in DOMAIN Tail(q) /\ Tail(q)[k - 1] = x
      BY <1>1, <1>2, <1>3, <2>2
    <3> QED  BY <3>1
  <2> QED  BY <2>1, <2>2
<1>6. \E i \in DOMAIN q : q[i] = Head(q)
  <2>1. 1 \in DOMAIN q
    BY <1>1
  <2> QED  BY <1>1, <2>1
<1> QED  BY <1>1, <1>2, <1>4, <1>5, <1>6

\* Removing the element at position k of a sequence without repetitions.
LEMMA RemoveOK ==
    ASSUME NEW S, NEW q \in Seq(S), NEW k \in DOMAIN q,
           \A i, j \in DOMAIN q : q[i] = q[j] => i = j
    PROVE  /\ Without(q, k) \in Seq(S)
           /\ \A i, j \in DOMAIN Without(q, k) :
                  Without(q, k)[i] = Without(q, k)[j] => i = j
           /\ \A x : (\E i \in DOMAIN Without(q, k) : Without(q, k)[i] = x)
                       <=> (x # q[k] /\ \E i \in DOMAIN q : q[i] = x)
<1> DEFINE r == Without(q, k)
<1>1. /\ Len(q) \in Nat /\ DOMAIN q = 1 .. Len(q)
      /\ \A i \in 1 .. Len(q) : q[i] \in S
  BY LenProperties, ElementOfSeq
<1>2. Len(q) - 1 \in Nat
  BY <1>1
<1>3. r \in [1 .. Len(q) - 1 -> S]
  BY <1>1 DEF Without
<1>4. r \in Seq(S)
  BY <1>2, <1>3, SeqDef
<1>5. \A i \in 1 .. Len(q) - 1 : r[i] = IF i < k THEN q[i] ELSE q[i + 1]
  BY DEF Without
<1>6. DOMAIN r = 1 .. Len(q) - 1
  BY <1>3
<1> HIDE DEF r
<1> DEFINE from(i) == IF i < k THEN i ELSE i + 1
<1>7. \A i \in DOMAIN r : from(i) \in DOMAIN q /\ from(i) # k /\ r[i] = q[from(i)]
  BY <1>1, <1>5, <1>6
<1>8. \A i, j \in DOMAIN r : from(i) = from(j) => i = j
  BY <1>1, <1>6
<1> HIDE DEF from
<1>9. \A i, j \in DOMAIN r : r[i] = r[j] => i = j
  BY <1>7, <1>8
<1>10. ASSUME NEW x
       PROVE (\E i \in DOMAIN r : r[i] = x)
               <=> (x # q[k] /\ \E i \in DOMAIN q : q[i] = x)
  <2>1. ASSUME NEW i \in DOMAIN r, r[i] = x
        PROVE  x # q[k] /\ \E m \in DOMAIN q : q[m] = x
    BY <1>7, <2>1
  <2>2. ASSUME NEW m \in DOMAIN q, q[m] = x, x # q[k]
        PROVE  \E i \in DOMAIN r : r[i] = x
    <3>1. CASE m < k  BY <1>1, <1>5, <1>6, <2>2, <3>1
    <3>2. CASE m > k
      <4>1. m - 1 \in DOMAIN r /\ r[m - 1] = x
        BY <1>1, <1>5, <1>6, <2>2, <3>2
      <4> QED  BY <4>1
    <3>3. m # k  BY <2>2
    <3> QED  BY <1>1, <3>1, <3>2, <3>3
  <2> QED  BY <2>1, <2>2
<1> QED  BY <1>4, <1>9, <1>10 DEF r

\* Appending an element that is not in the sequence.
LEMMA AppendOK ==
    ASSUME NEW S, NEW q \in Seq(S), NEW x \in S, NEW r,
           \A i, j \in DOMAIN q : q[i] = q[j] => i = j,
           x \notin {q[i] : i \in DOMAIN q},
           r = Append(q, x)
    PROVE  /\ r \in Seq(S) /\ Len(r) = Len(q) + 1 /\ Len(q) \in Nat
           /\ \A i, j \in DOMAIN r : r[i] = r[j] => i = j
           /\ {r[i] : i \in DOMAIN r} = {q[i] : i \in DOMAIN q} \cup {x}
<1>1. Len(q) \in Nat /\ DOMAIN q = 1 .. Len(q)
  BY LenProperties
<1>2. /\ r \in Seq(S) /\ Len(r) = Len(q) + 1
      /\ r[Len(q) + 1] = x /\ \A i \in 1 .. Len(q) : r[i] = q[i]
  BY <1>1
<1>3. DOMAIN r = 1 .. Len(q) + 1
  BY <1>2, LenProperties
<1>4. \A i \in DOMAIN q : q[i] # x
  OBVIOUS
<1>5. \A i \in DOMAIN r : (i \in DOMAIN q /\ r[i] = q[i]) \/ (i = Len(q) + 1 /\ r[i] = x)
  BY <1>1, <1>2, <1>3
<1>6. \A i, j \in DOMAIN r : r[i] = r[j] => i = j
  BY <1>4, <1>5
<1>7. {r[i] : i \in DOMAIN r} = {q[i] : i \in DOMAIN q} \cup {x}
  <2>1. \A i \in DOMAIN q : i \in DOMAIN r /\ r[i] = q[i]
    BY <1>1, <1>2, <1>3
  <2>2. Len(q) + 1 \in DOMAIN r
    BY <1>1, <1>3
  <2> QED  BY <1>2, <1>5, <2>1, <2>2
<1> QED  BY <1>1, <1>2, <1>6, <1>7

-----------------------------------------------------------------------------
(***************************************************************************)
(* What the steps do to the counted sets.                                  *)
(***************************************************************************)

\* A step of one task that leaves the semaphore alone keeps the queue right.
LEMMA LocalStep ==
    ASSUME TypeOK, QueueOK, NEW t \in Task, NEW p \in Phase \ {"queued"},
           phase[t] # "queued", phase' = [phase EXCEPT ![t] = p],
           UNCHANGED <<avail, queue>>
    PROVE  phase' \in [Task -> Phase] /\ QueueOK'
BY DEF TypeOK, QueueOK, NoIdlePermit

(***************************************************************************)
(* Releasing a permit: the queue stays right, the permit is either back in *)
(* the semaphore or owned by the task it was handed to, and nobody else    *)
(* moves.                                                                  *)
(***************************************************************************)
LEMMA ReleaseStep ==
    ASSUME TypeOK, QueueOK, NEW t \in Task, NEW p \in {"out", "closing"},
           t \in Holder, ReleasePermit([phase EXCEPT ![t] = p])
    PROVE  /\ phase' \in [Task -> Phase] /\ avail' \in Nat /\ queue' \in Seq(Task)
           /\ QueueOK'
           /\ avail' + Cardinality(Holder') = avail + Cardinality(Holder)
           /\ phase'[t] = p
           /\ \A u \in Task \ {t} : phase'[u] = phase[u]
                    \/ (phase[u] = "queued" /\ phase'[u] = "granted")
<1>1. CASE queue = <<>>
  <2>1. phase' = [phase EXCEPT ![t] = p] /\ avail' = avail + 1 /\ queue' = queue
    BY <1>1 DEF ReleasePermit
  <2>2. Holder' = Holder \ {t}
    BY <2>1 DEF TypeOK, Holder
  <2>3. Cardinality(Holder') = Cardinality(Holder) - 1
    BY <2>2, TaskSets, FS_RemoveElement, Zenon
  <2>4. QueueOK'
    BY <1>1, <2>1 DEF TypeOK, QueueOK, NoIdlePermit, Holder
  <2> QED  BY <2>1, <2>3, <2>4, TaskSets DEF TypeOK, Phase
<1>2. CASE queue # <<>>
  <2> DEFINE h == Head(queue)
  <2>1. /\ phase' = [[phase EXCEPT ![t] = p] EXCEPT ![h] = "granted"]
        /\ queue' = Tail(queue) /\ avail' = avail
    BY <1>2 DEF ReleasePermit
  <2>2. /\ h \in Task /\ Tail(queue) \in Seq(Task)
        /\ \E i \in DOMAIN queue : queue[i] = h
        /\ \A i, j \in DOMAIN Tail(queue) : Tail(queue)[i] = Tail(queue)[j] => i = j
        /\ \A x : (\E i \in DOMAIN Tail(queue) : Tail(queue)[i] = x)
                   <=> (x # h /\ \E i \in DOMAIN queue : queue[i] = x)
    <3>1. queue \in Seq(Task) /\ \A i, j \in DOMAIN queue : queue[i] = queue[j] => i = j
      BY DEF TypeOK, QueueOK
    <3> QED  BY <1>2, <3>1, TailOK
  <2>3. phase[h] = "queued"
    BY <2>2 DEF QueueOK, NoIdlePermit
  <2> HIDE DEF h
  <2>4. h # t
    BY <2>3 DEF Holder
  <2>5. /\ phase' \in [Task -> Phase] /\ phase'[t] = p /\ phase'[h] = "granted"
        /\ \A u \in Task \ {t, h} : phase'[u] = phase[u]
    BY <2>1, <2>2, <2>4, ZenonT(30) DEF TypeOK, Phase
  <2>6. Holder' = (Holder \ {t}) \cup {h}
    BY <2>2, <2>5 DEF Holder
  <2>7. h \notin Holder \ {t}
    BY <2>3 DEF Holder
  <2>8. Cardinality(Holder') = Cardinality(Holder)
    <3>1. IsFiniteSet(Holder \ {t}) /\ Cardinality(Holder \ {t}) = Cardinality(Holder) - 1
      BY TaskSets, FS_RemoveElement
    <3>2. Cardinality(Holder') = Cardinality(Holder \ {t}) + 1
      BY <2>6, <2>7, <3>1, FS_AddElement, ZenonT(30)
    <3> QED  BY <3>1, <3>2, TaskSets
  <2>9. QueueOK'
    <3>1. \A u \in Task : phase'[u] = "queued" <=> \E i \in DOMAIN queue' : queue'[i] = u
      <4> SUFFICES ASSUME NEW u \in Task
                   PROVE phase'[u] = "queued" <=> \E i \in DOMAIN queue' : queue'[i] = u
        OBVIOUS
      <4>1. phase'[u] = "queued" <=> (u # h /\ phase[u] = "queued")
        BY <2>5 DEF Holder
      <4>2. phase[u] = "queued" <=> \E i \in DOMAIN queue : queue[i] = u
        BY DEF QueueOK, NoIdlePermit
      <4>3. (\E i \in DOMAIN queue' : queue'[i] = u)
               <=> (u # h /\ \E i \in DOMAIN queue : queue[i] = u)
        BY <2>1, <2>2, Zenon
      <4> QED  BY <4>1, <4>2, <4>3
    <3>2. avail' = 0
      BY <1>2, <2>1 DEF QueueOK, NoIdlePermit
    <3> QED  BY <2>1, <2>2, <3>1, <3>2, Zenon DEF QueueOK, NoIdlePermit
  <2> QED  BY <2>1, <2>2, <2>3, <2>5, <2>8, <2>9, TaskSets DEF TypeOK
<1> QED  BY <1>1, <1>2

\* A release by a task takes it out of Committed and adds nobody.
LEMMA ReleaseCommitted ==
    ASSUME TypeOK, QueueOK, NEW t \in Task, NEW p \in {"out", "closing"},
           t \in Holder, ReleasePermit([phase EXCEPT ![t] = p])
    PROVE  /\ Committed' = Committed \ {t}
           /\ Cardinality(Committed') <= Cardinality(Committed)
<1>1. /\ phase' \in [Task -> Phase] /\ phase'[t] = p
      /\ \A u \in Task \ {t} : phase'[u] = phase[u]
               \/ (phase[u] = "queued" /\ phase'[u] = "granted")
  BY ReleaseStep, Zenon
<1>2. Committed' = Committed \ {t}
  BY <1>1 DEF Committed
<1>3. Committed' \in SUBSET Committed
  BY <1>2
<1> QED  BY <1>2, <1>3, TaskSets, FS_Subset

\* Exclusive ownership survives a step that adds no owner and parks nothing.
LEMMA ExclusiveKept ==
    ASSUME Exclusive, idle' = idle,
           \A t \in Owner' : t \in Owner /\ held'[t] = held[t]
    PROVE  Exclusive'
BY DEF Exclusive, IdleConns

\* Popping a connection nobody else owns, without leasing it yet.
LEMMA PopStep ==
    ASSUME TypeOK, Exclusive, idle # <<>>, idle' = SubSeq(idle, 1, Len(idle) - 1)
    PROVE  /\ idle' \in Seq(Conn) /\ Len(idle') = Len(idle) - 1
           /\ Len(idle) \in Nat \ {0}
           /\ idle[Len(idle)] \in Conn
           /\ \A i, j \in DOMAIN idle' : idle'[i] = idle'[j] => i = j
           /\ IdleConns' = IdleConns \ {idle[Len(idle)]}
           /\ idle[Len(idle)] \in IdleConns
<1>1. idle \in Seq(Conn) /\ \A i, j \in DOMAIN idle : idle[i] = idle[j] => i = j
  BY DEF TypeOK, Exclusive
<1>2. Len(idle) \in Nat \ {0} /\ DOMAIN idle = 1 .. Len(idle)
      /\ \A i \in 1 .. Len(idle) : idle[i] \in Conn
  BY <1>1, LenProperties, EmptySeq, ElementOfSeq
<1>3. /\ idle' \in Seq(Conn) /\ Len(idle') = Len(idle) - 1
      /\ \A i \in 1 .. Len(idle) - 1 : idle'[i] = idle[i]
  <2>1. \A i \in 1 .. Len(idle) - 1 : idle[i] \in Conn
    BY <1>2
  <2>2. /\ idle' \in Seq(Conn)
        /\ Len(idle') = IF 1 <= Len(idle) - 1 THEN Len(idle) - 1 - 1 + 1 ELSE 0
        /\ \A i \in 1 .. Len(idle) - 1 - 1 + 1 : idle'[i] = idle[1 + i - 1]
    BY <1>1, <1>2, <2>1, SubSeqProperties
  <2>3. ASSUME NEW i \in 1 .. Len(idle) - 1  PROVE idle'[i] = idle[i]
    <3>1. 1 + i - 1 = i /\ i \in 1 .. Len(idle) - 1 - 1 + 1
      BY <1>2
    <3> QED  BY <2>2, <3>1
  <2> QED  BY <1>2, <2>2, <2>3
<1>4. DOMAIN idle' = 1 .. Len(idle) - 1
  BY <1>3, LenProperties
<1>5. \A i, j \in DOMAIN idle' : idle'[i] = idle'[j] => i = j
  BY <1>1, <1>2, <1>3, <1>4
<1>6. Len(idle) \in DOMAIN idle
  BY <1>2
<1>7. idle[Len(idle)] \in IdleConns
  BY <1>6 DEF IdleConns
<1>8. IdleConns' = {idle'[i] : i \in DOMAIN idle'}
  BY DEF IdleConns
<1>9. {idle'[i] : i \in DOMAIN idle'} \subseteq IdleConns \ {idle[Len(idle)]}
  <2> SUFFICES ASSUME NEW i \in DOMAIN idle'
               PROVE  idle'[i] \in IdleConns /\ idle'[i] # idle[Len(idle)]
    OBVIOUS
  <2>1. i \in DOMAIN idle /\ idle'[i] = idle[i] /\ i # Len(idle)
    BY <1>2, <1>3, <1>4
  <2> QED  BY <1>1, <1>6, <2>1 DEF IdleConns
<1>10. IdleConns \ {idle[Len(idle)]} \subseteq {idle'[i] : i \in DOMAIN idle'}
  <2> SUFFICES ASSUME NEW i \in DOMAIN idle, idle[i] # idle[Len(idle)]
               PROVE  idle[i] \in {idle'[k] : k \in DOMAIN idle'}
    BY DEF IdleConns
  <2>1. i \in DOMAIN idle' /\ idle'[i] = idle[i]
    BY <1>2, <1>3, <1>4
  <2> QED  BY <2>1
<1> QED  BY <1>2, <1>3, <1>5, <1>6, <1>7, <1>8, <1>9, <1>10

\* A task that starts to own a connection nobody else owns.
LEMMA ExclusiveTake ==
    ASSUME TypeOK, NEW t \in Task, NEW c \in Conn,
           \A i, j \in DOMAIN idle' : idle'[i] = idle'[j] => i = j,
           c \notin IdleConns', IdleConns' \subseteq IdleConns,
           Exclusive,
           held' = [held EXCEPT ![t] = c],
           Owner' \subseteq Owner \cup {t},
           \A u \in Owner \ {t} : held[u] # c
    PROVE  Exclusive'
<1>1. \A u \in Owner' : held'[u] = IF u = t THEN c ELSE held[u]
  BY DEF TypeOK, Owner
<1> QED  BY <1>1 DEF Exclusive

\* The initial state.
LEMMA InitIInv == Init => IInv
<1> SUFFICES ASSUME Init PROVE IInv
  OBVIOUS
<1>1. TypeOK
  BY PermitsType, PoolAssumption DEF Init, TypeOK, Phase
<1>2. QueueOK
  BY DEF Init, QueueOK, NoIdlePermit
<1>3. Holder = {} /\ Committed = {} /\ Owner = {}
  BY DEF Init, Holder, Committed, Owner
<1>4. PermitsConserved
  BY <1>3, FS_EmptySet, PermitsType DEF Init, PermitsConserved
<1>5. SizeBound
  BY <1>3, FS_EmptySet, PermitsType DEF Init, SizeBound
<1>6. Exclusive
  BY <1>3 DEF Init, Exclusive
<1> QED  BY <1>1, <1>2, <1>4, <1>5, <1>6 DEF IInv

(***************************************************************************)
(* The inductive step, one lemma per group of actions.                     *)
(***************************************************************************)

\* checkout takes a permit, or joins the queue.
LEMMA CheckoutIInv ==
    ASSUME IInv, NEW t \in Task, Checkout(t)
    PROVE  IInv'
<1> USE DEF IInv
<1>1. /\ phase[t] = "out" /\ waiting' = waiting + 1
      /\ held' = held /\ idle' = idle /\ active' = active /\ drops' = drops
  BY DEF Checkout
<1>2. CASE avail > 0 /\ avail' = avail - 1 /\ queue' = queue
             /\ phase' = [phase EXCEPT ![t] = "granted"]
  <2>1. TypeOK'
    BY <1>1, <1>2, LocalStep DEF TypeOK, Phase
  <2>2. QueueOK'
    BY <1>1, <1>2 DEF TypeOK, QueueOK, NoIdlePermit
  <2>3. Holder' = Holder \cup {t} /\ t \notin Holder
    BY <1>1, <1>2 DEF TypeOK, Holder
  <2>4. PermitsConserved'
    <3>1. Cardinality(Holder') = Cardinality(Holder) + 1
      BY <2>3, TaskSets, FS_AddElement, Zenon
    <3> QED  BY <1>2, <3>1, TaskSets, PermitsType DEF TypeOK, PermitsConserved
  <2>5. Committed' = Committed /\ Owner' = Owner
    BY <1>1, <1>2 DEF TypeOK, Committed, Owner
  <2>6. SizeBound' /\ Exclusive'
    BY <1>1, <2>5, ExclusiveKept DEF SizeBound
  <2> QED  BY <2>1, <2>2, <2>4, <2>6
<1>3. CASE avail = 0 /\ avail' = avail /\ queue' = Append(queue, t)
             /\ phase' = [phase EXCEPT ![t] = "queued"]
  <2> DEFINE r == Append(queue, t)
  <2>1. /\ r \in Seq(Task)
        /\ \A i, j \in DOMAIN r : r[i] = r[j] => i = j
        /\ {r[i] : i \in DOMAIN r} = {queue[i] : i \in DOMAIN queue} \cup {t}
    <3>1. queue \in Seq(Task) /\ \A i, j \in DOMAIN queue : queue[i] = queue[j] => i = j
      BY DEF TypeOK, QueueOK
    <3>2. t \notin {queue[i] : i \in DOMAIN queue}
      BY <1>1 DEF QueueOK, NoIdlePermit
    <3> QED  BY <3>1, <3>2, AppendOK
  <2>2. queue' = r
    BY <1>3
  <2> HIDE DEF r
  <2>3. TypeOK'
    BY <1>1, <1>3, <2>1, <2>2 DEF TypeOK, Phase
  <2>4. \A u \in Task : phase'[u] = "queued" <=> \E i \in DOMAIN queue' : queue'[i] = u
    <3> SUFFICES ASSUME NEW u \in Task
                 PROVE phase'[u] = "queued" <=> u \in {r[i] : i \in DOMAIN r}
      BY <2>2
    <3>1. phase'[u] = "queued" <=> (u = t \/ phase[u] = "queued")
      BY <1>3 DEF TypeOK
    <3>2. phase[u] = "queued" <=> u \in {queue[i] : i \in DOMAIN queue}
      BY DEF QueueOK, NoIdlePermit
    <3> QED  BY <2>1, <3>1, <3>2, Zenon
  <2>5. QueueOK'
    BY <1>3, <2>1, <2>2, <2>4 DEF QueueOK, NoIdlePermit
  <2>6. Holder' = Holder /\ Committed' = Committed /\ Owner' = Owner
    BY <1>1, <1>3 DEF TypeOK, Holder, Committed, Owner
  <2>7. PermitsConserved' /\ SizeBound' /\ Exclusive'
    BY <1>1, <1>3, <2>6, ExclusiveKept DEF PermitsConserved, SizeBound
  <2> QED  BY <2>3, <2>5, <2>7
<1> QED  BY <1>2, <1>3 DEF Checkout

(***************************************************************************)
(* A step of one permit holder that keeps its permit, parks and opens      *)
(* nothing and gets no connection it did not have.                         *)
(***************************************************************************)
LEMMA HolderStep ==
    ASSUME IInv, NEW t \in Holder, NEW p \in Phase,
           phase' = [phase EXCEPT ![t] = p], t \in Holder',
           t \in Committed' => t \in Committed,
           t \in Owner' => t \in Owner,
           held' = held \/ (t \notin Owner' /\ held' = [held EXCEPT ![t] = NoConn]),
           UNCHANGED <<avail, queue, idle>>,
           active' \in Int, waiting' \in Int, drops' \in 0 .. MaxDrops
    PROVE  IInv'
<1> USE DEF IInv
<1>1. t \in Task /\ p # "queued" /\ phase[t] # "queued"
  BY DEF TypeOK, Holder
<1>2. phase' \in [Task -> Phase] /\ QueueOK'
  BY <1>1, LocalStep, Zenon
<1>3. TypeOK'
  BY <1>1, <1>2 DEF TypeOK
<1>4. Holder' = Holder
  BY <1>1 DEF TypeOK, Holder
<1>5. PermitsConserved'
  BY <1>4 DEF PermitsConserved
<1>6. Committed' \in SUBSET Committed
  BY <1>1 DEF TypeOK, Committed
<1>7. SizeBound'
  <2>1. Cardinality(Committed') <= Cardinality(Committed)
    BY <1>6, TaskSets, FS_Subset
  <2>2. Len(idle) \in Nat
    BY LenProperties DEF TypeOK
  <2> QED  BY <2>1, <2>2, TaskSets, TaskSetsPrime, PermitsType DEF SizeBound
<1>8. \A u \in Owner' : u \in Owner /\ held'[u] = held[u]
  BY <1>1 DEF TypeOK, Owner
<1>9. Exclusive'
  BY <1>8, ExclusiveKept
<1> QED  BY <1>2, <1>3, <1>5, <1>7, <1>9

\* The steps of a permit holder that HolderStep covers.
LEMMA HolderIInv ==
    ASSUME IInv, NEW t \in Task,
           \/ Acquired(t) \/ ProbeOk(t) \/ ProbeFailed(t) \/ ConnectFailed(t)
           \/ Checkin(t) \/ Destroy(t)
           \/ DropConn(t) /\ drops < MaxDrops /\ drops' = drops + 1
    PROVE  IInv'
<1>0. TypeOK
  BY DEF IInv
<1>1. CASE Acquired(t)
  <2>1. active' \in Int /\ waiting' \in Int /\ drops' \in 0 .. MaxDrops
    BY <1>0, <1>1 DEF Acquired, TypeOK
  <2>2. t \in Holder /\ t \in Holder' /\ (t \in Committed' => t \in Committed)
        /\ (t \in Owner' => t \in Owner)
    BY <1>0, <1>1 DEF Acquired, TypeOK, Holder, Committed, Owner
  <2> QED  BY <1>1, <2>1, <2>2, HolderStep, Zenon DEF Acquired, Phase
<1>2. CASE ProbeOk(t)
  <2>1. held' = held
    BY <1>0, <1>2 DEF ProbeOk, FinishCheckout, TypeOK
  <2>2. active' \in Int /\ waiting' \in Int /\ drops' \in 0 .. MaxDrops
    BY <1>0, <1>2 DEF ProbeOk, FinishCheckout, TypeOK
  <2>3. t \in Holder /\ t \in Holder' /\ t \in Committed /\ t \in Owner
    BY <1>0, <1>2 DEF ProbeOk, FinishCheckout, TypeOK, Holder, Committed, Owner
  <2> QED  BY <1>2, <2>1, <2>2, <2>3, HolderStep, Zenon DEF ProbeOk, FinishCheckout, Phase
<1>3. CASE ProbeFailed(t)
  BY <1>0, <1>3, HolderStep, Zenon DEF ProbeFailed, TypeOK, Phase, Holder, Committed, Owner
<1>4. CASE ConnectFailed(t)
  BY <1>0, <1>4, HolderStep, Zenon DEF ConnectFailed, TypeOK, Phase, Holder, Committed, Owner
<1>5. CASE Checkin(t)
  <2>1. active' \in Int /\ waiting' \in Int /\ drops' \in 0 .. MaxDrops
    BY <1>0, <1>5 DEF Checkin, TypeOK
  <2>2. t \in Holder /\ t \in Holder' /\ (t \in Committed' => t \in Committed)
        /\ (t \in Owner' => t \in Owner)
    BY <1>0, <1>5 DEF Checkin, TypeOK, Holder, Committed, Owner
  <2> QED  BY <1>5, <2>1, <2>2, HolderStep, Zenon DEF Checkin, Phase
<1>6. CASE Destroy(t)
  <2>1. active' \in Int /\ waiting' \in Int /\ drops' \in 0 .. MaxDrops
    BY <1>0, <1>6 DEF Destroy, TypeOK
  <2>2. t \in Holder /\ t \in Holder' /\ (t \in Committed' => t \in Committed)
        /\ (t \in Owner' => t \in Owner)
    BY <1>0, <1>6 DEF Destroy, TypeOK, Holder, Committed, Owner
  <2>3. t \notin Owner'
    BY <1>0, <1>6 DEF Destroy, TypeOK, Owner
  <2> QED  BY <1>6, <2>1, <2>2, <2>3, HolderStep, Zenon DEF Destroy, Phase
<1>7. CASE DropConn(t) /\ drops < MaxDrops /\ drops' = drops + 1
  <2>1. drops' \in 0 .. MaxDrops
    BY <1>0, <1>7, PoolAssumption DEF TypeOK
  <2> QED  BY <1>0, <1>7, <2>1, HolderStep, Zenon
             DEF DropConn, TypeOK, Phase, Holder, Committed, Owner
<1> QED  BY <1>1, <1>2, <1>3, <1>4, <1>5, <1>6, <1>7

(***************************************************************************)
(* A popping task leases or probes the connection it popped: the stack is  *)
(* one shorter, Committed one larger.                                      *)
(***************************************************************************)
LEMMA PopTakes ==
    ASSUME IInv, NEW t \in Task, NEW p \in {"probing", "leased"},
           phase[t] = "popping", idle # <<>>,
           idle' = SubSeq(idle, 1, Len(idle) - 1),
           phase' = [phase EXCEPT ![t] = p],
           held' = [held EXCEPT ![t] = idle[Len(idle)]],
           UNCHANGED <<avail, queue, waiting, drops>>, active' \in Int
    PROVE  IInv'
<1> USE DEF IInv
<1> DEFINE c == idle[Len(idle)]
<1>1. /\ idle' \in Seq(Conn) /\ Len(idle') = Len(idle) - 1 /\ Len(idle) \in Nat \ {0}
      /\ c \in Conn
      /\ \A i, j \in DOMAIN idle' : idle'[i] = idle'[j] => i = j
      /\ IdleConns' = IdleConns \ {c} /\ c \in IdleConns
  BY PopStep
<1> HIDE DEF c
<1>2. held' = [held EXCEPT ![t] = c]
  BY DEF c
<1>3. phase' \in [Task -> Phase] /\ QueueOK'
  BY LocalStep, Zenon DEF Phase
<1>4. TypeOK'
  BY <1>1, <1>2, <1>3 DEF TypeOK
<1>5. Holder' = Holder /\ Committed' = Committed \cup {t} /\ t \notin Committed
      /\ Owner' = Owner \cup {t}
  BY DEF TypeOK, Holder, Committed, Owner
<1>6. PermitsConserved'
  BY <1>5 DEF PermitsConserved
<1>7. SizeBound'
  <2>1. Cardinality(Committed') = Cardinality(Committed) + 1
    BY <1>5, TaskSets, FS_AddElement, Zenon
  <2> QED  BY <1>1, <2>1, TaskSets, PermitsType DEF SizeBound
<1>8. Exclusive'
  <2>1. \A u \in Owner : held[u] # c
    BY <1>1 DEF Exclusive
  <2>2. c \notin IdleConns' /\ IdleConns' \subseteq IdleConns
    BY <1>1
  <2> QED  BY <1>1, <1>2, <1>5, <2>1, <2>2, ExclusiveTake, Zenon
<1> QED  BY <1>3, <1>4, <1>6, <1>7, <1>8

\* The turns of checkout's loop that look at the stack.
LEMMA PopIInv ==
    ASSUME IInv, NEW t \in Task,
           PopExpired(t) \/ PopStale(t) \/ PopFresh(t) \/ PopEmpty(t)
    PROVE  IInv'
<1>0. TypeOK /\ QueueOK /\ PermitsConserved /\ SizeBound /\ Exclusive
  BY DEF IInv
<1>1. CASE PopExpired(t)
  <2>1. /\ idle # <<>> /\ idle' = SubSeq(idle, 1, Len(idle) - 1)
        /\ UNCHANGED <<phase, held, avail, queue, active, waiting, drops>>
    BY <1>1 DEF PopExpired
  <2>2. /\ idle' \in Seq(Conn) /\ Len(idle') = Len(idle) - 1 /\ Len(idle) \in Nat \ {0}
        /\ \A i, j \in DOMAIN idle' : idle'[i] = idle'[j] => i = j
        /\ IdleConns' = IdleConns \ {idle[Len(idle)]}
    BY <1>0, <2>1, PopStep
  <2>3. Holder' = Holder /\ Committed' = Committed /\ Owner' = Owner
    BY <2>1 DEF Holder, Committed, Owner
  <2>4. TypeOK' /\ QueueOK' /\ PermitsConserved'
    BY <1>0, <2>1, <2>2, <2>3 DEF TypeOK, QueueOK, NoIdlePermit, PermitsConserved
  <2>5. SizeBound'
    BY <1>0, <2>2, <2>3, TaskSets, PermitsType DEF SizeBound
  <2>6. Exclusive'
    <3>1. \A u \in Owner : held[u] \in Conn \ IdleConns'
      BY <1>0, <2>2 DEF Exclusive
    <3> QED  BY <1>0, <2>1, <2>2, <2>3, <3>1 DEF Exclusive
  <2> QED  BY <2>4, <2>5, <2>6 DEF IInv
<1>2. CASE PopStale(t)
  BY <1>0, <1>2, PopTakes, Zenon DEF PopStale, TypeOK
<1>3. CASE PopFresh(t)
  <2>1. active' \in Int
    BY <1>0, <1>3 DEF PopFresh, FinishCheckout, TypeOK
  <2> QED  BY <1>3, <2>1, PopTakes, Zenon DEF PopFresh, FinishCheckout
<1>4. CASE PopEmpty(t)
  <2>1. /\ phase[t] = "popping" /\ idle = <<>>
        /\ phase' = [phase EXCEPT ![t] = "connecting"]
        /\ UNCHANGED <<held, avail, queue, idle, active, waiting, drops>>
    BY <1>4 DEF PopEmpty
  <2>2. phase' \in [Task -> Phase] /\ QueueOK'
    BY <1>0, <2>1, LocalStep, Zenon DEF Phase
  <2>3. TypeOK'
    BY <1>0, <2>1, <2>2 DEF TypeOK
  <2>4. Holder' = Holder /\ Owner' = Owner
    BY <1>0, <2>1 DEF TypeOK, Holder, Owner
  <2>5. PermitsConserved' /\ Exclusive'
    BY <1>0, <2>1, <2>4, ExclusiveKept DEF PermitsConserved
  <2>6. SizeBound'
    <3>1. Committed' \subseteq Holder'
      BY <2>2 DEF Committed, Holder
    <3>2. Cardinality(Committed') <= Cardinality(Holder')
      BY <3>1, TaskSetsPrime, FS_Subset
    <3>3. Cardinality(Holder') <= Permits
      <4>1. avail' \in Nat /\ avail' + Cardinality(Holder') = Permits /\ Cardinality(Holder') \in Nat
        BY <2>3, <2>5, TaskSetsPrime, Zenon DEF TypeOK, PermitsConserved
      <4> QED  BY <4>1
    <3> QED  BY <2>1, <3>2, <3>3, TaskSetsPrime, PermitsType DEF SizeBound
  <2> QED  BY <2>2, <2>3, <2>5, <2>6 DEF IInv
<1> QED  BY <1>1, <1>2, <1>3, <1>4

\* A connection is opened under a committed permit; it is nobody else's.
LEMMA ConnectIInv ==
    ASSUME IInv, NEW t \in Task, NEW c \in Conn, ConnectOk(t, c)
    PROVE  IInv'
<1> USE DEF IInv
<1>1. /\ phase[t] = "connecting" /\ c \notin OpenConns
      /\ phase' = [phase EXCEPT ![t] = "leased"] /\ held' = [held EXCEPT ![t] = c]
      /\ active' = active + 1 /\ UNCHANGED <<avail, queue, idle, waiting, drops>>
  BY DEF ConnectOk, FinishCheckout
<1>2. phase' \in [Task -> Phase] /\ QueueOK'
  BY <1>1, LocalStep, Zenon DEF Phase
<1>3. TypeOK'
  BY <1>1, <1>2 DEF TypeOK
<1>4. Holder' = Holder /\ Committed' = Committed /\ Owner' = Owner \cup {t}
  BY <1>1 DEF TypeOK, Holder, Committed, Owner
<1>5. PermitsConserved' /\ SizeBound'
  BY <1>1, <1>4 DEF PermitsConserved, SizeBound
<1>6. Exclusive'
  <2>1. IdleConns' = IdleConns
    BY <1>1 DEF IdleConns
  <2>2. c \notin IdleConns /\ \A u \in Owner : held[u] # c
    BY <1>1 DEF OpenConns
  <2>3. \A i, j \in DOMAIN idle' : idle'[i] = idle'[j] => i = j
    BY <1>1 DEF Exclusive
  <2> QED  BY <1>1, <1>4, <2>1, <2>2, <2>3, ExclusiveTake, Zenon
<1> QED  BY <1>2, <1>3, <1>5, <1>6

\* The stack after a push of a connection that is not on it.
LEMMA ParkStep ==
    ASSUME TypeOK, Exclusive, NEW c \in Conn \ IdleConns, idle' = Append(idle, c)
    PROVE  /\ idle' \in Seq(Conn) /\ Len(idle') = Len(idle) + 1 /\ Len(idle) \in Nat
           /\ \A i, j \in DOMAIN idle' : idle'[i] = idle'[j] => i = j
           /\ IdleConns' = IdleConns \cup {c}
<1> DEFINE r == Append(idle, c)
<1>1. /\ r \in Seq(Conn) /\ Len(r) = Len(idle) + 1 /\ Len(idle) \in Nat
      /\ \A i, j \in DOMAIN r : r[i] = r[j] => i = j
      /\ {r[i] : i \in DOMAIN r} = {idle[i] : i \in DOMAIN idle} \cup {c}
  <2>1. /\ idle \in Seq(Conn) /\ \A i, j \in DOMAIN idle : idle[i] = idle[j] => i = j
        /\ c \notin {idle[i] : i \in DOMAIN idle}
    BY DEF TypeOK, Exclusive, IdleConns
  <2> QED  BY <2>1, AppendOK
<1>2. idle' = r
  OBVIOUS
<1> HIDE DEF r
<1>3. IdleConns' = {idle'[i] : i \in DOMAIN idle'}
  BY DEF IdleConns
<1>4. IdleConns' = IdleConns \cup {c}
  BY <1>1, <1>2, <1>3, Zenon DEF IdleConns
<1> QED  BY <1>1, <1>2, <1>4

\* checkin parks the connection while it still owns the permit.
LEMMA ParkIInv ==
    ASSUME IInv, NEW t \in Task, Park(t)
    PROVE  IInv'
<1> USE DEF IInv
<1>1. /\ phase[t] = "returning" /\ idle' = Append(idle, held[t])
      /\ held' = [held EXCEPT ![t] = NoConn] /\ phase' = [phase EXCEPT ![t] = "releasing"]
      /\ UNCHANGED <<avail, queue, active, waiting, drops>>
  BY DEF Park
<1>2. t \in Owner /\ held[t] \in Conn \ IdleConns
  BY <1>1 DEF Owner, Exclusive
<1>3. /\ idle' \in Seq(Conn) /\ Len(idle') = Len(idle) + 1 /\ Len(idle) \in Nat
      /\ \A i, j \in DOMAIN idle' : idle'[i] = idle'[j] => i = j
      /\ IdleConns' = IdleConns \cup {held[t]}
  BY <1>1, <1>2, ParkStep
<1>6. phase' \in [Task -> Phase] /\ QueueOK'
  BY <1>1, LocalStep, Zenon DEF Phase
<1>7. TypeOK'
  BY <1>1, <1>3, <1>6 DEF TypeOK
<1>8. Holder' = Holder /\ Committed' = Committed \ {t} /\ t \in Committed
      /\ Owner' = Owner \ {t}
  BY <1>1 DEF TypeOK, Holder, Committed, Owner
<1>9. PermitsConserved'
  BY <1>1, <1>8 DEF PermitsConserved
<1>10. SizeBound'
  <2>1. Cardinality(Committed') = Cardinality(Committed) - 1
    BY <1>8, TaskSets, FS_RemoveElement, Zenon
  <2> QED  BY <1>3, <2>1, TaskSets, PermitsType DEF SizeBound
<1>11. Exclusive'
  <2>1. \A u \in Owner' : u \in Owner /\ u # t /\ held'[u] = held[u]
    BY <1>1, <1>8 DEF TypeOK, Owner
  <2>2. \A u \in Owner' : held'[u] \in Conn \ IdleConns'
    BY <1>2, <1>3, <2>1 DEF Exclusive
  <2>3. \A u, v \in Owner' : held'[u] = held'[v] => u = v
    BY <2>1 DEF Exclusive
  <2> QED  BY <1>3, <2>2, <2>3 DEF Exclusive
<1> QED  BY <1>6, <1>7, <1>9, <1>10, <1>11

\* A permit is released: by a finished return, or by a dropped future.
LEMMA ReleaseIInv ==
    ASSUME IInv, NEW t \in Task, NEW p \in {"out", "closing"},
           t \in Holder, p = "closing" => phase[t] = "returning",
           ReleasePermit([phase EXCEPT ![t] = p]),
           UNCHANGED <<held, idle, active, waiting>>, drops' \in 0 .. MaxDrops
    PROVE  IInv'
<1> USE DEF IInv
<1>1. /\ phase' \in [Task -> Phase] /\ avail' \in Nat /\ queue' \in Seq(Task)
      /\ QueueOK' /\ avail' + Cardinality(Holder') = avail + Cardinality(Holder)
      /\ phase'[t] = p
      /\ \A u \in Task \ {t} : phase'[u] = phase[u]
               \/ (phase[u] = "queued" /\ phase'[u] = "granted")
  BY ReleaseStep, Zenon
<1>2. TypeOK'
  BY <1>1 DEF TypeOK
<1>3. PermitsConserved'
  BY <1>1 DEF PermitsConserved
<1>4. SizeBound'
  <2>1. Cardinality(Committed') <= Cardinality(Committed)
    BY ReleaseCommitted, Zenon
  <2>2. Len(idle) \in Nat
    BY LenProperties DEF TypeOK
  <2> QED  BY <2>1, <2>2, TaskSets, TaskSetsPrime, PermitsType DEF SizeBound
<1>5. \A u \in Owner' : u \in Owner /\ held'[u] = held[u]
  BY <1>1 DEF Owner
<1>6. Exclusive'
  BY <1>5, ExclusiveKept
<1> QED  BY <1>1, <1>2, <1>3, <1>4, <1>6

\* A dropped waiter leaves the queue; the permits are untouched.
LEMMA DropQueuedIInv ==
    ASSUME IInv, NEW t \in Task, DropQueued(t), drops' \in 0 .. MaxDrops
    PROVE  IInv'
<1> USE DEF IInv
<1>1. PICK k \in DOMAIN queue : queue[k] = t /\ queue' = Without(queue, k)
  BY DEF DropQueued
<1>2. /\ phase[t] = "queued" /\ phase' = [phase EXCEPT ![t] = "out"]
      /\ UNCHANGED <<held, avail, idle, active, waiting>>
  BY DEF DropQueued
<1>3. /\ queue' \in Seq(Task)
      /\ \A i, j \in DOMAIN queue' : queue'[i] = queue'[j] => i = j
      /\ \A x : (\E i \in DOMAIN queue' : queue'[i] = x)
                  <=> (x # t /\ \E i \in DOMAIN queue : queue[i] = x)
  <2>1. queue \in Seq(Task) /\ \A i, j \in DOMAIN queue : queue[i] = queue[j] => i = j
    BY DEF TypeOK, QueueOK
  <2>2. /\ Without(queue, k) \in Seq(Task)
        /\ \A i, j \in DOMAIN Without(queue, k) :
               Without(queue, k)[i] = Without(queue, k)[j] => i = j
        /\ \A x : (\E i \in DOMAIN Without(queue, k) : Without(queue, k)[i] = x)
                    <=> (x # queue[k] /\ \E i \in DOMAIN queue : queue[i] = x)
    BY <2>1, RemoveOK, Zenon
  <2> QED  BY <1>1, <2>2
<1>4. TypeOK'
  BY <1>2, <1>3 DEF TypeOK, Phase
<1>5. QueueOK'
  <2>1. queue # <<>>
    BY <1>1
  <2>2. avail' = 0
    BY <1>2, <2>1 DEF QueueOK, NoIdlePermit
  <2>3. ASSUME NEW u \in Task
        PROVE phase'[u] = "queued" <=> \E i \in DOMAIN queue' : queue'[i] = u
    <3>1. phase'[u] = "queued" <=> (u # t /\ phase[u] = "queued")
      BY <1>2 DEF TypeOK
    <3>2. phase[u] = "queued" <=> \E i \in DOMAIN queue : queue[i] = u
      BY DEF QueueOK, NoIdlePermit
    <3> QED  BY <1>3, <3>1, <3>2, Zenon
  <2> QED  BY <1>3, <2>2, <2>3 DEF QueueOK, NoIdlePermit
<1>6. Holder' = Holder /\ Committed' = Committed /\ Owner' = Owner
  BY <1>2 DEF TypeOK, Holder, Committed, Owner
<1>7. PermitsConserved' /\ SizeBound' /\ Exclusive'
  BY <1>2, <1>6, ExclusiveKept DEF PermitsConserved, SizeBound
<1> QED  BY <1>4, <1>5, <1>7

\* The connection whose permit is gone already is closed.
LEMMA CloseIInv ==
    ASSUME IInv, NEW t \in Task, CloseConn(t)
    PROVE  IInv'
<1> USE DEF IInv
<1>1. /\ phase[t] = "closing" /\ phase' = [phase EXCEPT ![t] = "out"]
      /\ held' = [held EXCEPT ![t] = NoConn]
      /\ UNCHANGED <<avail, queue, idle, active, waiting, drops>>
  BY DEF CloseConn
<1>2. phase' \in [Task -> Phase] /\ QueueOK'
  BY <1>1, LocalStep, Zenon DEF Phase
<1>3. TypeOK'
  BY <1>1, <1>2 DEF TypeOK
<1>4. Holder' = Holder /\ Committed' = Committed /\ Owner' = Owner \ {t}
  BY <1>1 DEF TypeOK, Holder, Committed, Owner
<1>5. \A u \in Owner' : u \in Owner /\ held'[u] = held[u]
  BY <1>1, <1>4 DEF TypeOK, Owner
<1>6. PermitsConserved' /\ SizeBound' /\ Exclusive'
  BY <1>1, <1>4, <1>5, ExclusiveKept DEF PermitsConserved, SizeBound
<1> QED  BY <1>2, <1>3, <1>6

\* The sweeper closes parked connections and keeps the order of the others.
LEMMA SweepIInv ==
    ASSUME IInv, NEW tooOld \in SUBSET DOMAIN idle, Sweep(tooOld)
    PROVE  IInv'
<1> USE DEF IInv
<1> DEFINE n == Len(idle) - Cardinality(tooOld)
<1>1. PICK kept \in [1 .. n -> DOMAIN idle \ tooOld] :
          /\ \A i, j \in DOMAIN kept : i < j => kept[i] < kept[j]
          /\ idle' = [i \in DOMAIN kept |-> idle[kept[i]]]
  BY Zenon DEF Sweep
<1>2. /\ Len(idle) \in Nat /\ DOMAIN idle = 1 .. Len(idle)
      /\ \A i \in 1 .. Len(idle) : idle[i] \in Conn
  BY LenProperties, ElementOfSeq DEF TypeOK
<1>3. n \in Nat /\ n <= Len(idle)
  <2>1. IsFiniteSet(1 .. Len(idle)) /\ Cardinality(1 .. Len(idle)) = Len(idle)
    BY <1>2, FS_Interval
  <2>2. Cardinality(tooOld) \in Nat /\ Cardinality(tooOld) <= Len(idle)
    BY <1>2, <2>1, FS_Subset, FS_CardinalityType
  <2> QED  BY <1>2, <2>2
<1> HIDE DEF n
<1>4. idle' \in [1 .. n -> Conn]
  BY <1>1, <1>2
<1>5. idle' \in Seq(Conn) /\ Len(idle') = n /\ DOMAIN idle' = 1 .. n
  BY <1>3, <1>4, SeqDef
<1>6. \A i \in 1 .. n : kept[i] \in DOMAIN idle /\ idle'[i] = idle[kept[i]]
  BY <1>1
<1>7. \A i, j \in 1 .. n : kept[i] = kept[j] => i = j
  <2> SUFFICES ASSUME NEW i \in 1 .. n, NEW j \in 1 .. n, kept[i] = kept[j], i # j
               PROVE FALSE
    OBVIOUS
  <2>1. i < j \/ j < i
    BY <1>3
  <2>2. DOMAIN kept = 1 .. n /\ kept[i] \in Nat
    BY <1>1, <1>2
  <2> QED  BY <1>1, <2>1, <2>2
<1>8. \A i, j \in DOMAIN idle' : idle'[i] = idle'[j] => i = j
  BY <1>5, <1>6, <1>7 DEF Exclusive
<1>9. IdleConns' \subseteq IdleConns
  <2>1. IdleConns' = {idle'[i] : i \in DOMAIN idle'}
    BY DEF IdleConns
  <2> QED  BY <1>5, <1>6, <2>1 DEF IdleConns
<1>10. UNCHANGED <<phase, held, avail, queue, active, waiting, drops>>
  BY DEF Sweep
<1>11. Holder' = Holder /\ Committed' = Committed /\ Owner' = Owner
  BY <1>10 DEF Holder, Committed, Owner
<1>12. TypeOK' /\ QueueOK' /\ PermitsConserved'
  BY <1>5, <1>10, <1>11 DEF TypeOK, QueueOK, NoIdlePermit, PermitsConserved
<1>13. SizeBound'
  BY <1>2, <1>3, <1>5, <1>11, TaskSets, PermitsType DEF SizeBound
<1>14. Exclusive'
  <2>1. \A u \in Owner : held[u] \in Conn \ IdleConns'
    BY <1>9 DEF Exclusive
  <2> QED  BY <1>8, <1>10, <1>11, <2>1 DEF Exclusive
<1> QED  BY <1>12, <1>13, <1>14

\* A dropped future, whatever it was doing.
LEMMA DropIInv ==
    ASSUME IInv, NEW t \in Task, Drop(t)
    PROVE  IInv'
<1>1. TypeOK /\ drops < MaxDrops /\ drops' = drops + 1
  BY DEF IInv, Drop
<1>2. drops' \in 0 .. MaxDrops
  BY <1>1, PoolAssumption DEF TypeOK
<1>3. CASE DropQueued(t)
  BY <1>2, <1>3, DropQueuedIInv
<1>4. CASE DropPermit(t)
  BY <1>2, <1>4, ReleaseIInv, Zenon DEF DropPermit, Holder
<1>5. CASE DropConn(t)
  BY <1>1, <1>5, HolderIInv
<1>6. CASE DropReturning(t)
  BY <1>2, <1>6, ReleaseIInv, ZenonT(30) DEF DropReturning, Holder
<1> QED  BY <1>3, <1>4, <1>5, <1>6 DEF Drop

\* Every step of the pool keeps the inductive invariant.
LEMMA NextIInv == IInv /\ [Next]_vars => IInv'
<1> SUFFICES ASSUME IInv, [Next]_vars PROVE IInv'
  OBVIOUS
<1>1. ASSUME NEW t \in Task, Checkout(t) PROVE IInv'
  BY <1>1, CheckoutIInv
<1>2. ASSUME NEW t \in Task, CheckoutStep(t) PROVE IInv'
  BY <1>2, HolderIInv, PopIInv, ConnectIInv DEF CheckoutStep
<1>3. ASSUME NEW t \in Task, Checkin(t) \/ Destroy(t) PROVE IInv'
  BY <1>3, HolderIInv
<1>4. ASSUME NEW t \in Task, ReturnStep(t) PROVE IInv'
  <2>0. drops \in 0 .. MaxDrops
    BY DEF IInv, TypeOK
  <2>1. CASE Discard(t)
    BY <2>0, <2>1, ReleaseIInv, Zenon DEF Discard, Holder
  <2>2. CASE Release(t)
    BY <2>0, <2>2, ReleaseIInv, Zenon DEF Release, Holder
  <2> QED  BY <1>4, <2>1, <2>2, ParkIInv, CloseIInv DEF ReturnStep
<1>5. ASSUME NEW t \in Task, Drop(t) PROVE IInv'
  BY <1>5, DropIInv
<1>6. ASSUME NEW tooOld \in SUBSET DOMAIN idle, Sweep(tooOld) PROVE IInv'
  BY <1>6, SweepIInv
<1>7. CASE UNCHANGED vars
  <2>1. Holder' = Holder /\ Committed' = Committed /\ Owner' = Owner
        /\ IdleConns' = IdleConns
    BY <1>7 DEF vars, Holder, Committed, Owner, IdleConns
  <2> QED  BY <1>7, <2>1 DEF vars, IInv, TypeOK, QueueOK, NoIdlePermit,
                             PermitsConserved, SizeBound, Exclusive
<1> QED  BY <1>1, <1>2, <1>3, <1>4, <1>5, <1>6, <1>7 DEF Next

(***************************************************************************)
(* The inductive invariant holds in every reachable state of the pool, for *)
(* every max_size, set of tasks and set of connections.                    *)
(***************************************************************************)
THEOREM PoolInductive == Spec => []IInv
BY InitIInv, NextIInv, PTL DEF Spec

(***************************************************************************)
(* pool.rs keeps its state well formed: in particular the semaphore's      *)
(* counter never goes below zero.                                          *)
(***************************************************************************)
THEOREM PoolTypes == Spec => []TypeOK
<1>1. IInv => TypeOK
  BY DEF IInv
<1> QED  BY <1>1, PoolInductive, PTL

(***************************************************************************)
(* No permit is lost or duplicated by an error path, a timeout or a        *)
(* dropped future (checkout, checkin, checkin_detached, destroy).          *)
(***************************************************************************)
THEOREM PermitsAreConserved == Spec => []PermitsConserved
<1>1. IInv => PermitsConserved
  BY DEF IInv
<1> QED  BY <1>1, PoolInductive, PTL

(***************************************************************************)
(* PoolConfig.max_size bounds idle and checked-out connections together,   *)
(* although the idle stack and the semaphore are two separate locks.       *)
(***************************************************************************)
THEOREM PoolIsBounded == Spec => []SizeBound
<1>1. IInv => SizeBound
  BY DEF IInv
<1> QED  BY <1>1, PoolInductive, PTL

(***************************************************************************)
(* No connection is leased to two tasks, or leased while it is parked.     *)
(***************************************************************************)
THEOREM LeasesAreExclusive == Spec => []Exclusive
<1>1. IInv => Exclusive
  BY DEF IInv
<1> QED  BY <1>1, PoolInductive, PTL

(***************************************************************************)
(* No task waits in checkout while the semaphore has a permit.             *)
(***************************************************************************)
THEOREM NoPermitIdles == Spec => []NoIdlePermit
<1>1. IInv => NoIdlePermit
  BY DEF IInv, QueueOK
<1> QED  BY <1>1, PoolInductive, PTL
=============================================================================
