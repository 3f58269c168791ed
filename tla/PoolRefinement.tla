--------------------------- MODULE PoolRefinement ---------------------------
(***************************************************************************)
(* The pool implements PoolAbs, for every value of the constants: every    *)
(* step of the semaphore, the stack, the sweeper and the tasks is one step *)
(* of the abstract pool, or changes nothing its users can see.             *)
(***************************************************************************)
EXTENDS PoolProofs

\* A leaf that names no prover is tried by SMT, by Zenon, and by SMT again.
USE SMTT(60), ZenonT(30), SMTT(60)

\* What the abstract owner of each task is.
LEMMA AbsOwnerAt ==
    ASSUME TypeOK
    PROVE  /\ DOMAIN AbsOwner = Task
           /\ \A t \in Task :
                 /\ phase[t] = "connecting" => AbsOwner[t] = Opening
                 /\ phase[t] \in {"probing", "leased", "returning"}
                       => AbsOwner[t] = held[t]
                 /\ phase[t] \notin {"connecting", "probing", "leased", "returning"}
                       => AbsOwner[t] = NoConn
BY DEF AbsOwner, Committed

\* The same for the next state.
LEMMA AbsOwnerAtPrime ==
    ASSUME TypeOK'
    PROVE  /\ DOMAIN AbsOwner' = Task
           /\ \A t \in Task :
                 /\ phase'[t] = "connecting" => AbsOwner'[t] = Opening
                 /\ phase'[t] \in {"probing", "leased", "returning"}
                       => AbsOwner'[t] = held'[t]
                 /\ phase'[t] \notin {"connecting", "probing", "leased", "returning"}
                       => AbsOwner'[t] = NoConn
BY DEF AbsOwner, Committed

\* A step of one task changes one abstract owner at most.
LEMMA OwnerStep ==
    ASSUME TypeOK, TypeOK', NEW t \in Task,
           \A u \in Task \ {t} :
              /\ held'[u] = held[u]
              /\ phase'[u] = phase[u] \/ (phase[u] = "queued" /\ phase'[u] = "granted")
    PROVE  AbsOwner' = [AbsOwner EXCEPT ![t] = AbsOwner'[t]]
<1>1. \A u \in Task \ {t} : AbsOwner'[u] = AbsOwner[u]
  BY DEF AbsOwner, Committed
<1>2. AbsOwner = [u \in Task |-> AbsOwner[u]] /\ AbsOwner' = [u \in Task |-> AbsOwner'[u]]
  BY DEF AbsOwner
<1> QED  BY <1>1, <1>2

\* The tasks that use a connection in PoolAbs are those Committed here.
LEMMA UsingIsCommitted ==
    ASSUME IInv
    PROVE  Abs!Using = Committed
<1>1. \A t \in Owner : held[t] # NoConn
  BY PoolAssumption DEF IInv, Exclusive
<1>2. Opening # NoConn
  BY PoolAssumption
<1>3. \A t \in Task : AbsOwner[t] # NoConn <=> t \in Committed
  BY <1>1, <1>2 DEF AbsOwner, Committed, Owner
<1> QED  BY <1>3 DEF Abs!Using, Committed

\* A step that leaves every abstract owner and the stack alone is a stutter.
LEMMA Stutter ==
    ASSUME TypeOK, TypeOK', idle' = idle,
           \A u \in Task : AbsOwner'[u] = AbsOwner[u]
    PROVE  UNCHANGED <<IdleConns, AbsOwner>>
<1>1. AbsOwner = [u \in Task |-> AbsOwner[u]] /\ AbsOwner' = [u \in Task |-> AbsOwner'[u]]
  BY DEF AbsOwner
<1>2. IdleConns' = IdleConns
  BY DEF IdleConns
<1> QED  BY <1>1, <1>2

\* The initial states of the pool are initial states of PoolAbs.
LEMMA InitRefines == Init => Abs!Init
BY DEF Init, Abs!Init, IdleConns, AbsOwner, Committed

-----------------------------------------------------------------------------
(***************************************************************************)
(* The steps.  AbsStep is what each must be.                               *)
(***************************************************************************)
AbsStep == [Abs!Next]_<<IdleConns, AbsOwner>>

\* The steps of one task that its user does not see.
LEMMA HiddenRefines ==
    ASSUME IInv, IInv', NEW t \in Task,
           \/ Checkout(t) \/ Acquired(t) \/ ProbeOk(t) \/ Checkin(t)
           \/ CloseConn(t) \/ DropQueued(t)
    PROVE  AbsStep
<1>0. TypeOK /\ TypeOK'
  BY DEF IInv
<1>1. idle' = idle /\ \A u \in Task \ {t} : phase'[u] = phase[u] /\ held'[u] = held[u]
  BY <1>0 DEF TypeOK, Checkout, Acquired, ProbeOk, FinishCheckout, Checkin,
              CloseConn, DropQueued
<1>2. \/ /\ phase[t] \in {"probing", "leased", "returning"}
         /\ phase'[t] \in {"probing", "leased", "returning"}
         /\ held'[t] = held[t]
      \/ /\ phase[t] \notin {"connecting", "probing", "leased", "returning"}
         /\ phase'[t] \notin {"connecting", "probing", "leased", "returning"}
  BY <1>0 DEF TypeOK, Checkout, Acquired, ProbeOk, FinishCheckout, Checkin,
              CloseConn, DropQueued
<1>3. AbsOwner'[t] = AbsOwner[t]
  BY <1>0, <1>2, AbsOwnerAt, AbsOwnerAtPrime
<1>4. \A u \in Task : AbsOwner'[u] = AbsOwner[u]
  BY <1>1, <1>3 DEF AbsOwner, Committed
<1> QED  BY <1>0, <1>1, <1>4, Stutter DEF AbsStep

\* A connection is closed, not opened, or its permit released: GiveUp.
LEMMA GiveUpRefines ==
    ASSUME IInv, IInv', NEW t \in Task, idle' = idle,
           t \in Committed, phase'[t] \in {"out", "popping", "releasing", "closing"},
           \A u \in Task \ {t} :
              /\ held'[u] = held[u]
              /\ phase'[u] = phase[u] \/ (phase[u] = "queued" /\ phase'[u] = "granted")
    PROVE  AbsStep
<1>0. TypeOK /\ TypeOK'
  BY DEF IInv
<1>1. AbsOwner' = [AbsOwner EXCEPT ![t] = AbsOwner'[t]]
  BY <1>0, OwnerStep
<1>2. AbsOwner'[t] = NoConn
  BY <1>0, AbsOwnerAtPrime
<1>3. AbsOwner[t] # NoConn
  BY UsingIsCommitted DEF Abs!Using
<1>4. IdleConns' = IdleConns
  BY DEF IdleConns
<1>5. Abs!GiveUp(t)
  BY <1>1, <1>2, <1>3, <1>4 DEF Abs!GiveUp
<1> QED  BY <1>5 DEF AbsStep, Abs!Next

\* A permit is released by a task that has no connection: nothing is seen.
LEMMA ReleaseRefines ==
    ASSUME IInv, IInv', NEW t \in Task, idle' = idle, held' = held,
           phase[t] \in {"granted", "releasing"}, phase'[t] = "out",
           \A u \in Task \ {t} :
              phase'[u] = phase[u] \/ (phase[u] = "queued" /\ phase'[u] = "granted")
    PROVE  AbsStep
<1>0. TypeOK /\ TypeOK'
  BY DEF IInv
<1>1. \A u \in Task : AbsOwner'[u] = AbsOwner[u]
  BY <1>0 DEF AbsOwner, Committed
<1> QED  BY <1>0, <1>1, Stutter DEF AbsStep

\* A parked connection is leased or probed: Reuse.
LEMMA ReuseRefines ==
    ASSUME IInv, IInv', NEW t \in Task, PopStale(t) \/ PopFresh(t)
    PROVE  AbsStep
<1>0. TypeOK /\ TypeOK' /\ Exclusive
  BY DEF IInv
<1> DEFINE c == idle[Len(idle)]
<1>1. /\ phase[t] = "popping" /\ phase'[t] \in {"probing", "leased"} /\ held'[t] = c
      /\ idle # <<>> /\ idle' = SubSeq(idle, 1, Len(idle) - 1)
      /\ \A u \in Task \ {t} : phase'[u] = phase[u] /\ held'[u] = held[u]
  BY <1>0 DEF TypeOK, PopStale, PopFresh, FinishCheckout
<1>2. c \in Conn /\ c \in IdleConns /\ IdleConns' = IdleConns \ {c}
  BY <1>0, <1>1, PopStep
<1> HIDE DEF c
<1>3. AbsOwner' = [AbsOwner EXCEPT ![t] = AbsOwner'[t]]
  BY <1>0, <1>1, OwnerStep
<1>4. AbsOwner[t] = NoConn /\ AbsOwner'[t] = c
  BY <1>0, <1>1, AbsOwnerAt, AbsOwnerAtPrime
<1>5. Abs!Reuse(t, c)
  BY <1>2, <1>3, <1>4 DEF Abs!Reuse
<1> QED  BY <1>2, <1>5 DEF AbsStep, Abs!Next

\* PoolAbs counts with the same operator.
LEMMA SameCardinality == \A S : Abs!Cardinality(S) = Cardinality(S)
BY Zenon DEF Abs!Cardinality, Cardinality

\* The factory is called: Open, with nothing parked and room for one more.
LEMMA OpenRefines ==
    ASSUME IInv, IInv', NEW t \in Task, PopEmpty(t)
    PROVE  AbsStep
<1>0. TypeOK /\ TypeOK' /\ PermitsConserved
  BY DEF IInv
<1>1. /\ phase[t] = "popping" /\ phase'[t] = "connecting" /\ idle = <<>> /\ idle' = idle
      /\ \A u \in Task \ {t} : phase'[u] = phase[u] /\ held'[u] = held[u]
  BY <1>0 DEF TypeOK, PopEmpty
<1>2. IdleConns = {} /\ IdleConns' = IdleConns
  <2>1. Len(idle) = 0 /\ DOMAIN idle = {}
    BY <1>1
  <2>2. IdleConns = {}
    BY <2>1 DEF IdleConns
  <2>3. IdleConns' = IdleConns
    BY <1>1 DEF IdleConns
  <2> QED  BY <2>2, <2>3
<1>3. AbsOwner' = [AbsOwner EXCEPT ![t] = AbsOwner'[t]]
  BY <1>0, <1>1, OwnerStep
<1>4. AbsOwner[t] = NoConn /\ AbsOwner'[t] = Opening
  BY <1>0, <1>1, AbsOwnerAt, AbsOwnerAtPrime
<1>5. Cardinality(Abs!Using) < Permits
  <2>1. t \in Holder /\ Committed \subseteq Holder \ {t}
    BY <1>1 DEF Holder, Committed
  <2>2. IsFiniteSet(Holder \ {t}) /\ Cardinality(Holder \ {t}) = Cardinality(Holder) - 1
    BY <2>1, TaskSets, FS_RemoveElement
  <2>3. Cardinality(Committed) <= Cardinality(Holder) - 1
    BY <2>1, <2>2, FS_Subset
  <2>4. Cardinality(Holder) <= Permits
    BY <1>0, TaskSets, PermitsType DEF PermitsConserved, TypeOK
  <2> QED  BY <2>3, <2>4, TaskSets, PermitsType, UsingIsCommitted
<1>6. Abs!Open(t)
  BY <1>2, <1>3, <1>4, <1>5, SameCardinality DEF Abs!Open
<1> QED  BY <1>6 DEF AbsStep, Abs!Next

\* The connection is there: Opened.
LEMMA OpenedRefines ==
    ASSUME IInv, IInv', NEW t \in Task, NEW c \in Conn, ConnectOk(t, c)
    PROVE  AbsStep
<1>0. TypeOK /\ TypeOK'
  BY DEF IInv
<1>1. /\ phase[t] = "connecting" /\ phase'[t] = "leased" /\ held'[t] = c
      /\ c \notin OpenConns /\ idle' = idle
      /\ \A u \in Task \ {t} : phase'[u] = phase[u] /\ held'[u] = held[u]
  BY <1>0 DEF TypeOK, ConnectOk, FinishCheckout
<1>2. c \notin IdleConns /\ IdleConns' = IdleConns /\ \A u \in Owner : held[u] # c
  BY <1>1 DEF OpenConns, IdleConns
<1>3. c # Opening /\ c # NoConn
  BY PoolAssumption
<1>4. \A u \in Task : AbsOwner[u] # c
  BY <1>2, <1>3 DEF AbsOwner, Committed, Owner
<1>5. AbsOwner' = [AbsOwner EXCEPT ![t] = AbsOwner'[t]]
  BY <1>0, <1>1, OwnerStep
<1>6. AbsOwner[t] = Opening /\ AbsOwner'[t] = c
  BY <1>0, <1>1, AbsOwnerAt, AbsOwnerAtPrime
<1>7. Abs!Opened(t, c)
  BY <1>2, <1>4, <1>5, <1>6 DEF Abs!Opened
<1> QED  BY <1>7 DEF AbsStep, Abs!Next

\* checkin parks: GiveBack.
LEMMA GiveBackRefines ==
    ASSUME IInv, IInv', NEW t \in Task, Park(t)
    PROVE  AbsStep
<1>0. TypeOK /\ TypeOK' /\ Exclusive
  BY DEF IInv
<1>1. /\ phase[t] = "returning" /\ phase'[t] = "releasing"
      /\ idle' = Append(idle, held[t])
      /\ \A u \in Task \ {t} : phase'[u] = phase[u] /\ held'[u] = held[u]
  BY <1>0 DEF TypeOK, Park
<1>2. held[t] \in Conn \ IdleConns
  BY <1>0, <1>1 DEF Exclusive, Owner
<1>3. IdleConns' = IdleConns \cup {held[t]}
  BY <1>0, <1>1, <1>2, ParkStep
<1>4. AbsOwner' = [AbsOwner EXCEPT ![t] = AbsOwner'[t]]
  BY <1>0, <1>1, OwnerStep
<1>5. AbsOwner[t] = held[t] /\ AbsOwner'[t] = NoConn
  BY <1>0, <1>1, AbsOwnerAt, AbsOwnerAtPrime
<1>6. Abs!GiveBack(t)
  BY <1>2, <1>3, <1>4, <1>5 DEF Abs!GiveBack
<1> QED  BY <1>6 DEF AbsStep, Abs!Next

\* Parked connections disappear: Evict.
LEMMA EvictRefines ==
    ASSUME IdleConns' \subseteq IdleConns, AbsOwner' = AbsOwner
    PROVE  AbsStep
<1> DEFINE gone == IdleConns \ IdleConns'
<1>1. gone \in SUBSET IdleConns /\ IdleConns' = IdleConns \ gone
  OBVIOUS
<1>2. Abs!Evict(gone)
  BY <1>1 DEF Abs!Evict
<1> QED  BY <1>1, <1>2 DEF AbsStep, Abs!Next

\* The sweeper only takes connections off the stack.
LEMMA SweepRefines ==
    ASSUME NEW tooOld \in SUBSET DOMAIN idle, Sweep(tooOld)
    PROVE  AbsStep
<1>1. PICK kept \in [1 .. (Len(idle) - Cardinality(tooOld)) -> DOMAIN idle \ tooOld] :
          idle' = [i \in DOMAIN kept |-> idle[kept[i]]]
  BY Zenon DEF Sweep
<1>2. \A i \in DOMAIN idle' : idle'[i] \in IdleConns
  <2> SUFFICES ASSUME NEW i \in DOMAIN idle' PROVE idle'[i] \in IdleConns
    OBVIOUS
  <2>1. i \in DOMAIN kept /\ idle'[i] = idle[kept[i]] /\ kept[i] \in DOMAIN idle
    BY <1>1
  <2> QED  BY <2>1 DEF IdleConns
<1>3. IdleConns' = {idle'[i] : i \in DOMAIN idle'}
  BY DEF IdleConns
<1>4. IdleConns' \subseteq IdleConns
  BY <1>2, <1>3
<1>5. AbsOwner' = AbsOwner
  BY DEF Sweep, AbsOwner, Committed
<1> QED  BY <1>4, <1>5, EvictRefines

\* An expired connection is popped and closed.
LEMMA ExpiredRefines ==
    ASSUME IInv, NEW t \in Task, PopExpired(t)
    PROVE  AbsStep
<1>1. TypeOK /\ Exclusive /\ idle # <<>> /\ idle' = SubSeq(idle, 1, Len(idle) - 1)
  BY DEF IInv, PopExpired
<1>2. IdleConns' \subseteq IdleConns
  <2>1. IdleConns' = IdleConns \ {idle[Len(idle)]}
    BY <1>1, PopStep
  <2> QED  BY <2>1
<1>3. AbsOwner' = AbsOwner
  BY DEF PopExpired, AbsOwner, Committed
<1> QED  BY <1>2, <1>3, EvictRefines

\* The steps that give a connection up, or only a permit.
LEMMA ReturnRefines ==
    ASSUME IInv, IInv', NEW t \in Task,
           \/ ProbeFailed(t) \/ ConnectFailed(t) \/ Destroy(t) \/ DropConn(t)
           \/ Discard(t) \/ DropReturning(t) \/ DropPermit(t) \/ Release(t)
    PROVE  AbsStep
<1>0. TypeOK /\ QueueOK
  BY DEF IInv
<1>1. CASE ProbeFailed(t) \/ ConnectFailed(t) \/ Destroy(t) \/ DropConn(t)
  <2>1. /\ idle' = idle /\ phase[t] \in {"probing", "connecting", "leased"}
        /\ phase'[t] \in {"popping", "releasing"}
        /\ \A u \in Task \ {t} : phase'[u] = phase[u] /\ held'[u] = held[u]
    BY <1>0, <1>1 DEF TypeOK, ProbeFailed, ConnectFailed, Destroy, DropConn
  <2>2. t \in Committed
    BY <2>1 DEF Committed
  <2> QED  BY <2>1, <2>2, GiveUpRefines
<1>2. CASE Discard(t) \/ DropReturning(t) \/ DropPermit(t) \/ Release(t)
  <2>1. PICK p \in {"out", "closing"} :
            /\ ReleasePermit([phase EXCEPT ![t] = p])
            /\ held' = held /\ idle' = idle
            /\ phase[t] \in {"granted", "connecting", "returning", "releasing"}
            /\ phase[t] \in {"granted", "releasing"} => p = "out"
    BY <1>2 DEF Discard, DropReturning, DropPermit, Release
  <2>2. t \in Holder
    BY <2>1 DEF Holder
  <2>3. /\ phase'[t] = p
        /\ \A u \in Task \ {t} : phase'[u] = phase[u]
                 \/ (phase[u] = "queued" /\ phase'[u] = "granted")
    BY <1>0, <2>1, <2>2, ReleaseStep, ZenonT(30)
  <2>4. CASE phase[t] \in {"granted", "releasing"}
    BY <2>1, <2>3, <2>4, ReleaseRefines
  <2>5. CASE phase[t] \in {"connecting", "returning"}
    <3>1. t \in Committed
      BY <2>5 DEF Committed
    <3> QED  BY <2>1, <2>3, <3>1, GiveUpRefines
  <2> QED  BY <2>1, <2>4, <2>5
<1> QED  BY <1>1, <1>2

\* Every step of the pool is a step of PoolAbs, or one it does not see.
LEMMA NextRefines == IInv /\ IInv' /\ [Next]_vars => AbsStep
<1> SUFFICES ASSUME IInv, IInv', [Next]_vars PROVE AbsStep
  OBVIOUS
<1>1. ASSUME NEW t \in Task, Checkout(t) \/ Checkin(t) PROVE AbsStep
  BY <1>1, HiddenRefines
<1>2. ASSUME NEW t \in Task, CheckoutStep(t) PROVE AbsStep
  BY <1>2, HiddenRefines, ExpiredRefines, ReuseRefines, OpenRefines, OpenedRefines,
     ReturnRefines DEF CheckoutStep
<1>3. ASSUME NEW t \in Task, Destroy(t) \/ ReturnStep(t) PROVE AbsStep
  BY <1>3, ReturnRefines, GiveBackRefines, HiddenRefines DEF ReturnStep
<1>4. ASSUME NEW t \in Task, Drop(t) PROVE AbsStep
  BY <1>4, ReturnRefines, HiddenRefines DEF Drop
<1>5. ASSUME NEW tooOld \in SUBSET DOMAIN idle, Sweep(tooOld) PROVE AbsStep
  BY <1>5, SweepRefines
<1>6. CASE UNCHANGED vars
  <2>1. IdleConns' = IdleConns /\ AbsOwner' = AbsOwner
    BY <1>6 DEF vars, IdleConns, AbsOwner, Committed
  <2> QED  BY <2>1 DEF AbsStep
<1> QED  BY <1>1, <1>2, <1>3, <1>4, <1>5, <1>6 DEF Next

(***************************************************************************)
(* The pool of pool.rs implements the abstract pool, for every number of   *)
(* tasks and connections, every max_size and every dropped future: the     *)
(* semaphore, the LIFO stack, the probe and the sweeper cannot be seen     *)
(* from outside.                                                           *)
(***************************************************************************)
THEOREM PoolImplementsPoolAbs == Spec => ImplementsPoolAbs
<1>1. Init => Abs!Init
  BY InitRefines
<1>2. IInv /\ IInv' /\ [Next]_vars => [Abs!Next]_<<IdleConns, AbsOwner>>
  BY NextRefines DEF AbsStep
<1> QED  BY <1>1, <1>2, PoolInductive, PTL DEF Spec, ImplementsPoolAbs, Abs!Spec
=============================================================================
