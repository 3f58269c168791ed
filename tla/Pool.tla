-------------------------------- MODULE Pool --------------------------------
(***************************************************************************)
(* One upstream connection pool (pool.rs): the semaphore of permits, the   *)
(* LIFO stack of idle connections, the tasks that check a connection out   *)
(* and return it, and the sweeper.                                         *)
(*                                                                         *)
(* A task is anything that calls Pool::checkout: a session's pump, a       *)
(* scatter leg, a cold-pool baseline probe.  Its checkout and its checkin  *)
(* are split at the points where another task can run: every await, and    *)
(* the two places where the permit and the idle stack are not touched      *)
(* under one lock (after the acquire, and between the push and the release *)
(* of the permit).  A task's future can be dropped at every await.         *)
(*                                                                         *)
(* Ages are abstracted to the outcomes of the comparisons with             *)
(* max_lifetime, stale_after and idle_timeout; a connection is an          *)
(* identity; the cumulative counters are left out, the two gauges are      *)
(* kept.                                                                   *)
(***************************************************************************)
EXTENDS Integers, Sequences, FiniteSets

CONSTANTS
    Task,       \* the tasks that use the pool
    Conn,       \* identities of upstream connections
    NoConn,     \* "no connection"
    Opening,    \* "a connection is being opened" (PoolAbs)
    MaxSize,    \* PoolConfig.max_size
    MaxDrops    \* bound: futures dropped in one behaviour

ASSUME PoolAssumption ==
    /\ IsFiniteSet(Task)
    /\ NoConn \notin Conn
    /\ Opening \notin Conn \cup {NoConn}
    /\ MaxSize \in Nat
    /\ MaxDrops \in Nat

VARIABLES
    phase,      \* where each task is in its checkout / checkin
    held,       \* the connection each task owns, or NoConn
    avail,      \* permits in the semaphore
    queue,      \* the semaphore's FIFO of tasks without a permit
    idle,       \* PoolInner.idle, the top of the stack last
    active,     \* PoolMetrics.active
    waiting,    \* PoolMetrics.waiting
    drops       \* futures dropped so far

vars == <<phase, held, avail, queue, idle, active, waiting, drops>>

\* Pool::new: Semaphore::new(max_size.max(1))
Permits == IF MaxSize = 0 THEN 1 ELSE MaxSize

(***************************************************************************)
(* The phases of a task.                                                   *)
(*   out         not using the pool                                        *)
(*   queued      acquire_owned() pending, in the semaphore's queue         *)
(*   granted     a permit was assigned to it; its acquire has not returned *)
(*   popping     at the head of checkout's loop                            *)
(*   probing     awaiting probe() on a stale connection it popped          *)
(*   connecting  awaiting the connect factory                              *)
(*   leased      owns an UpstreamLease                                     *)
(*   returning   awaiting sanitize (checkin) or DISCARD ALL (detach)       *)
(*   releasing   owns a permit and no connection, about to release it      *)
(*   closing     released its permit, its connection not yet closed        *)
(***************************************************************************)
Phase == {"out", "queued", "granted", "popping", "probing", "connecting",
          "leased", "returning", "releasing", "closing"}

\* Tasks that own a permit.
Holder == {t \in Task : phase[t] \in {"granted", "popping", "probing",
               "connecting", "leased", "returning", "releasing"}}

\* Tasks that own a connection under a permit, or are opening one.
Committed == {t \in Task : phase[t] \in
                  {"probing", "connecting", "leased", "returning"}}

\* Tasks whose `held` is a connection.
Owner == {t \in Task : phase[t] \in
              {"probing", "leased", "returning", "closing"}}

\* A sequence without its i-th element.
Without(q, i) ==
    [j \in 1 .. (Len(q) - 1) |-> IF j < i THEN q[j] ELSE q[j + 1]]

IdleConns == {idle[i] : i \in DOMAIN idle}

OpenConns == IdleConns \cup {held[t] : t \in Owner}

-----------------------------------------------------------------------------
Init ==
    /\ phase = [t \in Task |-> "out"]
    /\ held = [t \in Task |-> NoConn]
    /\ avail = Permits
    /\ queue = <<>>
    /\ idle = <<>>
    /\ active = 0
    /\ waiting = 0
    /\ drops = 0

\* Mutant: a released permit is counted, and the waiters are not woken.
ReleasePermitNoWake(ph) ==
    /\ avail' = avail + 1
    /\ phase' = ph
    /\ UNCHANGED queue

(***************************************************************************)
(* tokio's fair semaphore.  Releasing a permit hands it to the first task  *)
(* of the queue; it goes back to the counter when nobody waits.  `ph` is   *)
(* the phase function after the releasing task's own change.               *)
(***************************************************************************)
ReleasePermit(ph) ==
    IF queue = <<>>
    THEN /\ avail' = avail + 1
         /\ phase' = ph
         /\ UNCHANGED queue
    ELSE /\ phase' = [ph EXCEPT ![Head(queue)] = "granted"]
         /\ queue' = Tail(queue)
         /\ UNCHANGED avail

\* checkout: count the waiter, poll the semaphore once.
Checkout(t) ==
    /\ phase[t] = "out"
    /\ waiting' = waiting + 1
    /\ \/ /\ avail > 0
          /\ avail' = avail - 1
          /\ phase' = [phase EXCEPT ![t] = "granted"]
          /\ UNCHANGED queue
       \/ /\ avail = 0
          /\ queue' = Append(queue, t)
          /\ phase' = [phase EXCEPT ![t] = "queued"]
          /\ UNCHANGED avail
    /\ UNCHANGED <<held, idle, active, drops>>

\* The acquire returns.
Acquired(t) ==
    /\ phase[t] = "granted"
    /\ phase' = [phase EXCEPT ![t] = "popping"]
    /\ waiting' = waiting - 1
    /\ UNCHANGED <<held, avail, queue, idle, active, drops>>

\* finish_checkout: the lease exists, the gauge counts it.
FinishCheckout(t, c) ==
    /\ phase' = [phase EXCEPT ![t] = "leased"]
    /\ held' = [held EXCEPT ![t] = c]
    /\ active' = active + 1

(***************************************************************************)
(* One turn of checkout's loop.  pop() takes the most recently parked      *)
(* connection; past max_lifetime it is closed and the loop goes on, past   *)
(* stale_after it is probed, else it is leased.  With an empty stack the   *)
(* loop ends and the connect factory is called.                            *)
(***************************************************************************)
PopExpired(t) ==
    /\ phase[t] = "popping"
    /\ idle # <<>>
    /\ idle' = SubSeq(idle, 1, Len(idle) - 1)
    /\ UNCHANGED <<phase, held, avail, queue, active, waiting, drops>>

PopStale(t) ==
    /\ phase[t] = "popping"
    /\ idle # <<>>
    /\ idle' = SubSeq(idle, 1, Len(idle) - 1)
    /\ phase' = [phase EXCEPT ![t] = "probing"]
    /\ held' = [held EXCEPT ![t] = idle[Len(idle)]]
    /\ UNCHANGED <<avail, queue, active, waiting, drops>>

\* Mutant: the connection is read from the stack and left on it.
PopFreshPeeks(t) ==
    /\ phase[t] = "popping"
    /\ idle # <<>>
    /\ FinishCheckout(t, idle[Len(idle)])
    /\ UNCHANGED <<idle, avail, queue, waiting, drops>>

PopFresh(t) ==
    /\ phase[t] = "popping"
    /\ idle # <<>>
    /\ idle' = SubSeq(idle, 1, Len(idle) - 1)
    /\ FinishCheckout(t, idle[Len(idle)])
    /\ UNCHANGED <<avail, queue, waiting, drops>>

\* Mutant: the factory is called although connections are parked.
PopEmptyUnchecked(t) ==
    /\ phase[t] = "popping"
    /\ phase' = [phase EXCEPT ![t] = "connecting"]
    /\ UNCHANGED <<held, avail, queue, idle, active, waiting, drops>>

PopEmpty(t) ==
    /\ phase[t] = "popping"
    /\ idle = <<>>
    /\ phase' = [phase EXCEPT ![t] = "connecting"]
    /\ UNCHANGED <<held, avail, queue, idle, active, waiting, drops>>

\* probe answered: the popped connection is leased.
ProbeOk(t) ==
    /\ phase[t] = "probing"
    /\ FinishCheckout(t, held[t])
    /\ UNCHANGED <<avail, queue, idle, waiting, drops>>

\* probe failed or timed out: the connection is closed, the loop goes on.
ProbeFailed(t) ==
    /\ phase[t] = "probing"
    /\ phase' = [phase EXCEPT ![t] = "popping"]
    /\ held' = [held EXCEPT ![t] = NoConn]
    /\ UNCHANGED <<avail, queue, idle, active, waiting, drops>>

ConnectOk(t, c) ==
    /\ phase[t] = "connecting"
    /\ c \notin OpenConns
    /\ FinishCheckout(t, c)
    /\ UNCHANGED <<avail, queue, idle, waiting, drops>>

\* Mutant: the permit of a failed connect is forgotten.
ConnectFailedLeaks(t) ==
    /\ phase[t] = "connecting"
    /\ phase' = [phase EXCEPT ![t] = "out"]
    /\ UNCHANGED <<held, avail, queue, idle, active, waiting, drops>>

\* The `?` after the factory: checkout returns Err and its permit is dropped.
ConnectFailed(t) ==
    /\ phase[t] = "connecting"
    /\ phase' = [phase EXCEPT ![t] = "releasing"]
    /\ UNCHANGED <<held, avail, queue, idle, active, waiting, drops>>

-----------------------------------------------------------------------------
(***************************************************************************)
(* Returning a lease.  checkin and checkin_detached differ in how they     *)
(* clean the connection, not in what they do to the pool: the gauge is     *)
(* decremented first, the connection is cleaned, and then it is parked or  *)
(* dropped.                                                                *)
(***************************************************************************)
Checkin(t) ==
    /\ phase[t] = "leased"
    /\ phase' = [phase EXCEPT ![t] = "returning"]
    /\ active' = active - 1
    /\ UNCHANGED <<held, avail, queue, idle, waiting, drops>>

\* Cleaned and not past max_lifetime: pushed while the permit is still owned.
Park(t) ==
    /\ phase[t] = "returning"
    /\ idle' = Append(idle, held[t])
    /\ held' = [held EXCEPT ![t] = NoConn]
    /\ phase' = [phase EXCEPT ![t] = "releasing"]
    /\ UNCHANGED <<avail, queue, active, waiting, drops>>

(***************************************************************************)
(* Not cleaned, or past max_lifetime: the connection is dropped at the end *)
(* of the function.  The locals of the destructuring pattern are dropped   *)
(* in reverse order, so the permit is released before the connection is    *)
(* closed.                                                                 *)
(***************************************************************************)
Discard(t) ==
    /\ phase[t] = "returning"
    /\ ReleasePermit([phase EXCEPT ![t] = "closing"])
    /\ UNCHANGED <<held, idle, active, waiting, drops>>

CloseConn(t) ==
    /\ phase[t] = "closing"
    /\ phase' = [phase EXCEPT ![t] = "out"]
    /\ held' = [held EXCEPT ![t] = NoConn]
    /\ UNCHANGED <<avail, queue, idle, active, waiting, drops>>

\* destroy: the fields of `self` drop in order, the connection first.
Destroy(t) ==
    /\ phase[t] = "leased"
    /\ phase' = [phase EXCEPT ![t] = "releasing"]
    /\ held' = [held EXCEPT ![t] = NoConn]
    /\ active' = active - 1
    /\ UNCHANGED <<avail, queue, idle, waiting, drops>>

\* The permit of a finished checkin, destroy or failed checkout is dropped.
Release(t) ==
    /\ phase[t] = "releasing"
    /\ ReleasePermit([phase EXCEPT ![t] = "out"])
    /\ UNCHANGED <<held, idle, active, waiting, drops>>

-----------------------------------------------------------------------------
(***************************************************************************)
(* A task's future is dropped at an await: accept_loop's abort_all, or a   *)
(* scatter leg whose sibling failed.  What the future owns is released,    *)
(* and no line of the handler runs, the gauges' decrements included.       *)
(***************************************************************************)
DropQueued(t) ==
    /\ phase[t] = "queued"
    /\ \E i \in DOMAIN queue :
          /\ queue[i] = t
          /\ queue' = Without(queue, i)
    /\ phase' = [phase EXCEPT ![t] = "out"]
    /\ UNCHANGED <<held, avail, idle, active, waiting>>

DropPermit(t) ==
    /\ phase[t] \in {"granted", "connecting"}
    /\ ReleasePermit([phase EXCEPT ![t] = "out"])
    /\ UNCHANGED <<held, idle, active, waiting>>

\* An UpstreamLease, or a connection being probed: closed, then the permit.
DropConn(t) ==
    /\ phase[t] \in {"probing", "leased"}
    /\ phase' = [phase EXCEPT ![t] = "releasing"]
    /\ held' = [held EXCEPT ![t] = NoConn]
    /\ UNCHANGED <<avail, queue, idle, active, waiting>>

\* Inside checkin: the permit goes first, as in Discard.
DropReturning(t) ==
    /\ phase[t] = "returning"
    /\ ReleasePermit([phase EXCEPT ![t] = "closing"])
    /\ UNCHANGED <<held, idle, active, waiting>>

Drop(t) ==
    /\ drops < MaxDrops
    /\ drops' = drops + 1
    /\ \/ DropQueued(t)
       \/ DropPermit(t)
       \/ DropConn(t)
       \/ DropReturning(t)

(***************************************************************************)
(* The sweeper closes, under the lock, every idle connection past          *)
(* idle_timeout or max_lifetime.  `tooOld` is the set of positions that    *)
(* are past either.                                                        *)
(***************************************************************************)
Sweep(tooOld) ==
    /\ tooOld # {}
    /\ tooOld \subseteq DOMAIN idle
    /\ \E kept \in [1 .. (Len(idle) - Cardinality(tooOld)) -> DOMAIN idle \ tooOld] :
          /\ \A i, j \in DOMAIN kept : i < j => kept[i] < kept[j]
          /\ idle' = [i \in DOMAIN kept |-> idle[kept[i]]]
    /\ UNCHANGED <<phase, held, avail, queue, active, waiting, drops>>

-----------------------------------------------------------------------------
CheckoutStep(t) ==
    \/ Acquired(t)
    \/ PopExpired(t)
    \/ PopStale(t)
    \/ PopFresh(t)
    \/ PopEmpty(t)
    \/ ProbeOk(t)
    \/ ProbeFailed(t)
    \/ \E c \in Conn : ConnectOk(t, c)
    \/ ConnectFailed(t)

ReturnStep(t) ==
    \/ Park(t)
    \/ Discard(t)
    \/ CloseConn(t)
    \/ Release(t)

Next ==
    \/ \E t \in Task :
          \/ Checkout(t)
          \/ CheckoutStep(t)
          \/ Checkin(t)
          \/ Destroy(t)
          \/ ReturnStep(t)
          \/ Drop(t)
    \/ \E tooOld \in SUBSET DOMAIN idle : Sweep(tooOld)

Spec == Init /\ [][Next]_vars

(***************************************************************************)
(* Fairness.  The runtime polls a task that can run; probe and sanitize    *)
(* are bounded by timeouts, and a connect is assumed to end (the code sets *)
(* no timeout on it).  ClientsReturn is an assumption about the clients,   *)
(* not about the proxy: whoever holds a lease gives it back.               *)
(***************************************************************************)
Progress ==
    \A t \in Task : WF_vars(CheckoutStep(t)) /\ WF_vars(ReturnStep(t))

ClientsReturn ==
    \A t \in Task : WF_vars(Checkin(t) \/ Destroy(t))

FairSpec == Spec /\ Progress /\ ClientsReturn

-----------------------------------------------------------------------------
\* The pool's state has its types; the semaphore's counter is never negative.
TypeOK ==
    /\ phase \in [Task -> Phase]
    /\ held \in [Task -> Conn \cup {NoConn}]
    /\ avail \in Nat
    /\ queue \in Seq(Task)
    /\ idle \in Seq(Conn)
    /\ active \in Int
    /\ waiting \in Int
    /\ drops \in 0 .. MaxDrops

(***************************************************************************)
(* A permit is in the semaphore or owned by exactly one task, whatever     *)
(* errors, timeouts and dropped futures happen: checkout's early return,   *)
(* checkin, destroy and a dropped future all give their permit back, once. *)
(***************************************************************************)
PermitsConserved == avail + Cardinality(Holder) = Permits

(***************************************************************************)
(* PoolConfig.max_size bounds the idle and the checked-out connections     *)
(* together, although idle connections own no permit: checkout opens a     *)
(* connection only after it found the stack empty, and checkin parks       *)
(* before it releases.                                                     *)
(***************************************************************************)
SizeBound == Len(idle) + Cardinality(Committed) <= Permits

(***************************************************************************)
(* A connection is owned once: it is not at two places of the idle stack,  *)
(* not parked while a task still uses it, and not leased to two tasks.     *)
(***************************************************************************)
Exclusive ==
    /\ \A i, j \in DOMAIN idle : idle[i] = idle[j] => i = j
    /\ \A t \in Owner : held[t] \in Conn \ IdleConns
    /\ \A t, u \in Owner : held[t] = held[u] => t = u

(***************************************************************************)
(* Nobody waits in checkout while a permit is free, even when the waiters  *)
(* ahead of it were dropped or the permit came back from a failed connect. *)
(***************************************************************************)
NoIdlePermit ==
    /\ queue # <<>> => avail = 0
    /\ \A t \in Task : phase[t] = "queued" <=> \E i \in DOMAIN queue : queue[i] = t

(***************************************************************************)
(* The gauges never under-count: active covers every lease, waiting every  *)
(* task inside the acquire, also after futures were dropped.               *)
(***************************************************************************)
GaugesCover ==
    /\ Cardinality({t \in Task : phase[t] = "leased"}) <= active
    /\ Cardinality({t \in Task : phase[t] \in {"queued", "granted"}}) <= waiting

(***************************************************************************)
(* pool.rs:160 says of PoolMetrics.active "Connections currently checked   *)
(* out."                                                                   *)
(***************************************************************************)
ActiveIsExact == active = Cardinality({t \in Task : phase[t] = "leased"})

(***************************************************************************)
(* pool.rs:162 says of PoolMetrics.waiting "Sessions currently waiting for *)
(* a connection (pool at capacity)."                                       *)
(***************************************************************************)
WaitingIsExact ==
    waiting = Cardinality({t \in Task : phase[t] \in {"queued", "granted"}})

(***************************************************************************)
(* A task queued in checkout leaves the queue as long as leases are given  *)
(* back: the FIFO hand-over starves nobody, whatever the connects, probes  *)
(* and sanitizes of the others end in.                                     *)
(***************************************************************************)
QueuedIsServed == \A t \in Task : phase[t] = "queued" ~> phase[t] # "queued"

(***************************************************************************)
(* The pool implements PoolAbs: what a user of the pool can observe of its *)
(* semaphore, stack and sweeper.                                           *)
(***************************************************************************)
AbsOwner ==
    [t \in Task |-> IF phase[t] = "connecting" THEN Opening
                    ELSE IF t \in Committed THEN held[t]
                    ELSE NoConn]

Abs == INSTANCE PoolAbs WITH parked <- IdleConns, owner <- AbsOwner

ImplementsPoolAbs == Abs!Spec

=============================================================================
