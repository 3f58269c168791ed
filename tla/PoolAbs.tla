------------------------------ MODULE PoolAbs ------------------------------
(***************************************************************************)
(* What a pool promises its users, without the semaphore, the queue and    *)
(* the stack: a connection is parked or used by one task, a new one is     *)
(* opened only when none is parked, and the parked and the used ones       *)
(* together never exceed Permits.                                          *)
(***************************************************************************)
EXTENDS Naturals, FiniteSets

CONSTANTS Task, Conn, NoConn, Opening, Permits

VARIABLES
    parked,     \* the connections nobody uses
    owner       \* what each task has: a connection, one being opened, nothing

Using == {t \in Task : owner[t] # NoConn}

Init ==
    /\ parked = {}
    /\ owner = [t \in Task |-> NoConn]

\* Start to open a connection: none is parked and there is room for one.
Open(t) ==
    /\ owner[t] = NoConn
    /\ parked = {}
    /\ Cardinality(Using) < Permits
    /\ owner' = [owner EXCEPT ![t] = Opening]
    /\ UNCHANGED parked

\* The connection is there; it is nobody else's.
Opened(t, c) ==
    /\ owner[t] = Opening
    /\ c \notin parked
    /\ \A u \in Task : owner[u] # c
    /\ owner' = [owner EXCEPT ![t] = c]
    /\ UNCHANGED parked

Reuse(t, c) ==
    /\ owner[t] = NoConn
    /\ c \in parked
    /\ owner' = [owner EXCEPT ![t] = c]
    /\ parked' = parked \ {c}

GiveBack(t) ==
    /\ owner[t] \in Conn
    /\ parked' = parked \cup {owner[t]}
    /\ owner' = [owner EXCEPT ![t] = NoConn]

\* The connection is closed, or it could not be opened.
GiveUp(t) ==
    /\ owner[t] # NoConn
    /\ owner' = [owner EXCEPT ![t] = NoConn]
    /\ UNCHANGED parked

Evict(gone) ==
    /\ parked' = parked \ gone
    /\ UNCHANGED owner

Next ==
    \/ \E t \in Task : Open(t) \/ GiveBack(t) \/ GiveUp(t)
    \/ \E t \in Task, c \in Conn : Opened(t, c) \/ Reuse(t, c)
    \/ \E gone \in SUBSET parked : Evict(gone)

Spec == Init /\ [][Next]_<<parked, owner>>
=============================================================================
