----------------------------- MODULE MCScatter -----------------------------
(***************************************************************************)
(* Scatter for TLC: two shards, and sessions that query them in either     *)
(* order.                                                                  *)
(***************************************************************************)
EXTENDS Scatter

CONSTANTS a, b, s1, s2

Nobody == {}
Broadcast == {<<a, b>>}
EitherOrder == {<<a, b>>, <<b, a>>}
TwiceA == {<<a, a>>}

\* Session mode, and scatters that are refused or fail.
Held == [sessionMode |-> TRUE, homes |-> {a}, size |-> 3, sums |-> TRUE,
         scatters |-> 2, refusals |-> 1, fails |-> 1]

\* Session mode, and sessions that start or relink at either shard.
Moved == [Held EXCEPT !.homes = {a, b}, !.sums = FALSE, !.scatters = 1, !.refusals = 0]

\* Session mode with pools of one connection, and nothing that fails.
Tight == [Held EXCEPT !.size = 1, !.sums = FALSE, !.scatters = 3, !.refusals = 0, !.fails = 0]

\* Transaction mode: scatters next to ordinary queries, and scatters that fail.
Shared == [Held EXCEPT !.sessionMode = FALSE, !.size = 2, !.refusals = 0, !.fails = 0]
Failing == [Shared EXCEPT !.homes = {}, !.fails = 1]

Sound == {Held, Moved, Tight, Shared, Failing}

\* Transaction mode with pools of one connection, and scatters only.
Mutual == {[Shared EXCEPT !.homes = {}, !.size = 1]}

\* Transaction mode with pools of one connection.
Small == {[Shared EXCEPT !.size = 1]}

\* Session mode with pools of one connection and a refused scatter.
Refusing == {[Tight EXCEPT !.refusals = 1]}

\* Session mode and a session's own leg that fails, and transaction mode and
\* a Sum that does.
Breaking == {Held, [Failing EXCEPT !.scatters = 1]}

\* Session mode, routed to the shard that is not the first one.
Elsewhere == {[Tight EXCEPT !.homes = {b}, !.size = 2]}
=============================================================================
