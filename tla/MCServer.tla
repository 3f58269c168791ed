------------------------------ MODULE MCServer ------------------------------
(* Small instances of Server for TLC. *)
EXTENDS Server, TLC

With(mode, stops, kinds, errors, panics) ==
    [sessionMode |-> mode, collide |-> FALSE, stops |-> stops, kinds |-> kinds,
     acceptErrors |-> errors, panics |-> panics]

\* Both pool modes and every way to stop; a failed accept or a panicking hook.
AllSetups ==
    {With(TRUE, {"graceful"}, {"user"}, 0, 1), With(FALSE, {"graceful"}, {"user", "cancel"}, 0, 0),
     With(FALSE, {"now"}, {"user", "refused"}, 1, 0), With(TRUE, {"drop"}, {"admin", "cancel"}, 0, 0)}

\* Clients and cancel requests in a proxy that runs on, in both pool modes; every way to
\* stop.
StopSetups ==
    {With(FALSE, {}, {"user", "cancel"}, 0, 0), With(TRUE, {}, {"user"}, 0, 0),
     With(FALSE, {"graceful"}, {"user"}, 0, 0),
     With(TRUE, {"drop"}, {"admin", "cancel"}, 0, 0), With(FALSE, {"now"}, {"admin"}, 0, 0)}

\* One thing at a time.
Now == {With(FALSE, {"now"}, {"user"}, 0, 0)}
UsersAndCancels == {With(FALSE, {}, {"user", "cancel"}, 0, 0)}
Panics == {With(FALSE, {}, {"user"}, 0, 1)}
Collisions == {[With(FALSE, {}, {"user"}, 0, 0) EXCEPT !.collide = TRUE]}

Symmetry == Permutations(Client)
=============================================================================
