------------------------------ MODULE MCRouting ------------------------------
(***************************************************************************)
(* Routing for TLC: a primary, alone or with a replica.                    *)
(***************************************************************************)
EXTENDS Routing

OneEndpoint == <<"primary">>
TwoEndpoints == <<"primary", "replica">>

Config(sessionMode, splits, flips, cools) ==
    [sessionMode |-> sessionMode, splits |-> splits, flips |-> flips, cools |-> cools]

\* Transaction mode under either router.
Both == {Config(FALSE, FALSE, 2, 1), Config(FALSE, TRUE, 1, 0)}

\* Session mode under either router, and all of these.
Readers == {Config(TRUE, TRUE, 1, 0)}
Held == {Config(TRUE, FALSE, 1, 1)} \cup Readers
Every == Both \cup Held

\* Transaction mode, the endpoints as they are.
Quiet == {Config(FALSE, FALSE, 0, 0)}

\* Transaction mode and a server that restarts.
Restart == {Config(FALSE, FALSE, 2, 0)}
=============================================================================
