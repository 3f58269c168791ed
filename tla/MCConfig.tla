------------------------------ MODULE MCConfig ------------------------------
(***************************************************************************)
(* Config with two passwords, endpoints that have none or their own, and   *)
(* builders of up to five calls.                                           *)
(***************************************************************************)
EXTENDS Config

TwoLists ==
    {<<>>, <<Endpoint("c", "c", None)>>, <<Endpoint("c", "c", None), Endpoint("d", "d", "own")>>}
=============================================================================
