------------------------------- MODULE MCPool -------------------------------
(***************************************************************************)
(* Pool for TLC: three tasks compete for two permits.                      *)
(***************************************************************************)
EXTENDS Pool

CONSTANTS t1, t2, t3, c1, c2, c3, c4

MCTask == {t1, t2, t3}
MCConn == {c1, c2, c3, c4}
=============================================================================
