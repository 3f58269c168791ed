------------------------------ MODULE MCValues ------------------------------
(***************************************************************************)
(* Values on texts of six symbols and rows of three columns.              *)
(***************************************************************************)
EXTENDS Values

\* Empty, one byte, and bytes that look like a length.
Bytes == {<<>>, <<7>>, <<0, 255>>}
=============================================================================
