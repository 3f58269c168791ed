--------------------------- MODULE MCSessionState ---------------------------
(***************************************************************************)
(* SessionState for TLC: two sessions, with or without an application_name *)
(* in their startup packet.                                                *)
(***************************************************************************)
EXTENDS SessionState

NoStartup == [s \in Session |-> None]
OneNamed == [s \in Session |-> IF s = "s1" THEN "a" ELSE None]
AllNamed == [s \in Session |-> IF s = "s1" THEN "a" ELSE "b"]

\* Transaction mode with explicit transactions.
Shared(startup, text, sets) ==
    [transaction |-> TRUE, startup |-> startup, txns |-> TRUE, text |-> text, sets |-> sets,
     losses |-> 0]

\* Session mode, and two connections that are lost.
Relinked ==
    [transaction |-> FALSE, startup |-> AllNamed, txns |-> FALSE, text |-> {"q1"},
     sets |-> {"app"}, losses |-> 2]

Sound == {Shared(NoStartup, {"q1", "q2"}, {"guc"}), Shared(NoStartup, {"q1", "bad"}, {"guc"}),
          Shared(AllNamed, {"q1"}, {"app"}), Relinked}

\* Only one of the sessions has an application_name.
Mixed == {[Shared(OneNamed, {"q1"}, {"guc"}) EXCEPT !.txns = FALSE]}

Plain == {Shared(NoStartup, {"q1", "q2"}, {"guc"})}
=============================================================================
