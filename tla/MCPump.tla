------------------------------- MODULE MCPump -------------------------------
(***************************************************************************)
(* Pump for TLC: the sessions, clients and hooks of the runs.              *)
(***************************************************************************)
EXTENDS Pump

AnyMode == {"session", "transaction"}
AnyClient == {"Query", "CopyDone", "Parse", "Reparse", "Bind", "Close", "Flush", "Sync"}
SimpleClient == {"Query", "CopyDone"}
ExtendedClient == {"Parse", "Bind", "Sync"}
AnyPolicy == {"relink", "close"}

\* A client that waits for its answers and prepares one statement per cycle.
Client(modes, kinds, hooks, msgs, losses) ==
    {[mode |-> m, kinds |-> kinds, window |-> 1, multiParse |-> FALSE, hooks |-> hooks,
      policies |-> AnyPolicy, prompt |-> TRUE, msgs |-> msgs, losses |-> losses] :
        m \in modes}

\* Every message kind over connections that hold, and simple queries over
\* connections that do not.
Cycles == Client(AnyMode, AnyClient, {"forward", "deny", "close"}, 3, 0)
Losses == Client(AnyMode, SimpleClient, {"forward", "deny", "reply", "scatter"}, 3, 2)
CyclesAndLosses == Cycles \cup Losses

\* The sessions of the counterexamples.
Pipelined ==
    {[c EXCEPT !.window = 2] : c \in Client({"transaction"}, {"Query"}, {"forward"}, 2, 0)}
LateCancel ==
    {[c EXCEPT !.prompt = FALSE] : c \in Client({"session"}, {"Query"}, {"forward"}, 1, 0)}
MidDeny ==
    {[c EXCEPT !.multiParse = TRUE] :
        c \in Client({"session"}, ExtendedClient, {"forward", "deny"}, 5, 0)}
Reparse ==
    {[c EXCEPT !.multiParse = TRUE] :
        c \in Client({"session"}, ExtendedClient \cup {"Reparse"}, {"forward"}, 4, 0)}
ExtReply == Client({"transaction"}, ExtendedClient, {"forward", "reply"}, 3, 0)
ExtLost == Client({"transaction"}, ExtendedClient, {"forward"}, 3, 1)
DrainLost == Client({"transaction"}, {"Query"}, {"forward"}, 2, 1)
IdleLoss == Client({"session"}, {"Query"}, {"forward"}, 2, 1)
ScatterTxn == Client({"session"}, {"Query"}, {"forward", "scatter"}, 2, 0)
=============================================================================
