----------------------------- MODULE MCAppManager -----------------------------
(***************************************************************************)
(* AppManager for TLC: one system app, one other app.                      *)
(***************************************************************************)
EXTENDS AppManager

CONSTANTS sys, app, ipc

MCIds  == {sys, app}
MCSys  == {sys}
MCCaps == {ipc}

\* Every command on every app; what a command does not read is fixed.
AllCommands ==
    {c \in Command : c.op \in {"show", "list", "channel"} => c.id = sys}

\* A user lists the apps and changes one permission of a system app.
ListAndGrant ==
    {c \in Command : c.op \in {"list", "grant", "revoke"} /\ c.id = sys}
===============================================================================
