----------------------------- MODULE ProcessGraph -----------------------------
(* The process table of strawwu-runtime (process.rs).  Names and cooperation  *)
(* groups are left out: no operation reads them to change the table.          *)
EXTENDS Naturals

CONSTANT LastPid    \* bound on the pids given out; the code counts from 1000

ASSUME LastPidAssumption == LastPid \in Nat \ {0}

VARIABLES
    node,       \* ProcessGraph.nodes, with Unspawned for a pid not given out
    nextPid     \* ProcessGraph.next_pid

graphVars == <<node, nextPid>>

Pid == 1 .. LastPid
NoParent == 0
Unspawned == [state |-> "none", parent |-> NoParent]

ProcessNode ==
    [state : {"none", "Running", "Suspended", "Terminated"}, parent : 0 .. LastPid]

GraphTypeOK == node \in [Pid -> ProcessNode] /\ nextPid \in 1 .. LastPid + 1

GraphInit == node = [p \in Pid |-> Unspawned] /\ nextPid = 1

Known(p) == node[p].state # "none"
Live(p) == node[p].state \in {"Running", "Suspended"}

\* spawn: the pid is nextPid; the parent is not looked up.
Spawn(parent) ==
    /\ nextPid <= LastPid
    /\ node' = [node EXCEPT ![nextPid] = [state |-> "Running", parent |-> parent]]
    /\ nextPid' = nextPid + 1

Move(p, from, to) ==
    /\ node[p].state \in from
    /\ node' = [node EXCEPT ![p].state = to]
    /\ UNCHANGED nextPid

\* terminate succeeds for any pid of the table, a terminated one included.
Terminate(p) == Move(p, {"Running", "Suspended", "Terminated"}, "Terminated")
Suspend(p) == Move(p, {"Running"}, "Suspended")
Resume(p) == Move(p, {"Suspended"}, "Running")

\* reparent refuses the process itself, not its descendants.
Reparent(p, parent) ==
    /\ p # parent /\ Known(parent) /\ Live(p)
    /\ node' = [node EXCEPT ![p].parent = parent]
    /\ UNCHANGED nextPid

GraphNext ==
    \/ \E parent \in {NoParent} \union {p \in Pid : Known(p)} : Spawn(parent)
    \/ \E p \in Pid : Terminate(p) \/ Suspend(p) \/ Resume(p)
    \/ \E p, parent \in Pid : Reparent(p, parent)

GraphSpec == GraphInit /\ [][GraphNext]_graphVars

-----------------------------------------------------------------------------
\* A terminated process is never resumed, moved or replaced: its pid is not
\* given out again (spawn, resume and reparent in any order).
TerminatedIsFinal ==
    [][\A p \in Pid : node[p].state = "Terminated" => node'[p].state = "Terminated"]_graphVars
=============================================================================
