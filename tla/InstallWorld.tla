----------------------------- MODULE InstallWorld -----------------------------
(* The registry and the disk: native_install (install_native.rs) unpacks files *)
(* and writes a shortcut before it registers the app, a launch writes a         *)
(* shortcut before it registers, and deep_remove deletes what the entry names   *)
(* before it marks it.  A session of the registry is atomic here except that    *)
(* of deep_remove, which holds the lock while it deletes (AppRegistry shows     *)
(* what the lock is worth).  Any command may be killed or fail between steps.   *)
EXTENDS RegistryFile, FiniteSets

CONSTANTS
    Proc, Nobody,
    Piece,      \* the files of a program
    Main,       \* the one that is launched
    Own,        \* apps_root joined with the app id: the install directory
    Allowed,    \* directories below default_allow_prefixes
    Launchable  \* pairs of an app and a directory it is launched from

ASSUME InstallAssumption ==
    /\ Main \in Piece /\ Own \in [Ids -> Dirs]
    /\ Allowed \subseteq Dirs /\ Launchable \subseteq Ids \X Dirs
    /\ Nobody \notin Proc /\ NoDir \notin Dirs

VARIABLES
    reg,        \* app-registry.json
    lock,       \* who holds the registry lock
    files,      \* the files in a directory
    shortcut,   \* the apps with a .desktop file
    listed,     \* the apps whose entry names it
    job,        \* what a process does, for which app, where, and its next step
    purged,     \* history: entries last written by deep_remove
    spoiled     \* history: apps that a stopped command, an install at the same
                \* time, or a directory in common may have left half done

vars == <<reg, lock, files, shortcut, listed, job, purged, spoiled>>

Steps == {"clear", "unpack", "install shortcut", "finalize",
          "launch shortcut", "register", "delete", "unlink", "mark"}
Free == [step |-> "free"]

TypeOK ==
    /\ reg \in File /\ lock \in Proc \union {Nobody}
    /\ files \in [Dirs -> SUBSET Piece]
    /\ shortcut \subseteq Ids /\ listed \subseteq Ids
    /\ job \in [Proc -> {Free} \union
           [step : Steps, id : Ids, dir : Dirs \union {NoDir}, desktop : BOOLEAN]]
    /\ purged \subseteq Ids /\ spoiled \subseteq Ids

Init ==
    /\ reg = EmptyFile /\ lock = Nobody
    /\ files = [d \in Dirs |-> {}]
    /\ shortcut = {} /\ listed = {}
    /\ job = [p \in Proc |-> Free]
    /\ purged = {} /\ spoiled = {}

At(p, step) == job[p].step = step
IsFree(p) == At(p, "free")
Goes(p, step) == job' = [job EXCEPT ![p].step = step]
WorksOn(p, i) == ~IsFree(p) /\ job[p].id = i
Installing(p) == job[p].step \in {"clear", "unpack", "install shortcut", "finalize"}

\* Other apps that use directory d, and processes that work in it or on i.
SharedBy(i, d) ==
    {j \in Ids \ {i} : (Known(reg, j) /\ reg[j].dir = d) \/ Own[j] = d}
BusyWith(p, i, d) ==
    {q \in Proc \ {p} : ~IsFree(q) /\ (job[q].dir = d \/ job[q].id = i)}
Clash(others, i) == IF others = {} THEN {} ELSE {i} \union {job[q].id : q \in others}

Begin(p, step, i, d) ==
    /\ IsFree(p)
    /\ job' = [job EXCEPT ![p] = [step |-> step, id |-> i, dir |-> d, desktop |-> FALSE]]

StartInstall(p, i) ==
    /\ Begin(p, "clear", i, Own[i])
    /\ spoiled' = spoiled \union SharedBy(i, Own[i]) \union Clash(BusyWith(p, i, Own[i]), i)
    /\ UNCHANGED <<reg, lock, files, shortcut, listed, purged>>

\* remove_dir_all, file by file.
ClearPiece(p, f) ==
    /\ At(p, "clear") /\ f \in files[job[p].dir]
    /\ files' = [files EXCEPT ![job[p].dir] = @ \ {f}]
    /\ UNCHANGED <<reg, lock, shortcut, listed, job, purged, spoiled>>

ClearDone(p) ==
    /\ At(p, "clear") /\ files[job[p].dir] = {} /\ Goes(p, "unpack")
    /\ UNCHANGED <<reg, lock, files, shortcut, listed, purged, spoiled>>

\* The main program comes last and is looked for at the end.
UnpackPiece(p, f) ==
    /\ At(p, "unpack") /\ f \in Piece \ files[job[p].dir]
    /\ f = Main => Piece \ files[job[p].dir] = {Main}
    /\ files' = [files EXCEPT ![job[p].dir] = @ \union {f}]
    /\ IF f = Main THEN Goes(p, "install shortcut") ELSE UNCHANGED job
    /\ UNCHANGED <<reg, lock, shortcut, listed, purged, spoiled>>

WriteShortcut(p, from, to) ==
    /\ At(p, from) /\ shortcut' = shortcut \union {job[p].id}
    /\ job' = [job EXCEPT ![p].step = to, ![p].desktop = TRUE]
    /\ UNCHANGED <<reg, lock, files, listed, purged, spoiled>>

InstallShortcut(p) == WriteShortcut(p, "install shortcut", "finalize")
LaunchShortcut(p) == WriteShortcut(p, "launch shortcut", "register")

\* launch goes on without a shortcut.
LaunchNoShortcut(p) ==
    /\ At(p, "launch shortcut") /\ Goes(p, "register")
    /\ UNCHANGED <<reg, lock, files, shortcut, listed, purged, spoiled>>

Ask(i, d) == [id |-> i, kind |-> "win32", dir |-> d]

\* One session: the entry names the shortcut if one was written.
Session(p, outcomes) ==
    /\ lock = Nobody /\ reg' \in outcomes
    /\ listed' = IF job[p].desktop THEN listed \union {job[p].id} ELSE listed
    /\ purged' = purged \ {job[p].id}
    /\ job' = [job EXCEPT ![p] = Free]
    /\ UNCHANGED <<lock, files, shortcut, spoiled>>

Finalize(p) ==
    At(p, "finalize") /\ Session(p, FinalizeInstall(reg, Ask(job[p].id, job[p].dir)))

RegisterLaunch(p) ==
    At(p, "register") /\ Session(p, UpsertFromLaunch(reg, Ask(job[p].id, job[p].dir)))

StartLaunch(p, i, d) ==
    /\ Main \in files[d] /\ Begin(p, "launch shortcut", i, d)
    /\ UNCHANGED <<reg, lock, files, shortcut, listed, purged, spoiled>>

\* deep_remove opens the store and plans from the entry; NotFound and Protected
\* are errors.
PlanRemove(p, i) ==
    /\ Known(reg, i) /\ ~reg[i].protected
    /\ Begin(p, "delete", i, IF reg[i].dir \in Allowed THEN reg[i].dir ELSE NoDir)
    /\ spoiled' = spoiled
           \union (IF reg[i].dir \in Allowed THEN SharedBy(i, reg[i].dir) ELSE {})
           \union Clash({q \in BusyWith(p, i, reg[i].dir) : Installing(q)}, i)
    /\ UNCHANGED <<reg, files, shortcut, listed, purged>>

\* Mutation: deep_remove opens the store without taking the lock.
OpenStoreUnlocked(p, i) == PlanRemove(p, i) /\ UNCHANGED lock

OpenStore(p, i) == lock = Nobody /\ lock' = p /\ PlanRemove(p, i)

DeletePiece(p, f) ==
    /\ At(p, "delete") /\ job[p].dir # NoDir /\ f \in files[job[p].dir]
    /\ files' = [files EXCEPT ![job[p].dir] = @ \ {f}]
    /\ UNCHANGED <<reg, lock, shortcut, listed, job, purged, spoiled>>

DeletedAll(p) ==
    /\ At(p, "delete")
    /\ job[p].dir # NoDir => files[job[p].dir] = {}
    /\ Goes(p, "unlink")
    /\ UNCHANGED <<reg, lock, files, shortcut, listed, purged, spoiled>>

DeleteShortcut(p) ==
    /\ At(p, "unlink") /\ Goes(p, "mark")
    /\ shortcut' = IF job[p].id \in listed THEN shortcut \ {job[p].id} ELSE shortcut
    /\ UNCHANGED <<reg, lock, files, listed, purged, spoiled>>

\* The entry is marked, the file flushed and the store dropped.
Mark(p) ==
    /\ At(p, "mark") /\ reg' \in Remove(reg, job[p].id)
    /\ purged' = purged \union {job[p].id}
    /\ lock' = IF lock = p THEN Nobody ELSE lock
    /\ job' = [job EXCEPT ![p] = Free]
    /\ UNCHANGED <<files, shortcut, listed, spoiled>>

\* An error return or a kill; the lock goes with the process.
Stop(p) ==
    /\ ~IsFree(p) /\ job' = [job EXCEPT ![p] = Free]
    /\ spoiled' = spoiled \union {job[p].id}
    /\ lock' = IF lock = p THEN Nobody ELSE lock
    /\ UNCHANGED <<reg, files, shortcut, listed, purged>>

Next ==
    \E p \in Proc :
        \/ \E i \in Ids : StartInstall(p, i) \/ OpenStore(p, i)
        \/ \E f \in Piece : ClearPiece(p, f) \/ UnpackPiece(p, f) \/ DeletePiece(p, f)
        \/ ClearDone(p) \/ InstallShortcut(p) \/ Finalize(p)
        \/ \E l \in Launchable : StartLaunch(p, l[1], l[2])
        \/ LaunchShortcut(p) \/ LaunchNoShortcut(p) \/ RegisterLaunch(p)
        \/ DeletedAll(p) \/ DeleteShortcut(p) \/ Mark(p) \/ Stop(p)

Spec == Init /\ [][Next]_vars

-----------------------------------------------------------------------------
\* The registry tells the truth about the disk.  For an app no command works
\* on and none was stopped on, that was never installed while something else
\* worked on it or in its directory, and that shares this with no other: if
\* deep_remove wrote the entry last, the files it may delete and the shortcut
\* are gone; if an install did, both are there.  Launches and removals of it
\* may overlap in any way.
RegistryMatchesDisk ==
    \A i \in Ids \ spoiled : Known(reg, i) /\ (\A p \in Proc : ~WorksOn(p, i)) =>
        /\ i \in purged =>
               /\ reg[i].dir \in Allowed => files[reg[i].dir] = {}
               /\ i \in listed => i \notin shortcut
        /\ reg[i].state = "installed" /\ reg[i].source = "installer" =>
               files[Own[i]] = Piece /\ i \in shortcut
=============================================================================
