------------------------------ MODULE AppManager ------------------------------
(***************************************************************************)
(* strawnt-appmgr: the commands `strawnt apps ...` as processes that share *)
(* appmgr/apps.json (the database of manifests) and                        *)
(* appmgr/permissions.json (the grants).                                   *)
(*                                                                         *)
(* There is no lock, and fs::write truncates a file before it fills it.  A *)
(* command creates the files that are missing (ensure_layout), reads the   *)
(* database, changes its copy, writes all of it back, and, for a grant or  *)
(* a revocation, does the same with the grants.  It may be killed, or the  *)
(* disk be full, at any step.                                              *)
(***************************************************************************)
CONSTANTS Proc,     \* process slots; a slot runs one command at a time
          Ids,      \* application ids
          Sys,      \* DEDICATED_SYSAPPS
          Caps,     \* capabilities
          Absent,   \* no manifest with this id
          Commands  \* the commands that are run

App == [state : {"installed", "registered", "removed"},
        system : BOOLEAN,     \* protected and system_app, always set together
        perms : SUBSET Caps]
Db  == [Ids -> App \union {Absent}]
Grants == SUBSET (Ids \X Caps)

ASSUME SysAssumption == Sys \subseteq Ids
ASSUME AbsentAssumption == Absent \notin App

EmptyDb == [i \in Ids |-> Absent]

\* A file is missing, "blank" (truncated and not filled yet), "torn" (other
\* text that does not parse) or "whole", with what it then says in "of".
Files(S)   == [is : {"missing", "blank", "torn", "whole"}, of : S]
Whole(v)   == [is |-> "whole", of |-> v]
NoText(how, empty) == [is |-> how, of |-> empty]
Damaged(f) == f.is \in {"blank", "torn"}

\* "show" stands for the commands that only read, "list" for those that
\* register the system apps first (list, status, sysapps), "edit" for
\* prefix and recipes, which change parts of a manifest not modelled here.
Ops == {"show", "list", "channel", "edit", "install", "uninstall", "grant", "revoke"}
Command == [op : Ops, id : Ids, cap : Caps]

ASSUME CommandsAssumption == Commands \subseteq Command

VARIABLES db,       \* apps.json
          grants,   \* permissions.json
          pc,       \* pc[p]
          cmd,      \* cmd[p]: the command p runs
          mem,      \* mem[p]: the database p is to write
          gmem,     \* gmem[p]: the grants p is to write
          allowed,  \* history: permissions the user granted and did not revoke since
          owed,     \* owed[p]: history: what p's revocation takes back when it succeeds
          failed    \* history: some command did not get to its end

vars == <<db, grants, pc, cmd, mem, gmem, allowed, owed, failed>>

PcStates == {"idle", "layout", "makedb", "filldb", "layout2", "makeperms", "fillperms",
             "load", "save", "save2", "loadperms", "saveperms", "saveperms2"}

Init ==
    /\ db = NoText("missing", EmptyDb) /\ grants = NoText("missing", {})
    /\ pc = [p \in Proc |-> "idle"]
    /\ cmd \in [Proc -> Commands]
    /\ mem = [p \in Proc |-> EmptyDb] /\ gmem = [p \in Proc |-> {}]
    /\ allowed = {} /\ owed = [p \in Proc |-> {}] /\ failed = FALSE

-----------------------------------------------------------------------------
(* What a command makes of the database it read; {} if it writes none.     *)

Active(d, i) == d[i] # Absent /\ d[i].state # "removed"

\* AppMgrDb::upsert replaces the manifest; a new one has no permissions.
Manifest(state, system) == [state |-> state, system |-> system, perms |-> {}]

\* ensure_sysapps_registered adds those that are absent or removed.
RegisterSysapps(d) ==
    [i \in Ids |-> IF i \in Sys /\ ~Active(d, i) THEN Manifest("registered", TRUE) ELSE d[i]]

Install(d, i) == {[d EXCEPT ![i] = Manifest("installed", FALSE)]}

Uninstall(d, i) ==
    IF d[i] # Absent /\ ~d[i].system THEN {[d EXCEPT ![i].state = "removed"]} ELSE {}

AddPermission(d, i, c) ==
    IF Active(d, i) THEN {[d EXCEPT ![i].perms = @ \union {c}]} ELSE {}

\* Mutation: a revocation looks for the app the way a grant does.
DropPermissionActive(d, i, c) ==
    IF Active(d, i) THEN {[d EXCEPT ![i].perms = @ \ {c}]} ELSE {}

\* revoke_permission finds removed apps too.
DropPermission(d, i, c) ==
    IF d[i] # Absent THEN {[d EXCEPT ![i].perms = @ \ {c}]} ELSE {}

Edited(d, c) ==
    CASE c.op = "show"      -> {}
      [] c.op = "list"      -> {RegisterSysapps(d)}
      [] c.op = "channel"   -> {d}
      [] c.op = "edit"      -> IF Active(d, c.id) THEN {d} ELSE {}
      [] c.op = "install"   -> Install(d, c.id)
      [] c.op = "uninstall" -> Uninstall(d, c.id)
      [] c.op = "grant"     -> AddPermission(d, c.id, c.cap)
      [] c.op = "revoke"    -> DropPermission(d, c.id, c.cap)

Pair(c) == <<c.id, c.cap>>

\* Mutation: retain(!(a && b)) written as retain(!a && !b).
RegrantedNeither(g, c) ==
    IF c.op = "grant" THEN g \union {Pair(c)}
    ELSE {x \in g : x[1] # c.id /\ x[2] # c.cap}

\* What a grant or a revocation makes of the grants.
Regranted(g, c) == IF c.op = "grant" THEN g \union {Pair(c)} ELSE g \ {Pair(c)}

Perms(d) == {x \in Ids \X Caps : d[x[1]] # Absent /\ x[2] \in d[x[1]].perms}

-----------------------------------------------------------------------------
\* The copies of a command end with it, or with the write they were for.
DropMem(p)  == mem' = [mem EXCEPT ![p] = EmptyDb]
DropGmem(p) == gmem' = [gmem EXCEPT ![p] = {}]

Go(p, from, to) == pc[p] = from /\ pc' = [pc EXCEPT ![p] = to]

\* A command starts.  A grant counts from its start, a revocation from its
\* end, unless the same permission is granted while it runs.
Begin(p) ==
    /\ Go(p, "idle", "layout")
    /\ \E c \in Commands :
          LET granting(q) == pc[q] # "idle" /\ cmd[q].op = "grant" /\ Pair(cmd[q]) = Pair(c)
          IN  /\ cmd' = [cmd EXCEPT ![p] = c]
              /\ allowed' = IF c.op = "grant" THEN allowed \union {Pair(c)} ELSE allowed
              /\ owed' = CASE c.op = "grant" ->
                                 [q \in Proc |-> IF q = p THEN {} ELSE owed[q] \ {Pair(c)}]
                           [] c.op = "revoke" /\ ~\E q \in Proc : granting(q) ->
                                 [owed EXCEPT ![p] = {Pair(c)}]
                           [] OTHER -> [owed EXCEPT ![p] = {}]
    /\ UNCHANGED <<db, grants, mem, gmem, failed>>

\* ensure_layout: does apps.json exist?
LayoutDb(p) ==
    /\ IF db.is = "missing"
       THEN Go(p, "layout", "makedb") /\ DropMem(p)
       ELSE Go(p, "layout", "layout2") /\ UNCHANGED mem
    /\ UNCHANGED <<db, grants, cmd, gmem, allowed, owed, failed>>

\* ensure_layout: does permissions.json exist?
LayoutPerms(p) ==
    /\ IF grants.is = "missing"
       THEN Go(p, "layout2", "makeperms") /\ DropGmem(p)
       ELSE Go(p, "layout2", "load") /\ UNCHANGED gmem
    /\ UNCHANGED <<db, grants, cmd, mem, allowed, owed, failed>>

\* fs::write of apps.json: the file is truncated ...
TruncateDb(p) ==
    /\ Go(p, "makedb", "filldb") \/ Go(p, "save", "save2")
    /\ db' = NoText("blank", EmptyDb)
    /\ UNCHANGED <<grants, cmd, mem, gmem, allowed, owed, failed>>

\* What a file holds after v was written at its start: text that another
\* command put there meanwhile stays where it was longer.
Overlay(old, v, empty) ==
    {Whole(v)} \union (IF old.is = "blank" THEN {} ELSE {NoText("torn", empty)})

\* ... and filled.
FillDb(p) ==
    /\ \/ Go(p, "filldb", "layout2")
       \/ cmd[p].op \in {"grant", "revoke"} /\ Go(p, "save2", "loadperms")
       \/ cmd[p].op \notin {"grant", "revoke"} /\ Go(p, "save2", "idle")
    /\ db' \in Overlay(db, mem[p], EmptyDb)
    /\ DropMem(p)
    /\ UNCHANGED <<grants, cmd, gmem, allowed, owed, failed>>

\* Mutation: a database that does not parse is taken for an empty one.
LoadOrDefault(p) ==
    /\ \/ /\ \E d \in Edited(db.of, cmd[p]) : mem' = [mem EXCEPT ![p] = d]
          /\ Go(p, "load", "save")
       \/ /\ Edited(db.of, cmd[p]) = {} /\ UNCHANGED mem
          /\ Go(p, "load", IF cmd[p].op = "revoke" THEN "loadperms" ELSE "idle")
    /\ UNCHANGED <<db, grants, cmd, gmem, allowed, owed, failed>>

\* load_db, and the change: what does not parse is an error, and so is an
\* app that is not found; a revocation goes on without one.
Load(p) ==
    /\ \/ Damaged(db) /\ Go(p, "load", "idle") /\ UNCHANGED mem
       \/ /\ ~Damaged(db)
          /\ \E d \in Edited(db.of, cmd[p]) : mem' = [mem EXCEPT ![p] = d]
          /\ Go(p, "load", "save")
       \/ /\ ~Damaged(db) /\ Edited(db.of, cmd[p]) = {} /\ UNCHANGED mem
          /\ Go(p, "load", IF cmd[p].op = "revoke" THEN "loadperms" ELSE "idle")
    /\ UNCHANGED <<db, grants, cmd, gmem, allowed, owed, failed>>

\* load_grants, and the change.
LoadPerms(p) ==
    /\ \/ Damaged(grants) /\ Go(p, "loadperms", "idle") /\ UNCHANGED gmem
       \/ /\ ~Damaged(grants)
          /\ Go(p, "loadperms", "saveperms")
          /\ gmem' = [gmem EXCEPT ![p] = Regranted(grants.of, cmd[p])]
    /\ UNCHANGED <<db, grants, cmd, mem, allowed, owed, failed>>

\* fs::write of permissions.json.
TruncatePerms(p) ==
    /\ Go(p, "makeperms", "fillperms") \/ Go(p, "saveperms", "saveperms2")
    /\ grants' = NoText("blank", {})
    /\ UNCHANGED <<db, cmd, mem, gmem, allowed, owed, failed>>

\* The last write of a command that changes the grants is its end.
FillPerms(p) ==
    /\ \/ Go(p, "fillperms", "load") /\ UNCHANGED allowed
       \/ Go(p, "saveperms2", "idle") /\ allowed' = allowed \ owed[p]
    /\ grants' \in Overlay(grants, gmem[p], {})
    /\ DropGmem(p)
    /\ UNCHANGED <<db, cmd, mem, owed, failed>>

\* A write that fails half way (disk full) is an error.
ShortWrite(p) ==
    /\ \/ Go(p, "filldb", "idle") \/ Go(p, "save2", "idle")
       \/ Go(p, "fillperms", "idle") \/ Go(p, "saveperms2", "idle")
    /\ IF pc[p] \in {"filldb", "save2"}
       THEN db' = NoText("torn", EmptyDb) /\ UNCHANGED grants
       ELSE grants' = NoText("torn", {}) /\ UNCHANGED db
    /\ failed' = TRUE
    /\ DropMem(p) /\ DropGmem(p)
    /\ UNCHANGED <<cmd, allowed, owed>>

\* The command is killed, or a call fails before it changed a file.
Kill(p) ==
    /\ pc[p] # "idle"
    /\ pc' = [pc EXCEPT ![p] = "idle"]
    /\ failed' = TRUE
    /\ DropMem(p) /\ DropGmem(p)
    /\ UNCHANGED <<db, grants, cmd, allowed, owed>>

Step(p) == \/ LayoutDb(p) \/ LayoutPerms(p)
           \/ TruncateDb(p) \/ FillDb(p) \/ Load(p)
           \/ LoadPerms(p) \/ TruncatePerms(p) \/ FillPerms(p)

Next == \E p \in Proc : Begin(p) \/ Step(p) \/ ShortWrite(p) \/ Kill(p)

Spec == Init /\ [][Next]_vars

-----------------------------------------------------------------------------
\* The type invariant.
TypeOK ==
    /\ db \in Files(Db) /\ grants \in Files(Grants)
    /\ pc \in [Proc -> PcStates]
    /\ cmd \in [Proc -> Commands]
    /\ mem \in [Proc -> Db] /\ gmem \in [Proc -> Grants]
    /\ allowed \in Grants /\ owed \in [Proc -> Grants] /\ failed \in BOOLEAN

AllIdle == \A p \in Proc : pc[p] = "idle"

\* Capabilities are default-deny (permissions.rs:52): a permission that
\* either file lists was granted by the user and not revoked since, whatever
\* was installed, removed, listed, or killed half way in between.
DefaultDeny == Perms(db.of) \subseteq allowed /\ grants.of \subseteq allowed

\* The two files agree between commands, as long as none failed: what a
\* manifest lists is granted (`apps permissions` prints both).  A reinstall
\* empties the manifest's list only, so the converse does not hold.
FilesAgree ==
    (AllIdle /\ ~failed) => Perms(db.of) \subseteq grants.of

\* A damaged database is left for the user to repair: once no command runs,
\* none that starts later writes over it (load_db returns the error).
DamageKept ==
    []((AllIdle /\ Damaged(db)) => []Damaged(db))
===============================================================================
