------------------------------ MODULE RegistryScan ------------------------------
(***************************************************************************)
(* strawwu-app-registry scan and deep-remove against the packages of the   *)
(* machine (main.rs cmd_scan, scan.rs, deep_remove.rs and registry.rs).    *)
(*                                                                         *)
(* A scan lists the applications first and opens the registry after that,  *)
(* so what it applies may be out of date; what it cannot read is missing   *)
(* from its list; and the package hooks run it for one class of packages   *)
(* only (apt-post-invoke: --linux, flatpak trigger: --flatpak).            *)
(* deep-remove deletes files or uninstalls the flatpak while it holds the  *)
(* registry, and marks the entry afterwards.                               *)
(*                                                                         *)
(* A session holds the lock from the read of the registry to its last      *)
(* flush; AppRegistry shows that its requests then act on the file itself  *)
(* (HolderIsCurrent, RefinesAtomic), so they do here.                      *)
(***************************************************************************)
EXTENDS RegistryFile

CONSTANTS Proc, Nobody,
          Class,      \* Class[i]: "linux" or "flatpak", the list i shows up in
          ScanModes,  \* the classes a scan may be asked for: sets of classes
          Others      \* the one-request sessions of other programs

ASSUME IdsAssumption == Ids # {}
ASSUME NobodyAssumption == Nobody \notin Proc
ASSUME ClassAssumption == Class \in [Ids -> {"linux", "flatpak"}]
ASSUME ModesAssumption == ScanModes \subseteq SUBSET {"linux", "flatpak"}
ASSUME OthersAssumption == Others \subseteq Request

VARIABLES reg,     \* the registry file
          lock,    \* the process whose session is open, or Nobody
          shown,   \* applications the machine lists now (.desktop files, flatpak list)
          pc,      \* pc[p]
          found,   \* found[p]: ids p's scan discovered
          seen,    \* seen[p]: everything the machine listed at that moment
          asked,   \* asked[p]: the classes p's scan was asked for
          unread,  \* unread[p]: what p's scan could not read at that moment
          todo,    \* todo[p]: discovered ids p has not upserted yet
          target   \* target[p]: the id p's deep-remove is about

looked == <<found, seen, asked, unread>>
vars == <<reg, lock, shown, pc, looked, todo, target>>

PcStates == {"idle", "scanned", "upsert", "sync", "asked", "plan", "delete", "mark", "leave"}

Init ==
    /\ reg = EmptyFile /\ lock = Nobody /\ shown = {}
    /\ pc = [p \in Proc |-> "idle"]
    /\ found = [p \in Proc |-> {}]
    /\ seen = found /\ asked = found /\ unread = found /\ todo = found
    /\ target \in [Proc -> {CHOOSE i \in Ids : TRUE}]

Go(p, from, to) == pc[p] = from /\ pc' = [pc EXCEPT ![p] = to]

\* Package managers install and uninstall applications.
PackageChange(i) ==
    /\ shown' = IF i \in shown THEN shown \ {i} ELSE shown \union {i}
    /\ UNCHANGED <<reg, lock, pc, looked, todo, target>>

\* A directory, a .desktop file or an entry that cannot be read is left out of
\* the list, and a flatpak list that fails is an empty one.
Unreadable(lost) ==
    LET flatpaks == {i \in shown : Class[i] = "flatpak"}
    IN  lost \intersect flatpaks \in {{}, flatpaks}

\* cmd_scan: scan_apps runs before open_store, and no failure ends it.
Discover(p) ==
    /\ Go(p, "idle", "scanned")
    /\ \E mode \in ScanModes, lost \in SUBSET shown :
          /\ Unreadable(lost)
          /\ found' = [found EXCEPT ![p] = {i \in shown \ lost : Class[i] \in mode}]
          /\ asked' = [asked EXCEPT ![p] = mode]
          /\ unread' = [unread EXCEPT ![p] = lost]
    /\ seen' = [seen EXCEPT ![p] = shown]
    /\ todo' = [todo EXCEPT ![p] = found'[p]]
    /\ UNCHANGED <<reg, lock, shown, target>>

AskDeepRemove(p) ==
    /\ Go(p, "idle", "asked")
    /\ \E i \in Ids : target' = [target EXCEPT ![p] = i]
    /\ UNCHANGED <<reg, lock, shown, looked, todo>>

\* Mutation: the store is opened without its lock.
OpenUnlocked(p) ==
    /\ lock' = p
    /\ Go(p, "scanned", "upsert") \/ Go(p, "asked", "plan")
    /\ UNCHANGED <<reg, shown, looked, todo, target>>

\* open_store.
Open(p) ==
    /\ lock = Nobody
    /\ lock' = p
    /\ Go(p, "scanned", "upsert") \/ Go(p, "asked", "plan")
    /\ UNCHANGED <<reg, shown, looked, todo, target>>

\* The request upsert_from_scan makes for a discovered application.
FoundRequest(i) ==
    [cmd |-> "upsert", id |-> i, kind |-> Class[i],
     source |-> IF Class[i] = "linux" THEN "manual" ELSE "flatpak",
     protected |-> FALSE, dir |-> NoDir, found |-> {}]

\* One turn of the upsert loop: added, updated, reactivated or skipped.
Upsert(p) ==
    /\ pc[p] = "upsert"
    /\ \E i \in todo[p] :
          LET effects == UpsertFromScan(reg, FoundRequest(i))
          IN  /\ todo' = [todo EXCEPT ![p] = @ \ {i}]
              /\ IF effects = {} THEN UNCHANGED reg ELSE reg' \in effects
    /\ UNCHANGED <<lock, shown, pc, looked, target>>

UpsertsDone(p) ==
    /\ todo[p] = {}
    /\ Go(p, "upsert", "sync")
    /\ UNCHANGED <<reg, lock, shown, looked, todo, target>>

\* sync_removed_from_scan marks one candidate.
SyncOne(p) ==
    /\ pc[p] = "sync"
    /\ \E i \in SyncCandidates(reg, found[p]) : reg' \in Remove(reg, i)
    /\ UNCHANGED <<lock, shown, pc, looked, todo, target>>

SyncDone(p) ==
    /\ SyncCandidates(reg, found[p]) = {}
    /\ Go(p, "sync", "leave")
    /\ UNCHANGED <<reg, lock, shown, looked, todo, target>>

\* deep_remove: NotFound and Protected are errors, before anything is deleted.
Plan(p) ==
    /\ Go(p, "plan", IF Remove(reg, target[p]) = {} THEN "leave" ELSE "delete")
    /\ UNCHANGED <<reg, lock, shown, looked, todo, target>>

\* execute_deep_remove_plan: a flatpak is uninstalled, which fails if it is
\* not there; files of the other kinds are outside the scanned directories.
Execute(p) ==
    /\ pc[p] = "delete"
    /\ IF reg[target[p]].kind = "flatpak"
       THEN /\ Go(p, "delete", IF target[p] \in shown THEN "mark" ELSE "leave")
            /\ shown' = shown \ {target[p]}
       ELSE Go(p, "delete", "mark") /\ UNCHANGED shown
    /\ UNCHANGED <<reg, lock, looked, todo, target>>

Mark(p) ==
    /\ Go(p, "mark", "leave")
    /\ reg' \in Remove(reg, target[p])
    /\ UNCHANGED <<lock, shown, looked, todo, target>>

\* The store is dropped: the work is done, a flush failed, open_at gave up,
\* or the process was killed.  Only "leave" is the planned end.
Close(p) ==
    /\ pc[p] # "idle"
    /\ pc' = [pc EXCEPT ![p] = "idle"]
    /\ lock' = IF lock = p THEN Nobody ELSE lock
    /\ found' = [found EXCEPT ![p] = {}]
    /\ seen' = [seen EXCEPT ![p] = {}]
    /\ asked' = [asked EXCEPT ![p] = {}]
    /\ unread' = [unread EXCEPT ![p] = {}]
    /\ todo' = [todo EXCEPT ![p] = {}]
    /\ UNCHANGED <<reg, shown, target>>

\* A launch, an install or a removal by another program: a session of one
\* request, which is atomic.
OtherSession ==
    /\ lock = Nobody
    /\ \E r \in Others : reg' \in Effects(reg, r)
    /\ UNCHANGED <<lock, shown, pc, looked, todo, target>>

Next ==
    \/ \E i \in Ids : PackageChange(i)
    \/ \E p \in Proc :
          \/ Discover(p) \/ AskDeepRemove(p) \/ Open(p)
          \/ Upsert(p) \/ UpsertsDone(p) \/ SyncOne(p) \/ SyncDone(p)
          \/ Plan(p) \/ Execute(p) \/ Mark(p) \/ Close(p)
    \/ OtherSession

Spec == Init /\ [][Next]_vars
--------------------------------------------------------------------------------
\* Every variable keeps its type: the registry stays a file that can be read.
TypeOK ==
    /\ reg \in File
    /\ lock \in Proc \union {Nobody}
    /\ shown \subseteq Ids
    /\ pc \in [Proc -> PcStates]
    /\ found \in [Proc -> SUBSET Ids]
    /\ seen \in [Proc -> SUBSET Ids]
    /\ asked \in [Proc -> SUBSET {"linux", "flatpak"}]
    /\ unread \in [Proc -> SUBSET Ids]
    /\ todo \in [Proc -> SUBSET Ids]
    /\ target \in [Proc -> Ids]

\* When a scan has upserted all it discovered, the registry shows all of it as
\* installed, except entries the scan must leave alone; nothing another
\* session does in the meantime undoes a part of it.
ScanReconciles ==
    \A p \in Proc : pc[p] = "sync" =>
        \A i \in found[p] :
            Known(reg, i) /\ (SkipScanUpsert(reg[i]) \/ reg[i].state = "installed")

\* A scan marks an app removed only for a reason it had when it looked: the
\* machine did not list the app, the scan was not asked for its class, or what
\* names the app could not be read.  Whatever other sessions write between the
\* listing and the marks, no app the scan found is marked.
SyncExplained ==
    [][\A p \in Proc : lock = p /\ pc[p] = "sync" =>
          \A i \in Ids : Known(reg, i) /\ reg[i].state = "installed"
                            /\ reg'[i].state # "installed"
              => i \notin seen[p] \/ Class[i] \notin asked[p] \/ i \in unread[p]]_vars

\* sync_removed_from_scan marks "scan-managed apps removed when they disappear
\* from Linux/Flatpak discovery" (registry.rs:548): an app that the machine
\* listed when the scan ran, where it could be read, is not marked.
SyncJustified ==
    [][\A p \in Proc : lock = p /\ pc[p] = "sync" =>
          \A i \in seen[p] \ unread[p] : Known(reg, i) /\ reg[i].state = "installed"
                                => reg'[i].state = "installed"]_vars
================================================================================
