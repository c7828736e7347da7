----------------------------- MODULE RegistryFile -----------------------------
(***************************************************************************)
(* The content of app-registry.json (strawwu-app-registry, entry.rs) and   *)
(* what each operation of RegistryStore (registry.rs) does to it.          *)
(*                                                                         *)
(* validate_registry rejects a file with two entries of one id, and the    *)
(* order of the list decides nothing modelled here, so a file is a         *)
(* function from ids to an entry or Absent.  Names, desktop entries,       *)
(* backends and timestamps are left out: no property tells them apart.     *)
(* The module has no state: AppRegistry and RegistryScan use it.          *)
(***************************************************************************)
CONSTANTS Ids,      \* application ids: slugs that validate_id accepts
          Dirs,     \* install directories
          Absent,   \* "no entry with this id"
          NoDir     \* install_path = None, or one that is no directory

Kinds   == {"win32", "linux", "flatpak", "native"}
Sources == {"installer", "launcher", "flatpak", "seed", "manual"}
States  == {"pending", "installing", "installed", "failed", "removed"}

Entry == [kind : Kinds, source : Sources, state : States,
          protected : BOOLEAN, dir : Dirs \union {NoDir}]

ASSUME AbsentAssumption == Absent \notin Entry

File == [Ids -> Entry \union {Absent}]

EmptyFile == [i \in Ids |-> Absent]

(***************************************************************************)
(* One request to an open store.  Every request has every field; a field   *)
(* the operation does not read is given any value.  "remove" stands for    *)
(* remove, remove_by_desktop and the last step of deep_remove; "sync" for  *)
(* sync_removed_from_scan, with the ids the scan discovered in found.      *)
(***************************************************************************)
Commands == {"register", "launch", "pending", "finalize", "remove", "upsert", "sync"}

Request == [cmd : Commands, id : Ids, kind : Kinds, source : Sources,
            protected : BOOLEAN, dir : Dirs \union {NoDir}, found : SUBSET Ids]

Known(f, i) == f[i] # Absent

NewEntry(r, kind, source, state, protected) ==
    [kind |-> kind, source |-> source, state |-> state,
     protected |-> protected, dir |-> r.dir]

\* The update branches keep the protected flag of the entry they rewrite.
Flag(f, i) == Known(f, i) /\ f[i].protected

Put(f, i, e) == [f EXCEPT ![i] = e]

\* register_new and register: Duplicate is an error, nothing is written.
Register(f, r) ==
    IF Known(f, r.id) THEN {}
    ELSE {Put(f, r.id, NewEntry(r, r.kind, r.source, "installed", r.protected))}

\* upsert_from_launch: an app that was launched is Installed and Launcher's,
\* whatever its entry said before.
UpsertFromLaunch(f, r) ==
    {Put(f, r.id, NewEntry(r, r.kind, "launcher", "installed", Flag(f, r.id)))}

\* upsert_from_install: an install was started.
UpsertFromInstall(f, r) ==
    {Put(f, r.id, NewEntry(r, "win32", "installer", "pending", Flag(f, r.id)))}

\* finalize_install: a native unpack install was finished.
FinalizeInstall(f, r) ==
    {Put(f, r.id, NewEntry(r, "win32", "installer", "installed", Flag(f, r.id)))}

\* should_skip_scan_upsert
SkipScanUpsert(e) ==
    \/ e.protected
    \/ e.source = "launcher"
    \/ e.source = "installer" /\ e.kind = "win32"

\* upsert_from_scan: adds, updates or reactivates; skipped entries stay.
UpsertFromScan(f, r) ==
    IF Known(f, r.id) /\ SkipScanUpsert(f[r.id]) THEN {}
    ELSE {Put(f, r.id, NewEntry(r, r.kind, r.source, "installed", FALSE))}

\* Mutation: remove forgets to look at the protected flag.
RemoveUnchecked(f, i) ==
    IF Known(f, i) THEN {Put(f, i, [f[i] EXCEPT !.state = "removed"])} ELSE {}

\* remove: NotFound and Protected are errors; the entry stays as a tombstone.
Remove(f, i) ==
    IF Known(f, i) /\ ~f[i].protected
    THEN {Put(f, i, [f[i] EXCEPT !.state = "removed"])}
    ELSE {}

\* should_sync_remove_on_scan
SyncRemoveOnScan(e) ==
    /\ ~e.protected
    /\ e.state = "installed"
    /\ <<e.kind, e.source>> \in {<<"linux", "manual">>, <<"flatpak", "flatpak">>}

\* Mutation: discovered ids are candidates too.
SyncCandidatesAll(f, found) ==
    {i \in Ids : Known(f, i) /\ SyncRemoveOnScan(f[i])}

\* The candidates of sync_removed_from_scan: scan-managed, not discovered.
SyncCandidates(f, found) ==
    {i \in Ids \ found : Known(f, i) /\ SyncRemoveOnScan(f[i])}

\* sync_removed_from_scan removes its candidates one flush at a time; one
\* effect is one of those removals.
SyncRemoved(f, r) == UNION {Remove(f, i) : i \in SyncCandidates(f, r.found)}

(***************************************************************************)
(* The files the request may leave after its next flush; {} when it writes *)
(* nothing (an error, a skipped entry, no candidate left to remove).       *)
(***************************************************************************)
Effects(f, r) ==
    CASE r.cmd = "register" -> Register(f, r)
      [] r.cmd = "launch"   -> UpsertFromLaunch(f, r)
      [] r.cmd = "pending"  -> UpsertFromInstall(f, r)
      [] r.cmd = "finalize" -> FinalizeInstall(f, r)
      [] r.cmd = "remove"   -> Remove(f, r.id)
      [] r.cmd = "upsert"   -> UpsertFromScan(f, r)
      [] r.cmd = "sync"     -> SyncRemoved(f, r)

\* An entry stays in the file, a protected one stays protected and does not
\* become removed.
Keeps(f, g) ==
    \A i \in Ids : Known(f, i) =>
        /\ Known(g, i)
        /\ f[i].protected => /\ g[i].protected
                             /\ g[i].state = "removed" => f[i].state = "removed"
===============================================================================
