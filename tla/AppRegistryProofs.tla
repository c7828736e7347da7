--------------------------- MODULE AppRegistryProofs ---------------------------
(***************************************************************************)
(* What TLAPS proves of AppRegistry, for every set of processes, of ids    *)
(* and of sessions.                                                        *)
(***************************************************************************)
EXTENDS AppRegistry, TLAPS

(***************************************************************************)
(* The operations on the file.                                             *)
(***************************************************************************)

\* The entry an operation writes is an entry.
LEMMA NewEntryType ==
    ASSUME NEW r \in Request, NEW kind \in Kinds, NEW source \in Sources,
           NEW state \in States, NEW protected \in BOOLEAN
    PROVE  NewEntry(r, kind, source, state, protected) \in Entry
BY DEF NewEntry, Request, Entry

\* Replacing the entry of one id gives a file.
LEMMA PutType ==
    ASSUME NEW f \in File, NEW i \in Ids, NEW e \in Entry
    PROVE  Put(f, i, e) \in File
BY DEF Put, File

\* remove gives files: a known entry with another state is an entry.
LEMMA RemoveType ==
    ASSUME NEW f \in File, NEW i \in Ids
    PROVE  Remove(f, i) \subseteq File
<1> SUFFICES ASSUME Known(f, i) PROVE Put(f, i, [f[i] EXCEPT !.state = "removed"]) \in File
    BY DEF Remove
<1>1. f[i] \in Entry
    BY DEF Known, File
<1>2. [f[i] EXCEPT !.state = "removed"] \in Entry
    BY <1>1 DEF Entry, States
<1> QED
    BY <1>2, PutType

\* Every request leaves a file: flush() never writes one that open_at rejects.
LEMMA EffectsType ==
    ASSUME NEW f \in File, NEW r \in Request
    PROVE  Effects(f, r) \subseteq File
<1>0. /\ r.id \in Ids /\ r.kind \in Kinds /\ r.source \in Sources /\ r.protected \in BOOLEAN
      /\ r.cmd \in Commands
    BY DEF Request
<1>1. Flag(f, r.id) \in BOOLEAN
    BY <1>0 DEF Flag, Known, File, Entry
<1>2. {"win32"} \subseteq Kinds /\ {"installer", "launcher"} \subseteq Sources
      /\ {"pending", "installed"} \subseteq States
    BY DEF Kinds, Sources, States
<1>3. Register(f, r) \subseteq File
    BY <1>0, <1>2, NewEntryType, PutType DEF Register
<1>4. UpsertFromLaunch(f, r) \subseteq File
    BY <1>0, <1>1, <1>2, NewEntryType, PutType DEF UpsertFromLaunch
<1>5. UpsertFromInstall(f, r) \subseteq File
    BY <1>0, <1>1, <1>2, NewEntryType, PutType DEF UpsertFromInstall
<1>6. FinalizeInstall(f, r) \subseteq File
    BY <1>0, <1>1, <1>2, NewEntryType, PutType DEF FinalizeInstall
<1>7. UpsertFromScan(f, r) \subseteq File
    BY <1>0, <1>2, NewEntryType, PutType DEF UpsertFromScan
<1>8. SyncRemoved(f, r) \subseteq File
    BY RemoveType DEF SyncRemoved, SyncCandidates
<1>9. Remove(f, r.id) \subseteq File
    BY <1>0, RemoveType
<1> QED
    BY <1>0, <1>3, <1>4, <1>5, <1>6, <1>7, <1>8, <1>9 DEF Effects, Commands

\* Replacing an entry keeps what is promised if the new one does.
LEMMA PutKeeps ==
    ASSUME NEW f \in File, NEW i \in Ids, NEW e \in Entry,
           Known(f, i) /\ f[i].protected => e.protected /\ e.state # "removed"
    PROVE  Keeps(f, Put(f, i, e))
<1> DEFINE g == Put(f, i, e)
<1>1. \A k \in Ids : g[k] = IF k = i THEN e ELSE f[k]
    BY DEF Put, File
<1>2. e # Absent
    BY AbsentAssumption
<1> SUFFICES ASSUME NEW k \in Ids, f[k] # Absent
             PROVE  /\ g[k] # Absent
                    /\ f[k].protected => /\ g[k].protected
                                         /\ g[k].state = "removed" => f[k].state = "removed"
    BY DEF Keeps, Known
<1>3. CASE k = i
    BY <1>1, <1>2, <1>3 DEF Known
<1>4. CASE k # i
    BY <1>1, <1>4
<1> QED
    BY <1>3, <1>4

\* No request takes an entry out of the file, nor the protection off an entry,
\* nor marks a protected one removed.
LEMMA EffectsKeep ==
    ASSUME NEW f \in File, NEW r \in Request, NEW g \in Effects(f, r)
    PROVE  Keeps(f, g)
<1>0. r.id \in Ids /\ r.cmd \in Commands /\ r.kind \in Kinds /\ r.source \in Sources
      /\ r.protected \in BOOLEAN
    BY DEF Request
<1>1. ASSUME NEW i \in Ids, NEW h \in Remove(f, i) PROVE Keeps(f, h)
    <2>1. h = Put(f, i, [f[i] EXCEPT !.state = "removed"]) /\ Known(f, i) /\ ~f[i].protected
        BY DEF Remove
    <2>2. [f[i] EXCEPT !.state = "removed"] \in Entry
        BY <2>1 DEF Known, File, Entry, States
    <2> QED
        BY <2>1, <2>2, PutKeeps
<1>2. ASSUME NEW kind \in Kinds, NEW source \in Sources, NEW state \in States \ {"removed"},
             NEW protected \in BOOLEAN,
             Known(f, r.id) /\ f[r.id].protected => protected
      PROVE  Keeps(f, Put(f, r.id, NewEntry(r, kind, source, state, protected)))
    <2>1. NewEntry(r, kind, source, state, protected) \in Entry
        BY NewEntryType
    <2>2. /\ NewEntry(r, kind, source, state, protected).protected = protected
          /\ NewEntry(r, kind, source, state, protected).state = state
        BY DEF NewEntry
    <2> QED
        BY <1>0, <1>2, <2>1, <2>2, PutKeeps
<1>3. /\ {"win32"} \subseteq Kinds /\ {"installer", "launcher"} \subseteq Sources
      /\ {"pending", "installed"} \subseteq States \ {"removed"}
    BY DEF Kinds, Sources, States
<1>4. Flag(f, r.id) \in BOOLEAN /\ (Known(f, r.id) /\ f[r.id].protected => Flag(f, r.id))
    BY <1>0 DEF Flag, Known, File, Entry
<1>5. CASE r.cmd = "register"
    BY <1>0, <1>2, <1>3, <1>5 DEF Effects, Register
<1>6. CASE r.cmd = "launch"
    BY <1>0, <1>2, <1>3, <1>4, <1>6 DEF Effects, UpsertFromLaunch
<1>7. CASE r.cmd = "pending"
    BY <1>0, <1>2, <1>3, <1>4, <1>7 DEF Effects, UpsertFromInstall
<1>8. CASE r.cmd = "finalize"
    BY <1>0, <1>2, <1>3, <1>4, <1>8 DEF Effects, FinalizeInstall
<1>9. CASE r.cmd = "remove"
    BY <1>0, <1>1, <1>9 DEF Effects
<1>10. CASE r.cmd = "upsert"
    BY <1>0, <1>2, <1>3, <1>10 DEF Effects, UpsertFromScan, SkipScanUpsert
<1>11. CASE r.cmd = "sync"
    BY <1>0, <1>1, <1>11 DEF Effects, SyncRemoved, SyncCandidates
<1> QED
    BY <1>0, <1>5, <1>6, <1>7, <1>8, <1>9, <1>10, <1>11 DEF Commands

(***************************************************************************)
(* Type correctness and the lock.                                          *)
(***************************************************************************)

\* What remains of a session is a session.
LEMMA TailType ==
    ASSUME NEW j \in Seq(Request), j # <<>>
    PROVE  Head(j) \in Request /\ Tail(j) \in Seq(Request)
OBVIOUS

\* A registry without entries, as an absent file reads, is a registry.
LEMMA EmptyFileType == EmptyFile \in File
BY DEF EmptyFile, File

\* Before any session nobody holds the lock and the file is complete.
LEMMA InitLockInv == Init => LockInv
BY EmptyFileType, NobodyAssumption DEF Init, LockInv, TypeOK, PcStates, OpenStates

\* No step of a session, and no kill, breaks the correspondence between the
\* lock and who has the store open, or brings an incomplete file near the rename.
LEMMA NextLockInv == LockInv /\ [Next]_vars => LockInv'
<1> SUFFICES ASSUME LockInv, [Next]_vars PROVE LockInv'
    OBVIOUS
<1> USE DEF LockInv, TypeOK, PcStates, OpenStates
<1>1. CASE UNCHANGED vars
    BY <1>1 DEF vars
<1>2. ASSUME NEW p \in Proc, Begin(p) PROVE LockInv'
    BY <1>2, JobsAssumption DEF Begin, Go
<1>3. ASSUME NEW p \in Proc, Bypass(p) PROVE LockInv'
    BY <1>3 DEF Bypass, Go
<1>4. ASSUME NEW p \in Proc, Acquire(p) PROVE LockInv'
    BY <1>4, NobodyAssumption DEF Acquire, Go
<1>5. ASSUME NEW p \in Proc, Busy(p) PROVE LockInv'
    BY <1>5 DEF Busy, Go
<1>6. ASSUME NEW p \in Proc, Timeout(p) PROVE LockInv'
    BY <1>6 DEF Timeout, Go
<1>7. ASSUME NEW p \in Proc, Read(p) PROVE LockInv'
    BY <1>7, TornAssumption DEF Read, Go
<1>8. ASSUME NEW p \in Proc, Mutate(p) PROVE LockInv'
    BY <1>8, TailType, EffectsType DEF Mutate, Go
<1>9. ASSUME NEW p \in Proc, Pass(p) PROVE LockInv'
    BY <1>9, TailType DEF Pass
<1>10. ASSUME NEW p \in Proc, CreateTmp(p) PROVE LockInv'
    BY <1>10 DEF CreateTmp, Go
<1>11. ASSUME NEW p \in Proc, WriteTmp(p) PROVE LockInv'
    BY <1>11 DEF WriteTmp, Go
<1>12. ASSUME NEW p \in Proc, Rename(p) PROVE LockInv'
    BY <1>12, TailType DEF Rename, Go
<1>13. ASSUME NEW p \in Proc, FlushFail(p) PROVE LockInv'
    BY <1>13 DEF FlushFail, Go
<1>14. ASSUME NEW p \in Proc, Leave(p) PROVE LockInv'
    BY <1>14, EmptyFileType, NobodyAssumption DEF Leave, Release, Go
<1>15. ASSUME NEW p \in Proc, Crash(p) PROVE LockInv'
    BY <1>15, EmptyFileType, NobodyAssumption DEF Crash, Release
<1> QED
    BY <1>1, <1>2, <1>3, <1>4, <1>5, <1>6, <1>7, <1>8, <1>9, <1>10, <1>11, <1>12, <1>13,
       <1>14, <1>15 DEF Next, Step

\* Every variable of AppRegistry always has its type: the copies in memory and
\* the sessions' remaining requests, whatever they are, stay well formed.
THEOREM TypeCorrect == Spec => []TypeOK
<1>1. LockInv => TypeOK
    BY DEF LockInv
<1> QED
    BY InitLockInv, NextLockInv, <1>1, PTL DEF Spec

\* Two processes that opened the lock file never have the store open together.
THEOREM StoresExclusive == Spec => []Exclusive
<1>1. LockInv => Exclusive
    BY DEF LockInv, Exclusive
<1> QED
    BY InitLockInv, NextLockInv, <1>1, PTL DEF Spec

\* open_at never meets a truncated file, wherever processes are killed in flush.
THEOREM FileComplete == Spec => []NeverTorn
<1>1. LockInv => NeverTorn
    BY TornAssumption DEF LockInv, NeverTorn
<1> QED
    BY InitLockInv, NextLockInv, <1>1, PTL DEF Spec

(***************************************************************************)
(* What the lock buys, when the only processes that go without it cannot   *)
(* write (BypassWrites = FALSE): the holder's copy is current.             *)
(***************************************************************************)
CurrentInv == LockInv /\ BypassInv /\ HolderIsCurrent

\* Before any session there is no copy that could be out of date.
LEMMA InitCurrentInv == Init => CurrentInv
<1> SUFFICES ASSUME Init PROVE BypassInv /\ HolderIsCurrent
    BY InitLockInv DEF CurrentInv
<1> QED
    BY NobodyAssumption, PrivilegeAssumption DEF Init, BypassInv, HolderIsCurrent

\* Who replaces the file holds the lock.
LEMMA RenamerHolds ==
    ASSUME CurrentInv, NEW p \in Proc, Rename(p)
    PROVE  /\ lock = p /\ job[p] # <<>> /\ disk' = mem[p]
           /\ mem[p] \in Effects(disk, Head(job[p]))
<1>1. pc[p] = "renaming"
    BY DEF Rename, Go
<1>2. p \notin Unprivileged
    BY <1>1 DEF CurrentInv, BypassInv
<1>3. lock = p /\ tmp[p] = "whole"
    BY <1>1, <1>2 DEF CurrentInv, LockInv, OpenStates
<1> QED
    BY <1>1, <1>3 DEF CurrentInv, HolderIsCurrent, Rename

\* No step makes the lock holder's copy differ from the file by more than the
\* request it flushes: the only step that changes the file is the holder's own.
LEMMA NextCurrentInv ==
    ASSUME BypassWrites = FALSE
    PROVE  CurrentInv /\ [Next]_vars => CurrentInv'
<1> SUFFICES ASSUME CurrentInv, [Next]_vars PROVE BypassInv' /\ HolderIsCurrent'
    BY NextLockInv DEF CurrentInv
<1>0. LockInv /\ BypassInv /\ HolderIsCurrent /\ TypeOK /\ LockInv' /\ TypeOK'
    BY NextLockInv DEF CurrentInv, LockInv
<1> USE DEF TypeOK, PcStates, OpenStates, BypassInv, HolderIsCurrent
<1>1. CASE UNCHANGED vars
    BY <1>0, <1>1 DEF vars
<1>2. ASSUME NEW p \in Proc, Begin(p) PROVE BypassInv' /\ HolderIsCurrent'
    BY <1>0, <1>2 DEF Begin, Go, LockInv
<1>3. ASSUME NEW p \in Proc, Bypass(p) PROVE BypassInv' /\ HolderIsCurrent'
    BY <1>0, <1>3 DEF Bypass, Go, LockInv
<1>4. ASSUME NEW p \in Proc, Acquire(p) PROVE BypassInv' /\ HolderIsCurrent'
    <2>1. /\ p \notin Unprivileged /\ lock' = p
          /\ pc' = [pc EXCEPT ![p] = "opening"]
        BY <1>4 DEF Acquire, Go
    <2>2. BypassInv'
        BY <1>0, <2>1, PrivilegeAssumption
    <2>3. HolderIsCurrent'
        BY <1>0, <2>1
    <2> QED
        BY <2>2, <2>3
<1>5. ASSUME NEW p \in Proc, Busy(p) PROVE BypassInv' /\ HolderIsCurrent'
    BY <1>0, <1>5 DEF Busy, Go, LockInv
<1>6. ASSUME NEW p \in Proc, Timeout(p) PROVE BypassInv' /\ HolderIsCurrent'
    BY <1>0, <1>6 DEF Timeout, Go, LockInv
<1>7. ASSUME NEW p \in Proc, Read(p) PROVE BypassInv' /\ HolderIsCurrent'
    BY <1>0, <1>7, TornAssumption DEF Read, Go, LockInv
<1>8. ASSUME NEW p \in Proc, Mutate(p) PROVE BypassInv' /\ HolderIsCurrent'
    BY <1>0, <1>8 DEF Mutate, Go, LockInv
<1>9. ASSUME NEW p \in Proc, Pass(p) PROVE BypassInv' /\ HolderIsCurrent'
    BY <1>0, <1>9 DEF Pass, LockInv
<1>10. ASSUME NEW p \in Proc, CreateTmp(p) PROVE BypassInv' /\ HolderIsCurrent'
    BY <1>0, <1>10 DEF CreateTmp, Go, LockInv
<1>11. ASSUME NEW p \in Proc, WriteTmp(p) PROVE BypassInv' /\ HolderIsCurrent'
    BY <1>0, <1>11 DEF WriteTmp, Go, LockInv
<1>12. ASSUME NEW p \in Proc, Rename(p) PROVE BypassInv' /\ HolderIsCurrent'
    BY <1>0, <1>12, RenamerHolds DEF Rename, Go, LockInv
<1>13. ASSUME NEW p \in Proc, FlushFail(p) PROVE BypassInv' /\ HolderIsCurrent'
    BY <1>0, <1>13 DEF FlushFail, Go, LockInv
<1>14. ASSUME NEW p \in Proc, Leave(p) PROVE BypassInv' /\ HolderIsCurrent'
    BY <1>0, <1>14, NobodyAssumption DEF Leave, Release, Go, LockInv
<1>15. ASSUME NEW p \in Proc, Crash(p) PROVE BypassInv' /\ HolderIsCurrent'
    BY <1>0, <1>15, NobodyAssumption DEF Crash, Release, LockInv
<1> QED
    BY <1>1, <1>2, <1>3, <1>4, <1>5, <1>6, <1>7, <1>8, <1>9, <1>10, <1>11, <1>12, <1>13,
       <1>14, <1>15 DEF Next, Step

\* The copy a lock holder works on is the file, or the file after the one
\* request it is flushing, so its next rename cannot undo another's write.
THEOREM HolderCurrent ==
    ASSUME BypassWrites = FALSE
    PROVE  Spec => []HolderIsCurrent
<1>1. CurrentInv => HolderIsCurrent
    BY DEF CurrentInv
<1> QED
    BY InitCurrentInv, NextCurrentInv, <1>1, PTL DEF Spec

\* Only a rename changes the file.
LEMMA OnlyRename ==
    ASSUME [Next]_vars, disk' # disk
    PROVE  \E p \in Proc : Rename(p)
BY DEF Next, Step, vars, Begin, Bypass, Acquire, Busy, Timeout, Read, Mutate, Pass,
       CreateTmp, WriteTmp, FlushFail, Leave, Crash

\* Each change of app-registry.json is one request applied to the content it
\* replaces: no session clobbers another.
THEOREM NoLostUpdate ==
    ASSUME BypassWrites = FALSE
    PROVE  Spec => NoClobber
<1> DEFINE A == disk' # disk => \E p \in Proc :
                    job[p] # <<>> /\ disk' \in Effects(disk, Head(job[p]))
<1>1. CurrentInv /\ [Next]_vars => [A]_vars
    <2> SUFFICES ASSUME CurrentInv, [Next]_vars, disk' # disk
                 PROVE  \E p \in Proc : job[p] # <<>> /\ disk' \in Effects(disk, Head(job[p]))
        OBVIOUS
    <2>1. PICK p \in Proc : Rename(p)
        BY OnlyRename
    <2> QED
        BY <2>1, RenamerHolds
<1> QED
    BY InitCurrentInv, NextCurrentInv, <1>1, PTL DEF Spec, NoClobber

\* No mix of sessions and crashes marks a protected app removed, or takes any
\* entry out of the file.
THEOREM ProtectedNeverRemoved ==
    ASSUME BypassWrites = FALSE
    PROVE  Spec => ProtectedStays
<1> DEFINE A == {disk, disk'} \subseteq File => Keeps(disk, disk')
<1>1. CurrentInv /\ [Next]_vars => [A]_vars
    <2> SUFFICES ASSUME CurrentInv, [Next]_vars, disk \in File
                 PROVE  Keeps(disk, disk')
        OBVIOUS
    <2>1. CASE disk' = disk
        BY <2>1 DEF Keeps
    <2>2. CASE disk' # disk
        <3>1. PICK p \in Proc : Rename(p)
            BY <2>2, OnlyRename
        <3>2. job[p] # <<>> /\ disk' \in Effects(disk, Head(job[p]))
            BY <3>1, RenamerHolds
        <3>3. Head(job[p]) \in Request
            BY <3>2, TailType DEF CurrentInv, LockInv, TypeOK
        <3> QED
            BY <3>2, <3>3, EffectsKeep
    <2> QED
        BY <2>1, <2>2
<1> QED
    BY InitCurrentInv, NextCurrentInv, <1>1, PTL DEF Spec, ProtectedStays

(***************************************************************************)
(* AppRegistry implements RegistryAbs.                                     *)
(***************************************************************************)

\* RegistryAbs reads RegistryFile with the same constants.
LEMMA SameOperations ==
    /\ Atomic!EmptyFile = EmptyFile
    /\ \A f, r : Atomic!Effects(f, r) = Effects(f, r)
BY DEF Atomic!EmptyFile, EmptyFile, Atomic!Effects, Effects, Atomic!Register, Register,
       Atomic!UpsertFromLaunch, UpsertFromLaunch, Atomic!UpsertFromInstall, UpsertFromInstall,
       Atomic!FinalizeInstall, FinalizeInstall, Atomic!Remove, Remove,
       Atomic!UpsertFromScan, UpsertFromScan, Atomic!SyncRemoved, SyncRemoved,
       Atomic!SyncCandidates, SyncCandidates, Atomic!SkipScanUpsert, SkipScanUpsert,
       Atomic!SyncRemoveOnScan, SyncRemoveOnScan, Atomic!NewEntry, NewEntry,
       Atomic!Flag, Flag, Atomic!Known, Known, Atomic!Put, Put

\* The initial state is one of the atomic registry.
LEMMA InitAtomic == Init => Atomic!AbsInit
BY SameOperations DEF Init, Atomic!AbsInit, lockedJob

\* A step that empties p's list, or only that of a bypassed session, is an
\* abstract stop or a stutter.
LEMMA StopStep ==
    ASSUME LockInv, NEW p \in Proc, job' = [job EXCEPT ![p] = <<>>], UNCHANGED disk
    PROVE  Atomic!Stop(p)
BY DEF Atomic!Stop, lockedJob, LockInv, TypeOK

\* Each step is one of the atomic registry (a session starts, a request is
\* applied or skipped, a session stops) or changes nothing it can see.
LEMMA NextAtomic ==
    ASSUME BypassWrites = FALSE
    PROVE  CurrentInv /\ [Next]_vars => [Atomic!AbsNext]_(Atomic!absVars)
<1> SUFFICES ASSUME CurrentInv, [Next]_vars
             PROVE  Atomic!AbsNext \/ UNCHANGED <<disk, lockedJob>>
    BY DEF Atomic!absVars
<1>0. LockInv /\ HolderIsCurrent /\ TypeOK
    BY DEF CurrentInv, LockInv
<1>1. ASSUME UNCHANGED <<disk, job>> PROVE UNCHANGED <<disk, lockedJob>>
    BY <1>1 DEF lockedJob
<1>2. CASE UNCHANGED vars
    BY <1>1, <1>2 DEF vars
<1>3. ASSUME NEW p \in Proc, Begin(p) PROVE Atomic!AbsNext \/ UNCHANGED <<disk, lockedJob>>
    <2>1. PICK j \in Jobs : job' = [job EXCEPT ![p] = j]
        BY <1>3 DEF Begin
    <2>2. pc[p] = "idle" /\ UNCHANGED disk
        BY <1>3 DEF Begin, Go
    <2>3. CASE p \in Unprivileged
        BY <1>0, <2>1, <2>2, <2>3 DEF lockedJob, TypeOK
    <2>4. CASE p \notin Unprivileged
        <3>1. lockedJob[p] = <<>>
            BY <1>0, <2>2 DEF lockedJob, LockInv
        <3>2. lockedJob' = [lockedJob EXCEPT ![p] = j]
            BY <1>0, <2>1, <2>4 DEF lockedJob, TypeOK
        <3>3. Atomic!Open(p)
            BY <2>1, <2>2, <3>1, <3>2 DEF Atomic!Open
        <3> QED
            BY <3>3 DEF Atomic!AbsNext
    <2> QED
        BY <2>3, <2>4
<1>4. ASSUME NEW p \in Proc,
             Bypass(p) \/ Acquire(p) \/ Busy(p) \/ Mutate(p) \/ CreateTmp(p) \/ WriteTmp(p) \/ Leave(p)
      PROVE  UNCHANGED <<disk, lockedJob>>
    BY <1>1, <1>4 DEF Bypass, Acquire, Busy, Mutate, CreateTmp, WriteTmp, Leave
<1>5. ASSUME NEW p \in Proc, Timeout(p) \/ FlushFail(p) \/ Crash(p) PROVE Atomic!AbsNext
    BY <1>0, <1>5, StopStep DEF Timeout, FlushFail, Crash, Atomic!AbsNext
<1>6. ASSUME NEW p \in Proc, Read(p) PROVE UNCHANGED <<disk, lockedJob>>
    BY <1>0, <1>1, <1>6, TornAssumption DEF Read, LockInv
<1>7. ASSUME NEW p \in Proc, Pass(p) PROVE Atomic!AbsNext \/ UNCHANGED <<disk, lockedJob>>
    <2>1. /\ pc[p] = "ready" /\ job[p] # <<>> /\ Effects(mem[p], Head(job[p])) = {}
          /\ job' = [job EXCEPT ![p] = Tail(@)] /\ UNCHANGED disk
        BY <1>7 DEF Pass
    <2>2. CASE p \in Unprivileged
        BY <1>0, <2>1, <2>2 DEF lockedJob, TypeOK
    <2>3. CASE p \notin Unprivileged
        <3>1. lock = p
            BY <1>0, <2>1, <2>3 DEF LockInv, OpenStates
        <3>2. mem[p] = disk
            BY <1>0, <2>1, <3>1 DEF HolderIsCurrent
        <3>3. lockedJob[p] = job[p] /\ lockedJob' = [lockedJob EXCEPT ![p] = Tail(@)]
            BY <1>0, <2>1, <2>3 DEF lockedJob, TypeOK
        <3>4. Atomic!Skip(p)
            BY <2>1, <3>2, <3>3, SameOperations DEF Atomic!Skip
        <3> QED
            BY <3>4 DEF Atomic!AbsNext
    <2> QED
        BY <2>2, <2>3
<1>8. ASSUME NEW p \in Proc, Rename(p) PROVE Atomic!AbsNext
    <2>1. lock = p /\ job[p] # <<>> /\ disk' \in Effects(disk, Head(job[p]))
        BY <1>8, RenamerHolds
    <2>2. p \notin Unprivileged
        BY <1>0, <2>1 DEF LockInv
    <2>3. job' = [job EXCEPT ![p] = IF Head(@).cmd = "sync" THEN @ ELSE Tail(@)]
        BY <1>8 DEF Rename
    <2>4. /\ lockedJob[p] = job[p]
          /\ lockedJob' = [lockedJob EXCEPT ![p] = IF Head(@).cmd = "sync" THEN @ ELSE Tail(@)]
        BY <1>0, <2>2, <2>3 DEF lockedJob, TypeOK
    <2>5. Atomic!Apply(p)
        BY <2>1, <2>4, SameOperations DEF Atomic!Apply
    <2> QED
        BY <2>5 DEF Atomic!AbsNext
<1> QED
    BY <1>2, <1>3, <1>4, <1>5, <1>6, <1>7, <1>8 DEF Next, Step

\* The registry is as if every session applied its requests one at a time to
\* the file itself, in order, up to the point where it stopped.
THEOREM RegistryAtomic ==
    ASSUME BypassWrites = FALSE
    PROVE  Spec => RefinesAtomic
<1> QED
    BY InitCurrentInv, NextCurrentInv, InitAtomic, NextAtomic, PTL
       DEF Spec, RefinesAtomic, Atomic!AbsSpec
================================================================================
