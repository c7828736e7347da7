--------------------------- MODULE RegistryScanProofs ---------------------------
(***************************************************************************)
(* Theorems about RegistryScan, for any processes, apps, classes of apps   *)
(* and sessions of other programs.                                         *)
(*                                                                         *)
(* ScanReconciles speaks of a process that has upserted all it found, and  *)
(* holds because nobody else writes meanwhile.  ScanInv says so: who works *)
(* on the registry has the lock (HoldersLock), and of what a scan found,   *)
(* all that is no longer to do is reconciled already (Progress).           *)
(***************************************************************************)
EXTENDS RegistryScan, TLAPS

Holding == {"upsert", "sync", "plan", "delete", "mark"}

HoldersLock == \A p \in Proc : pc[p] \in Holding => lock = p

\* A scan leaves the entry of i as it should.
Reconciled(f, i) == Known(f, i) /\ (SkipScanUpsert(f[i]) \/ f[i].state = "installed")

Progress ==
    \A p \in Proc :
        /\ pc[p] = "scanned" => todo[p] = found[p]
        /\ pc[p] = "sync" => todo[p] = {}
        /\ pc[p] \in {"upsert", "sync"} =>
               \A i \in found[p] \ todo[p] : Reconciled(reg, i)

ScanInv == TypeOK /\ HoldersLock /\ Progress

-----------------------------------------------------------------------------
(* The operations on the file.                                               *)

\* Replacing the entry of one id gives a file, which holds the new entry there
\* and the old ones elsewhere.
LEMMA PutIs ==
    ASSUME NEW f \in File, NEW i \in Ids, NEW e \in Entry
    PROVE  /\ Put(f, i, e) \in File
           /\ Put(f, i, e)[i] = e
           /\ \A k \in Ids \ {i} : Put(f, i, e)[k] = f[k]
  BY DEF Put, File

\* The entries the operations write are entries.
LEMMA NewEntryType ==
    ASSUME NEW r \in Request, NEW kind \in Kinds, NEW source \in Sources,
           NEW state \in States, NEW protected \in BOOLEAN
    PROVE  NewEntry(r, kind, source, state, protected) \in Entry
  BY DEF NewEntry, Request, Entry

\* remove changes the state of one entry, to "removed".
LEMMA RemoveIs ==
    ASSUME NEW f \in File, NEW i \in Ids, NEW g \in Remove(f, i)
    PROVE  g \in File /\ \A k \in Ids \ {i} : g[k] = f[k]
<1>1. /\ Known(f, i)
      /\ g = Put(f, i, [f[i] EXCEPT !.state = "removed"])
    BY DEF Remove
<1>2. [f[i] EXCEPT !.state = "removed"] \in Entry
    BY <1>1 DEF Known, File, Entry, States
<1> QED
    BY <1>1, <1>2, PutIs

\* upsert_from_scan reconciles its entry and touches no other; if it skips the
\* entry, that is one it must leave alone.
LEMMA UpsertIs ==
    ASSUME NEW f \in File, NEW r \in Request
    PROVE  /\ UpsertFromScan(f, r) = {} => Reconciled(f, r.id)
           /\ \A g \in UpsertFromScan(f, r) :
                  /\ g \in File /\ Reconciled(g, r.id)
                  /\ \A k \in Ids \ {r.id} : g[k] = f[k]
<1>0. r.id \in Ids /\ r.kind \in Kinds /\ r.source \in Sources
    BY DEF Request
<1>1. CASE Known(f, r.id) /\ SkipScanUpsert(f[r.id])
    BY <1>1 DEF UpsertFromScan, Reconciled
<1>2. CASE ~(Known(f, r.id) /\ SkipScanUpsert(f[r.id]))
    <2> DEFINE e == NewEntry(r, r.kind, r.source, "installed", FALSE)
    <2>1. e \in Entry /\ e.state = "installed"
        <3>1. "installed" \in States /\ FALSE \in BOOLEAN
            BY DEF States
        <3>2. e \in Entry
            BY <1>0, <3>1, NewEntryType
        <3> QED
            BY <3>2 DEF NewEntry
    <2>2. UpsertFromScan(f, r) = {Put(f, r.id, e)}
        BY <1>2 DEF UpsertFromScan
    <2>3. e # Absent
        BY <2>1, AbsentAssumption
    <2> HIDE DEF e
    <2> QED
        BY <1>0, <2>1, <2>2, <2>3, PutIs DEF Reconciled, Known
<1> QED
    BY <1>1, <1>2

\* Every request of another program leaves a file.
LEMMA EffectsType ==
    ASSUME NEW f \in File, NEW r \in Request, NEW g \in Effects(f, r)
    PROVE  g \in File
<1>0. /\ r.id \in Ids /\ r.kind \in Kinds /\ r.source \in Sources /\ r.protected \in BOOLEAN
      /\ r.cmd \in Commands
    BY DEF Request
<1>1. Flag(f, r.id) \in BOOLEAN
    BY <1>0 DEF Flag, Known, File, Entry
<1>2. /\ "win32" \in Kinds /\ {"installer", "launcher"} \subseteq Sources
      /\ {"pending", "installed"} \subseteq States
    BY DEF Kinds, Sources, States
<1>3. /\ Register(f, r) \subseteq File
      /\ UpsertFromLaunch(f, r) \subseteq File
      /\ UpsertFromInstall(f, r) \subseteq File
      /\ FinalizeInstall(f, r) \subseteq File
    <2>1. Register(f, r) \subseteq File
        BY <1>0, <1>2, NewEntryType, PutIs DEF Register
    <2>2. UpsertFromLaunch(f, r) \subseteq File
        BY <1>0, <1>1, <1>2, NewEntryType, PutIs DEF UpsertFromLaunch
    <2>3. UpsertFromInstall(f, r) \subseteq File
        BY <1>0, <1>1, <1>2, NewEntryType, PutIs DEF UpsertFromInstall
    <2>4. FinalizeInstall(f, r) \subseteq File
        BY <1>0, <1>1, <1>2, NewEntryType, PutIs DEF FinalizeInstall
    <2> QED
        BY <2>1, <2>2, <2>3, <2>4
<1>4. g \in UpsertFromScan(f, r) => g \in File
    BY UpsertIs
<1>5. g \in Remove(f, r.id) \union SyncRemoved(f, r) => g \in File
    BY <1>0, RemoveIs DEF SyncRemoved, SyncCandidates
<1> QED
    BY <1>0, <1>3, <1>4, <1>5 DEF Effects, Commands

\* What a scan found is asked for with a request of its own.
LEMMA FoundRequestType ==
    ASSUME NEW i \in Ids
    PROVE  FoundRequest(i) \in Request /\ FoundRequest(i).id = i
  BY ClassAssumption DEF FoundRequest, Request, Commands, Kinds, Sources

-----------------------------------------------------------------------------
LEMMA InitScan == Init => ScanInv
<1> SUFFICES ASSUME Init PROVE ScanInv
    OBVIOUS
<1>1. TypeOK
    <2>1. reg \in File
        BY DEF Init, EmptyFile, File
    <2>2. (CHOOSE i \in Ids : TRUE) \in Ids
        BY IdsAssumption
    <2> QED
        BY <2>1, <2>2 DEF Init, TypeOK, PcStates
<1>2. HoldersLock /\ Progress
    BY DEF Init, HoldersLock, Holding, Progress
<1> QED
    BY <1>1, <1>2 DEF ScanInv

\* A step that leaves the registry, the lock and what is to do alone, but may
\* move one process between states in which it knows nothing yet.
LEMMA QuietStep ==
    ASSUME ScanInv, NEW p \in Proc, TypeOK',
           UNCHANGED <<reg, lock, found, todo>>,
           \A q \in Proc \ {p} : pc'[q] = pc[q],
           pc'[p] \in Holding => lock = p,
           pc'[p] \notin {"scanned", "upsert", "sync"}
    PROVE  ScanInv'
  BY DEF ScanInv, HoldersLock, Progress

\* Every step keeps what the scans know.
LEMMA NextScan == ScanInv /\ [Next]_vars => ScanInv'
<1> SUFFICES ASSUME ScanInv, [Next]_vars PROVE ScanInv'
    OBVIOUS
<1> USE DEF looked
<1>0. TypeOK /\ HoldersLock /\ Progress
    BY DEF ScanInv
<1>1. ASSUME NEW i \in Ids, PackageChange(i) PROVE ScanInv'
    BY <1>0, <1>1 DEF PackageChange, ScanInv, TypeOK, HoldersLock, Progress
<1>2. ASSUME NEW p \in Proc, Discover(p) PROVE ScanInv'
    <2>1. TypeOK'
        BY <1>0, <1>2, ModesAssumption DEF Discover, Go, TypeOK, PcStates
    <2>2. pc' = [pc EXCEPT ![p] = "scanned"] /\ todo'[p] = found'[p] /\ lock' = lock /\ reg' = reg
        BY <1>0, <1>2 DEF Discover, Go, TypeOK
    <2>3. \A q \in Proc \ {p} : todo'[q] = todo[q] /\ found'[q] = found[q]
        BY <1>0, <1>2 DEF Discover, Go, TypeOK
    <2>4. HoldersLock'
        BY <1>0, <2>2 DEF HoldersLock, Holding, TypeOK
    <2>5. Progress'
        BY <1>0, <2>2, <2>3 DEF Progress, TypeOK
    <2> QED
        BY <2>1, <2>4, <2>5 DEF ScanInv
<1>3. ASSUME NEW p \in Proc, AskDeepRemove(p) PROVE ScanInv'
    BY <1>0, <1>3, QuietStep DEF AskDeepRemove, Go, TypeOK, PcStates, Holding
<1>4. ASSUME NEW p \in Proc, Open(p) PROVE ScanInv'
    <2>1. TypeOK'
        BY <1>0, <1>4 DEF Open, Go, TypeOK, PcStates
    <2>2. \A q \in Proc : pc[q] \notin Holding
        BY <1>0, <1>4, NobodyAssumption DEF Open, HoldersLock
    <2>3. HoldersLock'
        BY <1>0, <1>4, <2>2 DEF Open, Go, HoldersLock, TypeOK
    <2>4. Progress'
        BY <1>0, <1>4 DEF Open, Go, Progress, TypeOK
    <2> QED
        BY <2>1, <2>3, <2>4 DEF ScanInv
<1>5. ASSUME NEW p \in Proc, Upsert(p) PROVE ScanInv'
    <2>1. PICK i \in todo[p] :
              LET effects == UpsertFromScan(reg, FoundRequest(i))
              IN  /\ todo' = [todo EXCEPT ![p] = @ \ {i}]
                  /\ IF effects = {} THEN UNCHANGED reg ELSE reg' \in effects
        BY <1>5 DEF Upsert
    <2>2. i \in Ids
        BY <1>0, <2>1 DEF TypeOK
    <2>3. reg' \in File /\ Reconciled(reg', i) /\ \A k \in Ids \ {i} : reg'[k] = reg[k]
        BY <1>0, <2>1, <2>2, FoundRequestType, UpsertIs DEF TypeOK
    <2>4. pc[p] = "upsert" /\ UNCHANGED <<lock, shown, pc, looked, target>>
        BY <1>5 DEF Upsert
    <2>5. TypeOK'
        BY <1>0, <2>1, <2>3, <2>4 DEF TypeOK
    <2>6. HoldersLock'
        BY <1>0, <2>4 DEF HoldersLock
    <2>7. \A k \in Ids : Reconciled(reg, k) => Reconciled(reg', k)
        BY <2>3 DEF Reconciled, Known
    <2>8. \A q \in Proc \ {p} : pc[q] \notin {"upsert", "sync"}
        BY <1>0, <2>4 DEF HoldersLock, Holding
    <2>9. Progress'
        BY <1>0, <2>1, <2>2, <2>3, <2>4, <2>7, <2>8 DEF Progress, TypeOK
    <2> QED
        BY <2>5, <2>6, <2>9 DEF ScanInv
<1>6. ASSUME NEW p \in Proc, UpsertsDone(p) PROVE ScanInv'
    <2>1. TypeOK'
        BY <1>0, <1>6 DEF UpsertsDone, Go, TypeOK, PcStates
    <2>2. HoldersLock' /\ Progress'
        BY <1>0, <1>6 DEF UpsertsDone, Go, HoldersLock, Holding, Progress, TypeOK
    <2> QED
        BY <2>1, <2>2 DEF ScanInv
<1>7. ASSUME NEW p \in Proc, SyncOne(p) PROVE ScanInv'
    <2>1. PICK i \in SyncCandidates(reg, found[p]) : reg' \in Remove(reg, i)
        BY <1>7 DEF SyncOne
    <2>2. i \in Ids \ found[p] /\ reg' \in File /\ \A k \in Ids \ {i} : reg'[k] = reg[k]
        BY <1>0, <2>1, RemoveIs DEF SyncCandidates, TypeOK
    <2>3. pc[p] = "sync" /\ UNCHANGED <<lock, shown, pc, looked, todo, target>>
        BY <1>7 DEF SyncOne
    <2>4. TypeOK' /\ HoldersLock'
        BY <1>0, <2>2, <2>3 DEF TypeOK, HoldersLock
    <2>5. \A q \in Proc \ {p} : pc[q] \notin {"upsert", "sync"}
        BY <1>0, <2>3 DEF HoldersLock, Holding
    <2>6. \A k \in found[p] : Reconciled(reg, k) => Reconciled(reg', k)
        BY <1>0, <2>2 DEF Reconciled, Known, TypeOK
    <2>7. Progress'
        BY <1>0, <2>3, <2>5, <2>6 DEF Progress
    <2> QED
        BY <2>4, <2>7 DEF ScanInv
<1>8. ASSUME NEW p \in Proc, SyncDone(p) \/ Plan(p) PROVE ScanInv'
    <2>1. TypeOK'
        BY <1>0, <1>8 DEF SyncDone, Plan, Go, TypeOK, PcStates
    <2>2. pc[p] \in Holding /\ pc'[p] \in {"leave", "delete"}
        BY <1>0, <1>8 DEF SyncDone, Plan, Go, TypeOK, Holding
    <2> QED
        BY <1>0, <1>8, <2>1, <2>2, QuietStep DEF SyncDone, Plan, Go, TypeOK, HoldersLock
<1>9. ASSUME NEW p \in Proc, Execute(p) PROVE ScanInv'
    <2>1. TypeOK'
        BY <1>0, <1>9 DEF Execute, Go, TypeOK, PcStates
    <2>2. pc[p] \in Holding /\ pc'[p] \in {"leave", "mark"}
        BY <1>0, <1>9 DEF Execute, Go, TypeOK, Holding
    <2> QED
        BY <1>0, <1>9, <2>1, <2>2, QuietStep DEF Execute, Go, TypeOK, HoldersLock
<1>10. ASSUME NEW p \in Proc, Mark(p) PROVE ScanInv'
    <2>1. pc[p] = "mark" /\ pc' = [pc EXCEPT ![p] = "leave"]
          /\ UNCHANGED <<lock, shown, looked, todo, target>>
        BY <1>10 DEF Mark, Go
    <2>2. reg' \in File
        BY <1>0, <1>10, RemoveIs DEF Mark, TypeOK
    <2>3. TypeOK' /\ HoldersLock'
        BY <1>0, <2>1, <2>2 DEF TypeOK, PcStates, HoldersLock, Holding
    <2>4. \A q \in Proc : pc'[q] \notin {"upsert", "sync"}
        BY <1>0, <2>1 DEF HoldersLock, Holding, TypeOK
    <2>5. Progress'
        BY <1>0, <2>1, <2>4 DEF Progress, TypeOK
    <2> QED
        BY <2>3, <2>5 DEF ScanInv
<1>11. ASSUME NEW p \in Proc, Close(p) PROVE ScanInv'
    <2>1. TypeOK'
        BY <1>0, <1>11 DEF Close, TypeOK, PcStates
    <2>2. HoldersLock'
        BY <1>0, <1>11 DEF Close, HoldersLock, Holding, TypeOK
    <2>3. Progress'
        BY <1>0, <1>11 DEF Close, Progress, TypeOK
    <2> QED
        BY <2>1, <2>2, <2>3 DEF ScanInv
<1>12. CASE OtherSession
    <2>1. reg' \in File
        BY <1>0, <1>12, EffectsType, OthersAssumption DEF OtherSession, TypeOK
    <2>2. \A q \in Proc : pc[q] \notin Holding
        BY <1>0, <1>12, NobodyAssumption DEF OtherSession, HoldersLock
    <2> QED
        BY <1>0, <1>12, <2>1, <2>2
           DEF OtherSession, ScanInv, TypeOK, HoldersLock, Holding, Progress
<1>13. CASE UNCHANGED vars
    BY <1>0, <1>13 DEF vars, ScanInv, TypeOK, HoldersLock, Progress
<1> QED
    BY <1>1, <1>2, <1>3, <1>4, <1>5, <1>6, <1>7, <1>8, <1>9, <1>10, <1>11, <1>12, <1>13 DEF Next

LEMMA ScanInvHolds == Spec => []ScanInv
<1> QED
    BY InitScan, NextScan, PTL DEF Spec

\* The registry stays a file that can be read, and every scan and removal keeps
\* its types, for any processes and any sessions of other programs.
THEOREM ScanTypes == Spec => []TypeOK
<1>1. ScanInv => TypeOK
    BY DEF ScanInv
<1> QED
    BY <1>1, ScanInvHolds, PTL

\* However scans, deep removals, package changes and other sessions overlap: a
\* scan that has upserted all it found finds all of it installed in the
\* registry, or must leave it alone.
THEOREM ScansReconcile == Spec => []ScanReconciles
<1>1. ScanInv => ScanReconciles
    BY DEF ScanInv, Progress, ScanReconciles, Reconciled
<1> QED
    BY <1>1, ScanInvHolds, PTL

-----------------------------------------------------------------------------
(* What the scans mark.                                                       *)

\* What a scan found is all that was listed, asked for and readable.
FoundAll ==
    \A p \in Proc : \A i \in seen[p] \ unread[p] : Class[i] \in asked[p] => i \in found[p]

LEMMA FoundAllHolds == Spec => []FoundAll
<1>1. Init => FoundAll
    BY DEF Init, FoundAll
<1>2. ScanInv /\ FoundAll /\ [Next]_vars => FoundAll'
    <2> SUFFICES ASSUME ScanInv, FoundAll, [Next]_vars PROVE FoundAll'
        OBVIOUS
    <2>0. TypeOK
        BY DEF ScanInv
    <2>1. ASSUME NEW p \in Proc, Discover(p) PROVE FoundAll'
        <3>1. PICK mode \in ScanModes, lost \in SUBSET shown :
                  /\ found' = [found EXCEPT ![p] = {i \in shown \ lost : Class[i] \in mode}]
                  /\ asked' = [asked EXCEPT ![p] = mode]
                  /\ unread' = [unread EXCEPT ![p] = lost]
            BY <2>1 DEF Discover
        <3>2. seen' = [seen EXCEPT ![p] = shown]
            BY <2>1 DEF Discover
        <3> QED
            BY <2>0, <3>1, <3>2 DEF FoundAll, TypeOK
    <2>2. ASSUME NEW p \in Proc, Close(p) PROVE FoundAll'
        BY <2>0, <2>2 DEF Close, FoundAll, TypeOK
    <2>3. CASE UNCHANGED looked
        BY <2>3 DEF FoundAll, looked
    <2> QED
        BY <2>1, <2>2, <2>3 DEF Next, vars, PackageChange, AskDeepRemove, Open, Upsert,
           UpsertsDone, SyncOne, SyncDone, Plan, Execute, Mark, OtherSession
<1> QED
    BY <1>1, <1>2, ScanInvHolds, PTL DEF Spec

\* While a scan marks vanished apps nobody else writes, and it marks none that
\* it found.
LEMMA SyncStep ==
    ASSUME ScanInv, [Next]_vars, NEW p \in Proc, lock = p, pc[p] = "sync",
           NEW i \in found[p]
    PROVE  reg'[i] = reg[i]
<1>0. TypeOK /\ HoldersLock /\ i \in Ids
    BY DEF ScanInv, TypeOK
<1>1. ASSUME NEW q \in Proc, SyncOne(q) PROVE reg'[i] = reg[i]
    <2>1. q = p
        BY <1>0, <1>1 DEF SyncOne, HoldersLock, Holding
    <2>2. PICK k \in SyncCandidates(reg, found[p]) : reg' \in Remove(reg, k)
        BY <1>1, <2>1 DEF SyncOne
    <2>3. k \in Ids /\ k # i
        BY <1>0, <2>2 DEF SyncCandidates
    <2> QED
        BY <1>0, <2>2, <2>3, RemoveIs DEF TypeOK
<1>2. ASSUME NEW q \in Proc, Upsert(q) \/ Mark(q) PROVE FALSE
    BY <1>0, <1>2 DEF Upsert, Mark, Go, HoldersLock, Holding
<1>3. CASE OtherSession
    BY <1>3, NobodyAssumption DEF OtherSession
<1>4. CASE UNCHANGED reg
    BY <1>4
<1> QED
    BY <1>1, <1>2, <1>3, <1>4 DEF Next, vars, PackageChange, Discover, AskDeepRemove, Open,
       UpsertsDone, SyncDone, Plan, Execute, Close

\* For scans of any classes, whatever cannot be read and whatever other
\* sessions write meanwhile: a scan marks no app that the machine listed when
\* it looked, that it was asked for and that it could read (registry.rs:548).
THEOREM MarksExplained == Spec => SyncExplained
<1> DEFINE Step == \A p \in Proc : lock = p /\ pc[p] = "sync" =>
                       \A i \in Ids : Known(reg, i) /\ reg[i].state = "installed"
                                         /\ reg'[i].state # "installed"
                         => i \notin seen[p] \/ Class[i] \notin asked[p] \/ i \in unread[p]
<1>1. ScanInv /\ FoundAll /\ [Next]_vars => [Step]_vars
    <2> SUFFICES ASSUME ScanInv, FoundAll, [Next]_vars,
                        NEW p \in Proc, lock = p, pc[p] = "sync",
                        NEW i \in Ids, reg[i].state = "installed", reg'[i].state # "installed",
                        i \in seen[p], Class[i] \in asked[p], i \notin unread[p]
                 PROVE  FALSE
        OBVIOUS
    <2>1. i \in found[p]
        BY DEF FoundAll
    <2> QED
        BY <2>1, SyncStep
<1>2. SyncExplained <=> [][Step]_vars
    BY DEF SyncExplained
<1> HIDE DEF Step
<1> QED
    BY <1>1, <1>2, ScanInvHolds, FoundAllHolds, PTL DEF Spec
================================================================================
