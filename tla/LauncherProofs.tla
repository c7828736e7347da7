----------------------------- MODULE LauncherProofs -----------------------------
(***************************************************************************)
(* Theorems about the launcher, for any processes, apps, directories and   *)
(* files: installs, launches and removals on one machine (InstallWorld),   *)
(* what the exit code of any command tells (LauncherExits), the words of   *)
(* any command line (LauncherCli), what a recipe leaves marked             *)
(* (EngineRecipes), the programs a machine lists (SystemApps,              *)
(* AppPrograms), and at the end the whole of them (MCLauncher).            *)
(*                                                                         *)
(* RegistryMatchesDisk speaks of apps that nothing works on.  What makes   *)
(* it true is what holds while something does: an install has its          *)
(* directory for itself and is as far as its step says (InstallRuns); so   *)
(* is a removal, which nobody installs against (RemovalRuns); and once     *)
(* they are done no install or removal that still runs is in the           *)
(* directory (StaysInstalled, StaysPurged).  All of it is about apps that  *)
(* are not spoiled: StartInstall and OpenStore spoil whom they meet.       *)
(***************************************************************************)
EXTENDS MCLauncher, LoopLemmas, SequenceTheorems, FiniteSetTheorems, TLAPS

Removing(p) == job[p].step \in {"delete", "unlink", "mark"}
Changing(p) == Installing(p) \/ Removing(p)

\* deep_remove holds the lock from the plan to the mark.
Locked == \A p \in Proc : Removing(p) => lock = p

InstallRuns(i) ==
    \A p \in Proc : Installing(p) /\ job[p].id = i =>
        /\ job[p].dir = Own[i]
        /\ \A q \in Proc \ {p} : Changing(q) => job[q].id # i /\ job[q].dir # Own[i]
        /\ job[p].step \in {"install shortcut", "finalize"} => files[Own[i]] = Piece
        /\ job[p].step = "finalize" => i \in shortcut

RemovalRuns(i) ==
    \A p \in Proc : Removing(p) /\ job[p].id = i =>
        /\ Known(reg, i) /\ job[p].dir = IF reg[i].dir \in Allowed THEN reg[i].dir ELSE NoDir
        /\ \A q \in Proc : Installing(q) => job[q].id # i /\ job[q].dir # reg[i].dir
        /\ job[p].step \in {"unlink", "mark"} /\ reg[i].dir \in Allowed => files[reg[i].dir] = {}
        /\ job[p].step = "mark" /\ (\A q \in Proc \ {p} : ~WorksOn(q, i)) =>
               (i \in listed => i \notin shortcut)

StaysInstalled(i) ==
    (/\ Known(reg, i) /\ reg[i].state = "installed" /\ reg[i].source = "installer"
     /\ \A p \in Proc : Changing(p) => job[p].id # i) =>
        /\ files[Own[i]] = Piece /\ i \in shortcut
        /\ \A q \in Proc : Changing(q) => job[q].dir # Own[i]

StaysPurged(i) ==
    (i \in purged /\ Known(reg, i) /\ \A p \in Proc : ~WorksOn(p, i)) =>
        /\ \A q \in Proc : Installing(q) => job[q].dir # reg[i].dir
        /\ reg[i].dir \in Allowed => files[reg[i].dir] = {}
        /\ i \in listed => i \notin shortcut

Right(i) == InstallRuns(i) /\ RemovalRuns(i) /\ StaysInstalled(i) /\ StaysPurged(i)

InstallInv == TypeOK /\ Locked /\ \A i \in Ids \ spoiled : Right(i)

\* A process that is at work: its job has all its fields.
Job == [step : Steps, id : Ids, dir : Dirs \union {NoDir}, desktop : BOOLEAN]

-----------------------------------------------------------------------------
LEMMA Jobs ==
    ASSUME TypeOK, NEW p \in Proc
    PROVE  /\ IsFree(p) => job[p] = Free
           /\ ~IsFree(p) => job[p] \in Job
           /\ job \in [Proc -> {Free} \union Job]
<1>1. job[p] \in {Free} \union Job /\ job \in [Proc -> {Free} \union Job]
    BY DEF TypeOK, Job
<1>2. Free.step = "free" /\ \A j \in Job : j.step \in Steps /\ j.step # "free"
    BY DEF Free, Job, Steps
<1> QED
    BY <1>1, <1>2 DEF IsFree, At

\* What is being done with an app is one of three things.
LEMMA KindsOfWork ==
    ASSUME NEW p
    PROVE  /\ Changing(p) <=> Installing(p) \/ Removing(p)
           /\ Installing(p) => ~Removing(p) /\ ~IsFree(p)
           /\ Removing(p) => ~IsFree(p)
  BY DEF Changing, Installing, Removing, IsFree, At

LEMMA PutIs ==
    ASSUME NEW f \in File, NEW i \in Ids, NEW e \in Entry
    PROVE  /\ Put(f, i, e) \in File /\ Put(f, i, e)[i] = e /\ e # Absent
           /\ \A j \in Ids \ {i} : Put(f, i, e)[j] = f[j]
  BY AbsentAssumption DEF Put, File

LEMMA SessionIs ==
    ASSUME NEW f \in File, NEW i \in Ids, NEW d \in Dirs \union {NoDir}
    PROVE  /\ \A g \in FinalizeInstall(f, Ask(i, d)) :
                  /\ g \in File /\ \A j \in Ids \ {i} : g[j] = f[j]
                  /\ Known(g, i) /\ g[i].dir = d
           /\ \A g \in UpsertFromLaunch(f, Ask(i, d)) :
                  /\ g \in File /\ \A j \in Ids \ {i} : g[j] = f[j]
                  /\ Known(g, i) /\ g[i].source = "launcher"
<1> DEFINE r == Ask(i, d)
<1>1. r.id = i /\ r.kind = "win32" /\ r.dir = d
    BY DEF Ask
<1>2. Flag(f, i) \in BOOLEAN
    BY DEF Flag, Known, File, Entry
<1>3. /\ NewEntry(r, "win32", "installer", "installed", Flag(f, i)) \in Entry
      /\ NewEntry(r, "win32", "installer", "installed", Flag(f, i)).dir = d
      /\ NewEntry(r, "win32", "launcher", "installed", Flag(f, i)) \in Entry
      /\ NewEntry(r, "win32", "launcher", "installed", Flag(f, i)).source = "launcher"
    BY <1>1, <1>2 DEF NewEntry, Entry, Kinds, Sources, States
<1> HIDE DEF r
<1>4. FinalizeInstall(f, r) = {Put(f, i, NewEntry(r, "win32", "installer", "installed", Flag(f, i)))}
    BY <1>1 DEF FinalizeInstall
<1>5. UpsertFromLaunch(f, r) = {Put(f, i, NewEntry(r, "win32", "launcher", "installed", Flag(f, i)))}
    BY <1>1 DEF UpsertFromLaunch
<1>6. \A g \in FinalizeInstall(f, r) :
          /\ g \in File /\ \A j \in Ids \ {i} : g[j] = f[j]
          /\ Known(g, i) /\ g[i].dir = d
    BY <1>3, <1>4, PutIs DEF Known
<1>7. \A g \in UpsertFromLaunch(f, r) :
          /\ g \in File /\ \A j \in Ids \ {i} : g[j] = f[j]
          /\ Known(g, i) /\ g[i].source = "launcher"
    BY <1>3, <1>5, PutIs DEF Known
<1> QED
    BY <1>6, <1>7 DEF r

LEMMA RemoveIs ==
    ASSUME NEW f \in File, NEW i \in Ids, NEW g \in Remove(f, i)
    PROVE  /\ g \in File /\ \A j \in Ids \ {i} : g[j] = f[j]
           /\ Known(f, i) /\ Known(g, i)
           /\ g[i].state = "removed" /\ g[i].dir = f[i].dir
<1> DEFINE e == [f[i] EXCEPT !.state = "removed"]
<1>1. Known(f, i) /\ g = Put(f, i, e)
    BY DEF Remove
<1>2. f[i] \in Entry
    BY <1>1 DEF Known, File
<1>3. e \in Entry /\ e.state = "removed" /\ e.dir = f[i].dir
    BY <1>2 DEF Entry, States
<1> HIDE DEF e
<1> QED
    BY <1>1, <1>3, PutIs DEF Known

LEMMA InitInstall == Init => InstallInv
<1> SUFFICES ASSUME Init PROVE InstallInv
    OBVIOUS
<1>1. TypeOK
    BY DEF Init, TypeOK, EmptyFile, File
<1>2. \A p \in Proc : IsFree(p) /\ ~Changing(p)
    BY DEF Init, Free, IsFree, At, Changing, Installing, Removing
<1>3. \A i \in Ids : ~Known(reg, i)
    BY DEF Init, EmptyFile, Known
<1> QED
    BY <1>1, <1>2, <1>3
    DEF InstallInv, Locked, Right, InstallRuns, RemovalRuns, StaysInstalled, StaysPurged, Changing

\* A step of p to another step of its job, of the same kind.  It may change the
\* files of its directory, while it clears, unpacks or deletes, and the
\* shortcut of its app.
Moves(p) ==
    /\ \A q \in Proc \ {p} : job'[q] = job[q]
    /\ job'[p].id = job[p].id /\ job'[p].dir = job[p].dir
    /\ ~IsFree(p) /\ job'[p].step \in Steps
    /\ (Installing(p)' <=> Installing(p)) /\ (Removing(p)' <=> Removing(p))
    /\ UNCHANGED <<reg, lock, listed, purged, spoiled>>
    /\ \A d \in Dirs \ {job[p].dir} : files'[d] = files[d]
    /\ files'[job[p].dir] # files[job[p].dir] => Changing(p)
    /\ \A i \in Ids \ {job[p].id} : i \in shortcut' <=> i \in shortcut

\* Such a step leaves every app right but its own, and its own too if it got as
\* far as its step says.
LEMMA MoveStep ==
    ASSUME InstallInv, NEW p \in Proc, Moves(p), TypeOK',
           NEW i \in Ids \ spoiled,
           \* An install.
           Installing(p) /\ job[p].id = i =>
               /\ job'[p].step \in {"install shortcut", "finalize"} => files'[Own[i]] = Piece
               /\ job'[p].step = "finalize" => i \in shortcut'
               /\ i \in shortcut => i \in shortcut',
           \* Only an install makes files.
           ~Installing(p) => \A d \in Dirs : files'[d] \subseteq files[d],
           \* A removal.
           Removing(p) /\ job[p].id = i =>
               /\ job'[p].step \in {"unlink", "mark"} /\ reg[i].dir \in Allowed
                      => files'[reg[i].dir] = {}
               /\ job'[p].step = "mark" => (i \in listed => i \notin shortcut'),
           \* A launch.
           ~Changing(p) /\ job[p].id = i => (i \in shortcut => i \in shortcut')
    PROVE  Right(i)'
<1>1. /\ InstallRuns(i) /\ RemovalRuns(i) /\ StaysInstalled(i) /\ StaysPurged(i) /\ TypeOK
      /\ Own[i] \in Dirs /\ Allowed \subseteq Dirs
    BY InstallAssumption DEF InstallInv, Right
<1>2. \A q \in Proc : /\ Installing(q)' <=> Installing(q)
                      /\ Removing(q)' <=> Removing(q)
                      /\ Changing(q)' <=> Changing(q)
                      /\ WorksOn(q, i)' <=> WorksOn(q, i)
                      /\ job'[q].id = job[q].id /\ job'[q].dir = job[q].dir
                      /\ q # p => job'[q] = job[q]
    BY KindsOfWork DEF Moves, Installing, Removing, Changing, WorksOn, IsFree, At, Steps
<1>3. ASSUME ~Changing(p) \/ job[p].dir # Own[i] PROVE files'[Own[i]] = files[Own[i]]
    BY <1>1, <1>3 DEF Moves
<1>4. InstallRuns(i)'
    <2> SUFFICES ASSUME NEW r \in Proc, Installing(r)', job'[r].id = i
                 PROVE  /\ job'[r].dir = Own[i]
                        /\ \A q \in Proc \ {r} : Changing(q)' => job'[q].id # i /\ job'[q].dir # Own[i]
                        /\ job'[r].step \in {"install shortcut", "finalize"} => files'[Own[i]] = Piece
                        /\ job'[r].step = "finalize" => i \in shortcut'
        BY DEF InstallRuns
    <2>1. /\ Installing(r) /\ job[r].id = i /\ job[r].dir = Own[i]
          /\ \A q \in Proc \ {r} : Changing(q) => job[q].id # i /\ job[q].dir # Own[i]
          /\ job[r].step \in {"install shortcut", "finalize"} => files[Own[i]] = Piece
          /\ job[r].step = "finalize" => i \in shortcut
        BY <1>1, <1>2 DEF InstallRuns
    <2>2. CASE r = p
        BY <1>2, <2>1, <2>2
    <2>3. CASE r # p
        <3>1. files'[Own[i]] = files[Own[i]]
            BY <1>3, <2>1, <2>3
        <3>2. i \in shortcut => i \in shortcut'
            BY <2>1, <2>3 DEF Moves
        <3> QED
            BY <1>2, <2>1, <2>3, <3>1, <3>2
    <2> QED
        BY <2>2, <2>3
<1>5. RemovalRuns(i)'
    <2> SUFFICES ASSUME NEW r \in Proc, Removing(r)', job'[r].id = i
                 PROVE  /\ Known(reg, i)
                        /\ job'[r].dir = IF reg[i].dir \in Allowed THEN reg[i].dir ELSE NoDir
                        /\ \A q \in Proc : Installing(q)' => job'[q].id # i /\ job'[q].dir # reg[i].dir
                        /\ job'[r].step \in {"unlink", "mark"} /\ reg[i].dir \in Allowed
                               => files'[reg[i].dir] = {}
                        /\ job'[r].step = "mark" /\ (\A q \in Proc \ {r} : ~WorksOn(q, i)') =>
                               (i \in listed => i \notin shortcut')
        BY DEF RemovalRuns, Moves
    <2>1. /\ Removing(r) /\ job[r].id = i
          /\ Known(reg, i) /\ job[r].dir = IF reg[i].dir \in Allowed THEN reg[i].dir ELSE NoDir
          /\ \A q \in Proc : Installing(q) => job[q].id # i /\ job[q].dir # reg[i].dir
          /\ job[r].step \in {"unlink", "mark"} /\ reg[i].dir \in Allowed => files[reg[i].dir] = {}
          /\ job[r].step = "mark" /\ (\A q \in Proc \ {r} : ~WorksOn(q, i)) =>
                 (i \in listed => i \notin shortcut)
        BY <1>1, <1>2 DEF RemovalRuns
    <2>2. CASE r = p
        BY <1>2, <2>1, <2>2
    <2>3. CASE r # p
        <3>1. reg[i].dir \in Allowed /\ files[reg[i].dir] = {} => files'[reg[i].dir] = {}
            BY <1>1, <2>1 DEF Moves
        <3>2. ~WorksOn(p, i) => (i \in shortcut' <=> i \in shortcut)
            BY DEF Moves, WorksOn
        <3> QED
            BY <1>2, <2>1, <2>3, <3>1, <3>2
    <2> QED
        BY <2>2, <2>3
<1>6. StaysInstalled(i)'
    BY <1>1, <1>2 DEF StaysInstalled, Moves
<1>7. StaysPurged(i)'
    <2> SUFFICES ASSUME i \in purged, Known(reg, i), \A q \in Proc : ~WorksOn(q, i)
                 PROVE  /\ \A q \in Proc : Installing(q)' => job'[q].dir # reg[i].dir
                        /\ reg[i].dir \in Allowed => files'[reg[i].dir] = {}
                        /\ i \in listed => i \notin shortcut'
        BY <1>2 DEF StaysPurged, Moves
    <2>1. /\ \A q \in Proc : Installing(q) => job[q].dir # reg[i].dir
          /\ reg[i].dir \in Allowed => files[reg[i].dir] = {}
          /\ i \in listed => i \notin shortcut
        BY <1>1 DEF StaysPurged
    <2>2. i \notin shortcut => i \notin shortcut'
        BY DEF Moves, WorksOn
    <2>3. reg[i].dir \in Allowed => files'[reg[i].dir] = {}
        BY <1>1, <2>1 DEF Moves
    <2> QED
        BY <1>2, <2>1, <2>2, <2>3
<1> QED
    BY <1>4, <1>5, <1>6, <1>7 DEF Right

\* A step that ends the job of p leaves right every app but its own whose entry
\* it leaves alone.
LEMMA EndStep ==
    ASSUME InstallInv, NEW p \in Proc, ~IsFree(p), job' = [job EXCEPT ![p] = Free],
           UNCHANGED <<files, shortcut>>, NEW i \in Ids \ spoiled, i # job[p].id,
           reg'[i] = reg[i], i \in listed' <=> i \in listed, i \in purged' <=> i \in purged
    PROVE  Right(i)'
<1>1. InstallRuns(i) /\ RemovalRuns(i) /\ StaysInstalled(i) /\ StaysPurged(i) /\ TypeOK
    BY DEF InstallInv, Right
<1>2. /\ \A q \in Proc \ {p} : job'[q] = job[q]
      /\ job'[p] = Free
    BY <1>1, Jobs
<1>3. /\ \A q \in Proc \ {p} : /\ Installing(q)' <=> Installing(q)
                               /\ Removing(q)' <=> Removing(q)
                               /\ Changing(q)' <=> Changing(q)
      /\ \A q \in Proc : WorksOn(q, i)' <=> WorksOn(q, i)
      /\ ~Installing(p)' /\ ~Removing(p)' /\ ~Changing(p)'
    <2>1. job'[p].step = "free"
        BY <1>2 DEF Free
    <2>2. IsFree(p)' /\ ~Installing(p)' /\ ~Removing(p)' /\ ~Changing(p)'
        BY <2>1 DEF Installing, Removing, Changing, IsFree, At
    <2>3. ~WorksOn(p, i)' /\ ~WorksOn(p, i)
        BY <2>2 DEF WorksOn
    <2> QED
        BY <1>2, <2>2, <2>3 DEF Installing, Removing, Changing, WorksOn, IsFree, At
<1>4. Known(reg, i)' <=> Known(reg, i)
    BY DEF Known
<1>5. InstallRuns(i)'
    BY <1>1, <1>2, <1>3 DEF InstallRuns
<1>6. RemovalRuns(i)'
    <2> SUFFICES ASSUME NEW r \in Proc, Removing(r)', job'[r].id = i
                 PROVE  /\ Known(reg, i)'
                        /\ job'[r].dir = IF reg'[i].dir \in Allowed THEN reg'[i].dir ELSE NoDir
                        /\ \A q \in Proc : Installing(q)' => job'[q].id # i /\ job'[q].dir # reg'[i].dir
                        /\ job'[r].step \in {"unlink", "mark"} /\ reg'[i].dir \in Allowed
                               => files'[reg'[i].dir] = {}
                        /\ job'[r].step = "mark" /\ (\A q \in Proc \ {r} : ~WorksOn(q, i)') =>
                               (i \in listed' => i \notin shortcut')
        BY DEF RemovalRuns
    <2>1. r # p /\ Removing(r) /\ job[r] = job'[r]
        BY <1>2, <1>3
    <2> QED
        BY <1>1, <1>2, <1>3, <1>4, <2>1 DEF RemovalRuns
<1>7. StaysInstalled(i)'
    BY <1>1, <1>2, <1>3, <1>4 DEF StaysInstalled
<1>8. StaysPurged(i)'
    BY <1>1, <1>2, <1>3, <1>4 DEF StaysPurged
<1> QED
    BY <1>5, <1>6, <1>7, <1>8 DEF Right

\* The marks of the end of a removal: everything deep_remove may delete is gone.
LEMMA MarkStep ==
    ASSUME InstallInv, NEW p \in Proc, Mark(p), NEW i \in Ids \ spoiled
    PROVE  Right(i)'
<1>1. InstallRuns(i) /\ RemovalRuns(i) /\ StaysInstalled(i) /\ StaysPurged(i) /\ TypeOK /\ Locked
    BY DEF InstallInv, Right
<1>2. job[p] \in Job /\ Removing(p) /\ ~IsFree(p) /\ reg \in File
    BY <1>1, Jobs DEF Mark, At, IsFree, Removing, TypeOK
<1>3. /\ reg' \in File /\ \A j \in Ids \ {job[p].id} : reg'[j] = reg[j]
      /\ Known(reg, job[p].id) /\ Known(reg', job[p].id)
      /\ reg'[job[p].id].state = "removed" /\ reg'[job[p].id].dir = reg[job[p].id].dir
    BY <1>2, RemoveIs DEF Mark, Job
<1>4. /\ purged' = purged \union {job[p].id} /\ job' = [job EXCEPT ![p] = Free]
      /\ UNCHANGED <<files, shortcut, listed>>
    BY DEF Mark
<1>5. CASE i # job[p].id
    BY <1>2, <1>3, <1>4, <1>5, EndStep
<1>6. CASE i = job[p].id
    <2>1. /\ \A q \in Proc \ {p} : job'[q] = job[q]
          /\ job'[p] = Free
        BY <1>1, <1>4, Jobs
    <2>2. /\ \A q \in Proc \ {p} : /\ Installing(q)' <=> Installing(q)
                                   /\ Removing(q)' <=> Removing(q)
                                   /\ WorksOn(q, i)' <=> WorksOn(q, i)
          /\ ~Installing(p)' /\ ~Removing(p)'
        <3>1. job'[p].step = "free"
            BY <2>1 DEF Free
        <3>2. ~Installing(p)' /\ ~Removing(p)'
            BY <3>1 DEF Installing, Removing
        <3> QED
            BY <2>1, <3>2 DEF Installing, Removing, WorksOn, IsFree, At
    <2>3. /\ \A q \in Proc : Installing(q) => job[q].id # i /\ job[q].dir # reg[i].dir
          /\ reg[i].dir \in Allowed => files[reg[i].dir] = {}
          /\ (\A q \in Proc \ {p} : ~WorksOn(q, i)) => (i \in listed => i \notin shortcut)
        BY <1>1, <1>2, <1>6 DEF RemovalRuns, Mark, At
    <2>4. \A q \in Proc : ~Removing(q)'
        BY <1>1, <1>2, <2>2 DEF Locked
    <2>5. InstallRuns(i)'
        BY <2>1, <2>2, <2>3 DEF InstallRuns
    <2>6. RemovalRuns(i)'
        BY <2>4 DEF RemovalRuns
    <2>7. StaysInstalled(i)'
        BY <1>3, <1>6 DEF StaysInstalled
    <2>8. StaysPurged(i)'
        BY <1>3, <1>4, <1>6, <2>1, <2>2, <2>3 DEF StaysPurged
    <2> QED
        BY <2>5, <2>6, <2>7, <2>8 DEF Right
<1> QED
    BY <1>5, <1>6

LEMMA FinalizeStep ==
    ASSUME InstallInv, NEW p \in Proc, Finalize(p) \/ RegisterLaunch(p), NEW i \in Ids \ spoiled
    PROVE  Right(i)'
<1>1. InstallRuns(i) /\ RemovalRuns(i) /\ StaysInstalled(i) /\ StaysPurged(i) /\ TypeOK /\ Locked
    BY DEF InstallInv, Right
<1>2. job[p] \in Job /\ ~IsFree(p) /\ reg \in File
    BY <1>1, Jobs DEF Finalize, RegisterLaunch, At, IsFree, TypeOK
<1>3. /\ lock = Nobody /\ UNCHANGED <<files, shortcut>> /\ job' = [job EXCEPT ![p] = Free]
      /\ purged' = purged \ {job[p].id}
      /\ \A j \in Ids \ {job[p].id} : j \in listed' <=> j \in listed
    BY DEF Finalize, RegisterLaunch, Session
<1>4. /\ \A j \in Ids \ {job[p].id} : reg'[j] = reg[j]
      /\ RegisterLaunch(p) => reg'[job[p].id].source = "launcher"
    BY <1>2, SessionIs DEF Finalize, RegisterLaunch, Session, Job
<1>5. CASE i # job[p].id
    BY <1>2, <1>3, <1>4, <1>5, EndStep
<1>6. CASE i = job[p].id
    <2>1. /\ \A q \in Proc \ {p} : job'[q] = job[q]
          /\ job'[p] = Free
        BY <1>1, <1>3, Jobs
    <2>2. /\ \A q \in Proc \ {p} : /\ Installing(q)' <=> Installing(q)
                                   /\ Changing(q)' <=> Changing(q)
          /\ ~Installing(p)' /\ ~Removing(p)' /\ ~Changing(p)'
        <3>1. job'[p].step = "free"
            BY <2>1 DEF Free
        <3>2. ~Installing(p)' /\ ~Removing(p)' /\ ~Changing(p)'
            BY <3>1 DEF Installing, Removing, Changing
        <3> QED
            BY <2>1, <3>2 DEF Installing, Removing, Changing
    <2>3. \A q \in Proc : ~Removing(q) /\ ~Removing(q)'
        <3>1. \A q \in Proc : ~Removing(q)
            BY <1>1, <1>3, InstallAssumption DEF Locked
        <3> QED
            BY <2>1, <2>2, <3>1 DEF Removing
    <2>4. InstallRuns(i)'
        BY <1>1, <1>3, <2>1, <2>2 DEF InstallRuns
    <2>5. RemovalRuns(i)'
        BY <2>3 DEF RemovalRuns
    <2>6. StaysInstalled(i)'
        <3>1. CASE RegisterLaunch(p)
            BY <1>4, <1>6, <3>1 DEF StaysInstalled
        <3>2. CASE Finalize(p)
            <4>1. Installing(p) /\ job[p].step = "finalize"
                BY <3>2 DEF Finalize, At, Installing
            <4> QED
                BY <1>1, <1>3, <1>6, <2>1, <2>2, <4>1 DEF InstallRuns, StaysInstalled
        <3> QED
            BY <3>1, <3>2
    <2>7. StaysPurged(i)'
        BY <1>3, <1>6 DEF StaysPurged
    <2> QED
        BY <2>4, <2>5, <2>6, <2>7 DEF Right
<1> QED
    BY <1>5, <1>6

\* A job that begins.
LEMMA BeginIs ==
    ASSUME TypeOK, NEW p \in Proc, NEW next \in Steps, NEW i, NEW d, Begin(p, next, i, d), NEW j
    PROVE  /\ IsFree(p) /\ ~Installing(p) /\ ~Removing(p) /\ ~Changing(p)
           /\ job'[p].step = next /\ job'[p].id = i /\ job'[p].dir = d
           /\ \A q \in Proc \ {p} : /\ job'[q] = job[q]
                                    /\ Installing(q)' <=> Installing(q)
                                    /\ Removing(q)' <=> Removing(q)
                                    /\ Changing(q)' <=> Changing(q)
                                    /\ WorksOn(q, j)' <=> WorksOn(q, j)
           /\ ~WorksOn(p, j) /\ (WorksOn(p, j)' <=> i = j)
<1>1. /\ job'[p].step = next /\ job'[p].id = i /\ job'[p].dir = d
      /\ \A q \in Proc \ {p} : job'[q] = job[q]
    BY Jobs DEF Begin
<1>2. IsFree(p) /\ next # "free"
    BY DEF Begin, Steps
<1> QED
    BY <1>1, <1>2 DEF Installing, Removing, Changing, WorksOn, IsFree, At

\* An install spoils whoever shares its directory, and its own app if something
\* is at work there.
LEMMA StartInstallStep ==
    ASSUME InstallInv, NEW p \in Proc, NEW k \in Ids, StartInstall(p, k), NEW i \in Ids \ spoiled'
    PROVE  Right(i)'
<1>1. /\ i \notin spoiled /\ Begin(p, "clear", k, Own[k])
      /\ UNCHANGED <<reg, lock, files, shortcut, listed, purged>>
      /\ i \notin SharedBy(k, Own[k]) /\ i \notin Clash(BusyWith(p, k, Own[k]), k)
    BY DEF StartInstall
<1>2. InstallRuns(i) /\ RemovalRuns(i) /\ StaysInstalled(i) /\ StaysPurged(i) /\ TypeOK
    BY <1>1 DEF InstallInv, Right
<1>3. /\ ~Installing(p) /\ ~Removing(p) /\ ~Changing(p)
      /\ job'[p].step = "clear" /\ job'[p].id = k /\ job'[p].dir = Own[k]
      /\ \A q \in Proc \ {p} : /\ job'[q] = job[q]
                               /\ Installing(q)' <=> Installing(q)
                               /\ Removing(q)' <=> Removing(q)
                               /\ Changing(q)' <=> Changing(q)
                               /\ WorksOn(q, i)' <=> WorksOn(q, i)
      /\ ~WorksOn(p, i) /\ (WorksOn(p, i)' <=> k = i)
    <2>1. "clear" \in Steps
        BY DEF Steps
    <2> QED
        BY <1>1, <1>2, <2>1, BeginIs
<1>4. Installing(p)' /\ ~Removing(p)' /\ Changing(p)'
    BY <1>3 DEF Installing, Removing, Changing
<1>5. i # k => Own[i] # Own[k] /\ (Known(reg, i) => reg[i].dir # Own[k])
    BY <1>1 DEF SharedBy
<1>6. ASSUME NEW q \in Proc \ {p}, ~IsFree(q), i = k
      PROVE  job[q].id # i /\ job[q].dir # Own[i]
    <2>1. BusyWith(p, k, Own[k]) = {}
        BY <1>1, <1>6 DEF Clash
    <2> QED
        BY <1>6, <2>1 DEF BusyWith
<1>7. InstallRuns(i)'
    <2> SUFFICES ASSUME NEW r \in Proc, Installing(r)', job'[r].id = i
                 PROVE  /\ job'[r].dir = Own[i]
                        /\ \A q \in Proc \ {r} : Changing(q)' => job'[q].id # i /\ job'[q].dir # Own[i]
                        /\ job'[r].step \in {"install shortcut", "finalize"} => files[Own[i]] = Piece
                        /\ job'[r].step = "finalize" => i \in shortcut
        BY <1>1 DEF InstallRuns
    <2>1. CASE r = p
        <3>1. \A q \in Proc \ {p} : Changing(q) => job[q].id # i /\ job[q].dir # Own[i]
            BY <1>3, <1>6, <2>1, KindsOfWork
        <3> QED
            BY <1>3, <2>1, <3>1
    <2>2. CASE r # p
        <3>1. i # k
            BY <1>3, <1>6, <2>2, KindsOfWork
        <3> QED
            BY <1>2, <1>3, <1>5, <2>2, <3>1 DEF InstallRuns
    <2> QED
        BY <2>1, <2>2
<1>8. RemovalRuns(i)'
    <2> SUFFICES ASSUME NEW r \in Proc, Removing(r)', job'[r].id = i
                 PROVE  /\ Known(reg, i)
                        /\ job'[r].dir = IF reg[i].dir \in Allowed THEN reg[i].dir ELSE NoDir
                        /\ \A q \in Proc : Installing(q)' => job'[q].id # i /\ job'[q].dir # reg[i].dir
                        /\ job'[r].step \in {"unlink", "mark"} /\ reg[i].dir \in Allowed
                               => files[reg[i].dir] = {}
                        /\ job'[r].step = "mark" /\ (\A q \in Proc \ {r} : ~WorksOn(q, i)') =>
                               (i \in listed => i \notin shortcut)
        BY <1>1 DEF RemovalRuns
    <2>1. r # p /\ Removing(r) /\ job[r] = job'[r]
        BY <1>3, <1>4
    <2>2. i # k
        BY <1>6, <2>1, KindsOfWork
    <2>3. /\ Known(reg, i) /\ job[r].dir = IF reg[i].dir \in Allowed THEN reg[i].dir ELSE NoDir
          /\ \A q \in Proc : Installing(q) => job[q].id # i /\ job[q].dir # reg[i].dir
          /\ job[r].step \in {"unlink", "mark"} /\ reg[i].dir \in Allowed => files[reg[i].dir] = {}
          /\ job[r].step = "mark" /\ (\A q \in Proc \ {r} : ~WorksOn(q, i)) =>
                 (i \in listed => i \notin shortcut)
        BY <1>2, <2>1 DEF RemovalRuns
    <2>4. \A q \in Proc : Installing(q)' => job'[q].id # i /\ job'[q].dir # reg[i].dir
        BY <1>3, <1>5, <2>2, <2>3
    <2>5. (\A q \in Proc \ {r} : ~WorksOn(q, i)') => \A q \in Proc \ {r} : ~WorksOn(q, i)
        BY <1>3
    <2> QED
        BY <2>1, <2>3, <2>4, <2>5
<1>9. StaysInstalled(i)'
    BY <1>1, <1>2, <1>3, <1>4, <1>5 DEF StaysInstalled
<1>10. StaysPurged(i)'
    BY <1>1, <1>2, <1>3, <1>5 DEF StaysPurged
<1> QED
    BY <1>7, <1>8, <1>9, <1>10 DEF Right

\* A removal too, and it finds no other removal.
LEMMA OpenStoreStep ==
    ASSUME InstallInv, NEW p \in Proc, NEW k \in Ids, OpenStore(p, k), NEW i \in Ids \ spoiled'
    PROVE  Right(i)'
<1> DEFINE d == IF reg[k].dir \in Allowed THEN reg[k].dir ELSE NoDir
           Met == {q \in BusyWith(p, k, reg[k].dir) : Installing(q)}
<1>1. /\ i \notin spoiled /\ lock = Nobody /\ Known(reg, k) /\ Begin(p, "delete", k, d)
      /\ UNCHANGED <<reg, files, shortcut, listed, purged>>
      /\ reg[k].dir \in Allowed => i \notin SharedBy(k, reg[k].dir)
      /\ i \notin Clash(Met, k)
    BY DEF OpenStore, PlanRemove
<1>2. /\ InstallRuns(i) /\ RemovalRuns(i) /\ StaysInstalled(i) /\ StaysPurged(i) /\ TypeOK /\ Locked
      /\ Own[i] \in Dirs /\ NoDir \notin Dirs /\ Nobody \notin Proc
    BY <1>1, InstallAssumption DEF InstallInv, Right
<1>3. /\ ~Installing(p) /\ ~Removing(p) /\ ~Changing(p)
      /\ job'[p].step = "delete" /\ job'[p].id = k /\ job'[p].dir = d
      /\ \A q \in Proc \ {p} : /\ job'[q] = job[q]
                               /\ Installing(q)' <=> Installing(q)
                               /\ Removing(q)' <=> Removing(q)
                               /\ Changing(q)' <=> Changing(q)
                               /\ WorksOn(q, i)' <=> WorksOn(q, i)
      /\ ~WorksOn(p, i) /\ (WorksOn(p, i)' <=> k = i)
    <2>1. "delete" \in Steps
        BY DEF Steps
    <2> HIDE DEF d
    <2> QED
        BY <1>1, <1>2, <2>1, BeginIs
<1>4. ~Installing(p)' /\ Removing(p)' /\ Changing(p)'
    BY <1>3 DEF Installing, Removing, Changing
<1>5. i # k => d # Own[i]
    BY <1>1, <1>2 DEF SharedBy
<1>6. ASSUME NEW q \in Proc, Installing(q), i = k
      PROVE  job[q].id # i /\ job[q].dir # reg[i].dir
    <2>1. Met = {}
        BY <1>1, <1>6 DEF Clash
    <2> QED
        BY <1>3, <1>6, <2>1, KindsOfWork DEF BusyWith
<1>7. \A q \in Proc : ~Removing(q) /\ (q # p => ~Removing(q)')
    BY <1>1, <1>2, <1>3 DEF Locked
<1>8. InstallRuns(i)'
    <2> SUFFICES ASSUME NEW r \in Proc, Installing(r)', job'[r].id = i
                 PROVE  /\ job'[r].dir = Own[i]
                        /\ \A q \in Proc \ {r} : Changing(q)' => job'[q].id # i /\ job'[q].dir # Own[i]
                        /\ job'[r].step \in {"install shortcut", "finalize"} => files[Own[i]] = Piece
                        /\ job'[r].step = "finalize" => i \in shortcut
        BY <1>1 DEF InstallRuns
    <2>1. r # p /\ Installing(r) /\ job[r].id = i /\ job'[r] = job[r]
        BY <1>3, <1>4
    <2>2. i # k
        BY <1>6, <2>1
    <2> HIDE DEF d
    <2> QED
        BY <1>2, <1>3, <1>5, <2>1, <2>2 DEF InstallRuns
<1>9. RemovalRuns(i)'
    <2> SUFFICES ASSUME NEW r \in Proc, Removing(r)', job'[r].id = i
                 PROVE  /\ Known(reg, i)
                        /\ job'[r].dir = IF reg[i].dir \in Allowed THEN reg[i].dir ELSE NoDir
                        /\ \A q \in Proc : Installing(q)' => job'[q].id # i /\ job'[q].dir # reg[i].dir
                        /\ job'[r].step \notin {"unlink", "mark"}
        BY <1>1 DEF RemovalRuns
    <2>1. r = p /\ k = i
        BY <1>3, <1>7
    <2> QED
        BY <1>1, <1>3, <1>4, <1>6, <2>1
<1> HIDE DEF d, Met
<1>10. StaysInstalled(i)'
    BY <1>1, <1>2, <1>3, <1>4, <1>5 DEF StaysInstalled
<1>11. StaysPurged(i)'
    BY <1>1, <1>2, <1>3, <1>4 DEF StaysPurged
<1> QED
    BY <1>8, <1>9, <1>10, <1>11 DEF Right

LEMMA StartLaunchStep ==
    ASSUME InstallInv, NEW p \in Proc, NEW k, NEW d, StartLaunch(p, k, d),
           NEW i \in Ids \ spoiled
    PROVE  Right(i)'
<1>1. /\ Begin(p, "launch shortcut", k, d)
      /\ UNCHANGED <<reg, lock, files, shortcut, listed, purged, spoiled>>
    BY DEF StartLaunch
<1>2. InstallRuns(i) /\ RemovalRuns(i) /\ StaysInstalled(i) /\ StaysPurged(i) /\ TypeOK
    BY <1>1 DEF InstallInv, Right
<1>3. /\ ~Installing(p) /\ ~Removing(p) /\ ~Changing(p)
      /\ job'[p].step = "launch shortcut" /\ job'[p].id = k
      /\ \A q \in Proc \ {p} : /\ job'[q] = job[q]
                               /\ Installing(q)' <=> Installing(q)
                               /\ Removing(q)' <=> Removing(q)
                               /\ Changing(q)' <=> Changing(q)
                               /\ WorksOn(q, i)' <=> WorksOn(q, i)
      /\ ~WorksOn(p, i)
    <2>1. "launch shortcut" \in Steps
        BY DEF Steps
    <2> QED
        BY <1>1, <1>2, <2>1, BeginIs
<1>4. ~Installing(p)' /\ ~Removing(p)' /\ ~Changing(p)'
    BY <1>3 DEF Installing, Removing, Changing
<1>5. InstallRuns(i)'
    BY <1>1, <1>2, <1>3, <1>4 DEF InstallRuns
<1>6. RemovalRuns(i)'
    <2> SUFFICES ASSUME NEW r \in Proc, Removing(r)', job'[r].id = i
                 PROVE  /\ Known(reg, i)
                        /\ job'[r].dir = IF reg[i].dir \in Allowed THEN reg[i].dir ELSE NoDir
                        /\ \A q \in Proc : Installing(q)' => job'[q].id # i /\ job'[q].dir # reg[i].dir
                        /\ job'[r].step \in {"unlink", "mark"} /\ reg[i].dir \in Allowed
                               => files[reg[i].dir] = {}
                        /\ job'[r].step = "mark" /\ (\A q \in Proc \ {r} : ~WorksOn(q, i)') =>
                               (i \in listed => i \notin shortcut)
        BY <1>1 DEF RemovalRuns
    <2>1. r # p /\ Removing(r) /\ job[r] = job'[r]
        BY <1>3, <1>4
    <2>2. (\A q \in Proc \ {r} : ~WorksOn(q, i)') => \A q \in Proc \ {r} : ~WorksOn(q, i)
        BY <1>3
    <2> QED
        BY <1>2, <1>3, <1>4, <2>1, <2>2 DEF RemovalRuns
<1>7. StaysInstalled(i)'
    BY <1>1, <1>2, <1>3, <1>4 DEF StaysInstalled
<1>8. StaysPurged(i)'
    BY <1>1, <1>2, <1>3, <1>4 DEF StaysPurged
<1> QED
    BY <1>5, <1>6, <1>7, <1>8 DEF Right

\* The steps within a job.
LEMMA JobSteps ==
    ASSUME InstallInv, TypeOK', NEW p \in Proc, NEW i \in Ids \ spoiled,
           \/ \E f \in Piece : ClearPiece(p, f) \/ UnpackPiece(p, f) \/ DeletePiece(p, f)
           \/ ClearDone(p) \/ InstallShortcut(p) \/ LaunchShortcut(p) \/ LaunchNoShortcut(p)
           \/ DeletedAll(p) \/ DeleteShortcut(p)
    PROVE  Right(i)'
<1> DEFINE d == job[p].dir
<1>1. /\ InstallRuns(i) /\ RemovalRuns(i) /\ TypeOK /\ Own[i] \in Dirs /\ Allowed \subseteq Dirs
      /\ files \in [Dirs -> SUBSET Piece] /\ NoDir \notin Dirs
    BY InstallAssumption DEF InstallInv, Right, TypeOK
<1>2. job[p] \in Job /\ ~IsFree(p) /\ job \in [Proc -> {Free} \union Job]
    BY <1>1, Jobs DEF ClearPiece, UnpackPiece, DeletePiece, ClearDone, InstallShortcut,
                      LaunchShortcut, WriteShortcut, LaunchNoShortcut, DeletedAll, DeleteShortcut,
                      At, IsFree
<1>3. ASSUME NEW next \in Steps, Goes(p, next)
      PROVE  /\ \A q \in Proc \ {p} : job'[q] = job[q]
             /\ job'[p].id = job[p].id /\ job'[p].dir = d /\ job'[p].step = next
    BY <1>2, <1>3 DEF Goes, Job
<1>4. ASSUME Installing(p), job[p].id = i PROVE d = Own[i] /\ d \in Dirs
    BY <1>1, <1>4 DEF InstallRuns
<1>5. ASSUME Removing(p), job[p].id = i
      PROVE  d = IF reg[i].dir \in Allowed THEN reg[i].dir ELSE NoDir
    BY <1>1, <1>5 DEF RemovalRuns
<1>6. ASSUME NEW f \in Piece, ClearPiece(p, f) \/ DeletePiece(p, f) PROVE Right(i)'
    <2>1. /\ job' = job /\ files' = [files EXCEPT ![d] = @ \ {f}]
          /\ UNCHANGED <<reg, lock, shortcut, listed, purged, spoiled>>
          /\ job[p].step \in {"clear", "delete"}
        BY <1>6 DEF ClearPiece, DeletePiece, At
    <2>2. Changing(p) /\ job[p].step \in Steps
        BY <2>1 DEF Changing, Installing, Removing, Steps
    <2>3. Moves(p)
        BY <1>1, <1>2, <2>1, <2>2 DEF Moves, Installing, Removing
    <2>4. \A e \in Dirs : files'[e] \subseteq files[e]
        BY <1>1, <2>1
    <2> QED
        BY <2>1, <2>2, <2>3, <2>4, MoveStep
<1>7. ASSUME NEW f \in Piece, UnpackPiece(p, f) PROVE Right(i)'
    <2>1. /\ job[p].step = "unpack" /\ files' = [files EXCEPT ![d] = @ \union {f}]
          /\ UNCHANGED <<reg, lock, shortcut, listed, purged, spoiled>>
          /\ f = Main => Piece \ files[d] = {Main}
          /\ \/ f = Main /\ Goes(p, "install shortcut")
             \/ f # Main /\ job' = job
        BY <1>7 DEF UnpackPiece, At
    <2>2. /\ \A q \in Proc \ {p} : job'[q] = job[q]
          /\ job'[p].id = job[p].id /\ job'[p].dir = d
          /\ \/ f = Main /\ job'[p].step = "install shortcut"
             \/ f # Main /\ job'[p].step = "unpack"
        <3>1. "install shortcut" \in Steps
            BY DEF Steps
        <3> QED
            BY <1>3, <2>1, <3>1
    <2>3. Installing(p) /\ ~Removing(p) /\ Changing(p) /\ Installing(p)' /\ ~Removing(p)'
        BY <2>1, <2>2 DEF Changing, Installing, Removing
    <2>4. Moves(p)
        <3>1. \A e \in Dirs \ {d} : files'[e] = files[e]
            BY <1>1, <2>1
        <3> QED
            BY <1>2, <2>1, <2>2, <2>3, <3>1 DEF Moves, Steps
    <2>5. job[p].id = i /\ f = Main => files'[Own[i]] = Piece
        <3> SUFFICES ASSUME job[p].id = i, f = Main PROVE files'[Own[i]] = Piece
            OBVIOUS
        <3>1. d = Own[i] /\ d \in Dirs
            BY <1>4, <2>3
        <3>2. files'[d] = files[d] \union {Main} /\ files[d] \subseteq Piece /\ Main \in Piece
            BY <1>1, <2>1, <3>1
        <3> QED
            BY <2>1, <3>1, <3>2
    <2> HIDE DEF d
    <2> QED
        BY <2>1, <2>2, <2>3, <2>4, <2>5, MoveStep
<1>8. ASSUME UNCHANGED <<reg, lock, files, shortcut, listed, purged, spoiled>>, NEW next \in Steps,
             Goes(p, next), Installing(p)' <=> Installing(p), Removing(p)' <=> Removing(p),
             next \notin {"install shortcut", "finalize", "mark"},
             next = "unlink" /\ d # NoDir => files[d] = {}
      PROVE  Right(i)'
    <2>1. Moves(p)
        BY <1>2, <1>3, <1>8 DEF Moves
    <2>2. Removing(p) /\ job[p].id = i /\ next = "unlink" /\ reg[i].dir \in Allowed
              => files[reg[i].dir] = {}
        BY <1>1, <1>5, <1>8
    <2> HIDE DEF d
    <2> QED
        BY <1>3, <1>8, <2>1, <2>2, MoveStep
<1>9. ASSUME ClearDone(p) \/ LaunchNoShortcut(p) \/ DeletedAll(p) PROVE Right(i)'
    <2>1. \/ job[p].step = "clear" /\ Goes(p, "unpack")
          \/ job[p].step = "launch shortcut" /\ Goes(p, "register")
          \/ job[p].step = "delete" /\ Goes(p, "unlink") /\ (d # NoDir => files[d] = {})
        BY <1>9 DEF ClearDone, LaunchNoShortcut, DeletedAll, At
    <2>2. UNCHANGED <<reg, lock, files, shortcut, listed, purged, spoiled>>
        BY <1>9 DEF ClearDone, LaunchNoShortcut, DeletedAll
    <2>3. "unpack" \in Steps /\ "register" \in Steps /\ "unlink" \in Steps
        BY DEF Steps
    <2> HIDE DEF d
    <2>4. CASE job[p].step = "clear" /\ Goes(p, "unpack")
        BY <1>3, <1>8, <2>2, <2>3, <2>4 DEF Installing, Removing
    <2>5. CASE job[p].step = "launch shortcut" /\ Goes(p, "register")
        BY <1>3, <1>8, <2>2, <2>3, <2>5 DEF Installing, Removing
    <2>6. CASE job[p].step = "delete" /\ Goes(p, "unlink") /\ (d # NoDir => files[d] = {})
        BY <1>3, <1>8, <2>2, <2>3, <2>6 DEF Installing, Removing
    <2> QED
        BY <2>1, <2>4, <2>5, <2>6
<1>10. ASSUME InstallShortcut(p) \/ LaunchShortcut(p) PROVE Right(i)'
    <2>1. /\ shortcut' = shortcut \union {job[p].id}
          /\ UNCHANGED <<reg, lock, files, listed, purged, spoiled>>
          /\ \/ /\ job[p].step = "install shortcut"
                /\ job' = [job EXCEPT ![p].step = "finalize", ![p].desktop = TRUE]
             \/ /\ job[p].step = "launch shortcut"
                /\ job' = [job EXCEPT ![p].step = "register", ![p].desktop = TRUE]
        BY <1>10 DEF InstallShortcut, LaunchShortcut, WriteShortcut, At
    <2>2. /\ \A q \in Proc \ {p} : job'[q] = job[q]
          /\ job'[p].id = job[p].id /\ job'[p].dir = d
          /\ \/ job[p].step = "install shortcut" /\ job'[p].step = "finalize"
             \/ job[p].step = "launch shortcut" /\ job'[p].step = "register"
        <3>1. ASSUME NEW next, job' = [job EXCEPT ![p].step = next, ![p].desktop = TRUE]
              PROVE  /\ \A q \in Proc \ {p} : job'[q] = job[q]
                     /\ job'[p].id = job[p].id /\ job'[p].dir = d /\ job'[p].step = next
            <4>1. /\ \A q \in Proc \ {p} : job'[q] = job[q]
                  /\ job'[p] = [job[p] EXCEPT !.step = next, !.desktop = TRUE]
                BY <1>2, <3>1
            <4> QED
                BY <1>2, <4>1 DEF Job
        <3> HIDE DEF d
        <3> QED
            BY <2>1, <3>1
    <2>3. Moves(p)
        BY <1>2, <2>1, <2>2 DEF Moves, Steps, Installing, Removing
    <2>4. ~Removing(p) /\ (Installing(p) => job[p].step = "install shortcut")
        BY <2>2 DEF Installing, Removing
    <2>5. Installing(p) /\ job[p].id = i => files[Own[i]] = Piece
        BY <1>1, <2>4 DEF InstallRuns
    <2> HIDE DEF d
    <2> QED
        BY <2>1, <2>2, <2>3, <2>4, <2>5, MoveStep
<1>11. ASSUME DeleteShortcut(p) PROVE Right(i)'
    <2>1. /\ job[p].step = "unlink" /\ Goes(p, "mark")
          /\ shortcut' = IF job[p].id \in listed THEN shortcut \ {job[p].id} ELSE shortcut
          /\ UNCHANGED <<reg, lock, files, listed, purged, spoiled>>
        BY <1>11 DEF DeleteShortcut, At
    <2>2. /\ \A q \in Proc \ {p} : job'[q] = job[q]
          /\ job'[p].id = job[p].id /\ job'[p].dir = d /\ job'[p].step = "mark"
        <3>1. "mark" \in Steps
            BY DEF Steps
        <3> QED
            BY <1>3, <2>1, <3>1
    <2>3. Removing(p) /\ ~Installing(p) /\ Changing(p) /\ Removing(p)' /\ ~Installing(p)'
        BY <2>1, <2>2 DEF Changing, Installing, Removing
    <2>4. Moves(p)
        BY <1>2, <2>1, <2>2, <2>3 DEF Moves, Steps
    <2>5. job[p].id = i /\ reg[i].dir \in Allowed => files[reg[i].dir] = {}
        BY <1>1, <2>1, <2>3 DEF RemovalRuns
    <2> HIDE DEF d
    <2> QED
        BY <2>1, <2>2, <2>3, <2>4, <2>5, MoveStep
<1> QED
    BY <1>6, <1>7, <1>9, <1>10, <1>11

\* Types and the lock.
LEMMA InstallTypes == InstallInv /\ [Next]_vars => TypeOK' /\ Locked'
<1> SUFFICES ASSUME InstallInv, [Next]_vars PROVE TypeOK' /\ Locked'
    OBVIOUS
<1>1. /\ TypeOK /\ Locked /\ job \in [Proc -> {Free} \union Job]
      /\ \A p \in Proc : (IsFree(p) => job[p] = Free) /\ (~IsFree(p) => job[p] \in Job)
      /\ reg \in File /\ lock \in Proc \union {Nobody} /\ files \in [Dirs -> SUBSET Piece]
      /\ shortcut \subseteq Ids /\ listed \subseteq Ids /\ purged \subseteq Ids /\ spoiled \subseteq Ids
    BY Jobs DEF InstallInv, TypeOK
<1>0. ASSUME NEW p \in Proc, NEW next, ~IsFree(p), Goes(p, next)
      PROVE  job'[p].step = next /\ \A q \in Proc \ {p} : job'[q] = job[q]
    BY <1>1, <1>0 DEF Goes, Job
<1>2. ASSUME NEW p \in Proc, ~IsFree(p)
      PROVE  /\ job[p].id \in Ids /\ job[p].dir \in Dirs \union {NoDir}
             /\ \A next \in Steps : [job[p] EXCEPT !.step = next] \in Job
             /\ \A next \in Steps : [job[p] EXCEPT !.step = next, !.desktop = TRUE] \in Job
    BY <1>1, <1>2 DEF Job
<1>3. \A others \in SUBSET Proc, i \in Ids :
          (\A q \in others : ~IsFree(q)) => Clash(others, i) \subseteq Ids
    BY <1>2 DEF Clash
<1>4. \A i \in Ids : \A d : SharedBy(i, d) \subseteq Ids
    BY DEF SharedBy
<1>5. ASSUME reg' \in File, lock' \in Proc \union {Nobody}, files' \in [Dirs -> SUBSET Piece],
             shortcut' \subseteq Ids, listed' \subseteq Ids, purged' \subseteq Ids, spoiled' \subseteq Ids,
             job' \in [Proc -> {Free} \union Job]
      PROVE  TypeOK'
    BY <1>5 DEF TypeOK, Job
<1>6. ASSUME NEW p \in Proc, NEW i \in Ids, StartInstall(p, i) PROVE TypeOK' /\ Locked'
    <2> DEFINE j == [step |-> "clear", id |-> i, dir |-> Own[i], desktop |-> FALSE]
    <2>1. j \in Job /\ j.step = "clear"
        BY InstallAssumption DEF Job, Steps
    <2>2. spoiled' \subseteq Ids
        <3>1. \A q \in BusyWith(p, i, Own[i]) : q \in Proc /\ ~IsFree(q)
            BY DEF BusyWith
        <3>2. Clash(BusyWith(p, i, Own[i]), i) \subseteq Ids
            BY <1>3, <3>1
        <3> QED
            BY <1>1, <1>4, <1>6, <3>2 DEF StartInstall
    <2>3. job' = [job EXCEPT ![p] = j] /\ UNCHANGED <<reg, lock, files, shortcut, listed, purged>>
        BY <1>6 DEF StartInstall, Begin
    <2> HIDE DEF j
    <2> QED
        BY <1>1, <1>5, <2>1, <2>2, <2>3 DEF Locked, Removing
<1>7. ASSUME NEW p \in Proc, NEW i \in Ids, OpenStore(p, i) PROVE TypeOK' /\ Locked'
    <2> DEFINE j == [step |-> "delete", id |-> i, desktop |-> FALSE,
                     dir |-> IF reg[i].dir \in Allowed THEN reg[i].dir ELSE NoDir]
    <2>1. j \in Job
        BY InstallAssumption DEF Job, Steps
    <2>2. spoiled' \subseteq Ids
        <3>1. \A q \in {q \in BusyWith(p, i, reg[i].dir) : Installing(q)} : q \in Proc /\ ~IsFree(q)
            BY DEF BusyWith
        <3>2. Clash({q \in BusyWith(p, i, reg[i].dir) : Installing(q)}, i) \subseteq Ids
            BY <1>3, <3>1
        <3> QED
            BY <1>1, <1>4, <1>7, <3>2 DEF OpenStore, PlanRemove
    <2>3. /\ job' = [job EXCEPT ![p] = j] /\ lock = Nobody /\ lock' = p
          /\ UNCHANGED <<reg, files, shortcut, listed, purged>>
        BY <1>7 DEF OpenStore, PlanRemove, Begin
    <2> HIDE DEF j
    <2>4. Locked'
        BY <1>1, <2>3, InstallAssumption DEF Locked, Removing
    <2> QED
        BY <1>1, <1>5, <2>1, <2>2, <2>3, <2>4
<1>8. ASSUME NEW p \in Proc, NEW l \in Launchable, StartLaunch(p, l[1], l[2]) PROVE TypeOK' /\ Locked'
    <2> DEFINE j == [step |-> "launch shortcut", id |-> l[1], dir |-> l[2], desktop |-> FALSE]
    <2>1. j \in Job /\ j.step = "launch shortcut"
        BY InstallAssumption DEF Job, Steps
    <2>2. job' = [job EXCEPT ![p] = j] /\ UNCHANGED <<reg, lock, files, shortcut, listed, purged, spoiled>>
        BY <1>8 DEF StartLaunch, Begin
    <2> HIDE DEF j
    <2> QED
        BY <1>1, <1>5, <2>1, <2>2 DEF Locked, Removing
<1>9. ASSUME NEW p \in Proc, NEW f \in Piece,
             ClearPiece(p, f) \/ UnpackPiece(p, f) \/ DeletePiece(p, f)
      PROVE  TypeOK' /\ Locked'
    <2>1. /\ UNCHANGED <<reg, lock, shortcut, listed, purged, spoiled>> /\ ~IsFree(p)
          /\ job' = job \/ (At(p, "unpack") /\ Goes(p, "install shortcut"))
          /\ \E X \in SUBSET Piece : files' = [files EXCEPT ![job[p].dir] = X]
        <3>1. \A d \in Dirs : files[d] \ {f} \subseteq Piece /\ files[d] \union {f} \subseteq Piece
            BY <1>1
        <3>2. /\ UNCHANGED <<reg, lock, shortcut, listed, purged, spoiled>> /\ ~IsFree(p)
              /\ job' = job \/ (At(p, "unpack") /\ Goes(p, "install shortcut"))
              /\ \/ files' = [files EXCEPT ![job[p].dir] = files[job[p].dir] \ {f}]
                 \/ files' = [files EXCEPT ![job[p].dir] = files[job[p].dir] \union {f}]
            BY <1>9 DEF ClearPiece, UnpackPiece, DeletePiece, At, IsFree
        <3>3. CASE job[p].dir \in Dirs
            BY <3>1, <3>2, <3>3
        <3>4. CASE job[p].dir \notin Dirs
            BY <1>1, <3>2, <3>4
        <3> QED
            BY <3>3, <3>4
    <2>2. files' \in [Dirs -> SUBSET Piece]
        BY <1>1, <2>1
    <2>3. job' \in [Proc -> {Free} \union Job]
        BY <1>1, <1>2, <2>1 DEF Goes, Steps
    <2>4. Locked'
        BY <1>1, <1>0, <2>1 DEF Locked, Removing
    <2> QED
        BY <1>1, <1>5, <2>1, <2>2, <2>3, <2>4
<1>10. ASSUME NEW p \in Proc, ClearDone(p) \/ LaunchNoShortcut(p) \/ DeletedAll(p) \/ DeleteShortcut(p)
       PROVE  TypeOK' /\ Locked'
    <2>1. /\ UNCHANGED <<reg, lock, files, listed, purged, spoiled>> /\ shortcut' \subseteq Ids /\ ~IsFree(p)
          /\ \/ Goes(p, "unpack") \/ Goes(p, "register")
             \/ Removing(p) /\ (Goes(p, "unlink") \/ Goes(p, "mark"))
        BY <1>1, <1>10 DEF ClearDone, LaunchNoShortcut, DeletedAll, DeleteShortcut, At, IsFree, Removing
    <2>2. job' \in [Proc -> {Free} \union Job]
        BY <1>1, <1>2, <2>1 DEF Goes, Steps
    <2>3. Locked'
        <3>1. /\ \A q \in Proc \ {p} : job'[q] = job[q]
              /\ job'[p].step \in {"unpack", "register"} \/ Removing(p)
            BY <1>0, <2>1
        <3> QED
            BY <1>1, <2>1, <3>1 DEF Locked, Removing
    <2> QED
        BY <1>1, <1>5, <2>1, <2>2, <2>3
<1>11. ASSUME NEW p \in Proc, InstallShortcut(p) \/ LaunchShortcut(p) PROVE TypeOK' /\ Locked'
    <2>1. PICK next \in {"finalize", "register"} :
              job' = [job EXCEPT ![p].step = next, ![p].desktop = TRUE]
        BY <1>11 DEF InstallShortcut, LaunchShortcut, WriteShortcut
    <2>2. /\ UNCHANGED <<reg, lock, files, listed, purged, spoiled>> /\ ~IsFree(p)
          /\ shortcut' = shortcut \union {job[p].id}
        BY <1>11 DEF InstallShortcut, LaunchShortcut, WriteShortcut, At, IsFree
    <2> DEFINE j == [job[p] EXCEPT !.step = next, !.desktop = TRUE]
    <2>3. job' = [job EXCEPT ![p] = j] /\ j \in Job /\ j.step = next
        <3>1. job' = [job EXCEPT ![p] = j]
            BY <1>1, <2>1
        <3>2. next \in Steps
            BY DEF Steps
        <3>3. j \in Job
            BY <1>2, <2>2, <3>2
        <3>4. job[p] \in Job
            BY <1>1, <2>2
        <3> QED
            BY <3>1, <3>3, <3>4 DEF Job
    <2> HIDE DEF j
    <2>4. job' \in [Proc -> {Free} \union Job] /\ job'[p].step = next
          /\ \A q \in Proc \ {p} : job'[q] = job[q]
        BY <1>1, <2>3
    <2>5. Locked'
        BY <1>1, <2>2, <2>4 DEF Locked, Removing
    <2> QED
        BY <1>1, <1>2, <1>5, <2>2, <2>4, <2>5
<1>12. ASSUME NEW p \in Proc, Finalize(p) \/ RegisterLaunch(p) PROVE TypeOK' /\ Locked'
    <2>1. ~IsFree(p)
        BY <1>12 DEF Finalize, RegisterLaunch, At, IsFree
    <2>2. reg' \in File
        BY <1>1, <1>2, <1>12, <2>1, SessionIs DEF Finalize, RegisterLaunch, Session
    <2>3. /\ job' = [job EXCEPT ![p] = Free] /\ UNCHANGED <<lock, files, shortcut, spoiled>>
          /\ listed' \subseteq Ids /\ purged' \subseteq Ids
        BY <1>1, <1>2, <1>12, <2>1 DEF Finalize, RegisterLaunch, Session
    <2>4. Locked'
        BY <1>1, <2>3 DEF Locked, Removing, Free
    <2> QED
        BY <1>1, <1>5, <2>2, <2>3, <2>4
<1>13. ASSUME NEW p \in Proc, Mark(p) \/ Stop(p) PROVE TypeOK' /\ Locked'
    <2>1. ~IsFree(p)
        BY <1>13 DEF Mark, Stop, At, IsFree
    <2>2. reg' \in File
        BY <1>1, <1>2, <1>13, <2>1, RemoveIs DEF Mark, Stop
    <2>3. /\ job' = [job EXCEPT ![p] = Free] /\ UNCHANGED <<files, shortcut, listed>>
          /\ lock' = IF lock = p THEN Nobody ELSE lock
          /\ purged' \subseteq Ids /\ spoiled' \subseteq Ids
        BY <1>1, <1>2, <1>13, <2>1 DEF Mark, Stop
    <2>4. Locked'
        BY <1>1, <2>3 DEF Locked, Removing, Free
    <2> QED
        BY <1>1, <1>5, <2>2, <2>3, <2>4
<1>14. CASE UNCHANGED vars
    BY <1>1, <1>14 DEF vars, TypeOK, Locked, Removing
<1> QED
    BY <1>6, <1>7, <1>8, <1>9, <1>10, <1>11, <1>12, <1>13, <1>14 DEF Next

LEMMA NextInstall == InstallInv /\ [Next]_vars => InstallInv'
<1> SUFFICES ASSUME InstallInv, [Next]_vars PROVE InstallInv'
    OBVIOUS
<1>1. TypeOK' /\ Locked'
    BY InstallTypes
<1>2. CASE UNCHANGED vars
    <2>1. \A i \in Ids \ spoiled : /\ InstallRuns(i)' <=> InstallRuns(i)
                                   /\ RemovalRuns(i)' <=> RemovalRuns(i)
        BY <1>2 DEF vars, InstallRuns, RemovalRuns, Changing, Installing, Removing,
                    WorksOn, IsFree, At, Known
    <2>2. \A i \in Ids \ spoiled : /\ StaysInstalled(i)' <=> StaysInstalled(i)
                                   /\ StaysPurged(i)' <=> StaysPurged(i)
        BY <1>2 DEF vars, StaysInstalled, StaysPurged, Changing, Installing, Removing,
                    WorksOn, IsFree, At, Known
    <2> QED
        BY <1>1, <1>2, <2>1, <2>2 DEF vars, InstallInv, Right
<1>3. ASSUME NEW p \in Proc, NEW i \in Ids \ spoiled', Stop(p) PROVE Right(i)'
    <2>1. /\ ~IsFree(p) /\ job' = [job EXCEPT ![p] = Free] /\ i \notin spoiled /\ i # job[p].id
          /\ UNCHANGED <<reg, files, shortcut, listed, purged>>
        BY <1>3 DEF Stop
    <2> QED
        BY <2>1, EndStep
<1>4. ASSUME Next, NEW i \in Ids \ spoiled' PROVE Right(i)'
    <2>1. PICK p \in Proc :
              \/ \E k \in Ids : StartInstall(p, k) \/ OpenStore(p, k)
              \/ \E f \in Piece : ClearPiece(p, f) \/ UnpackPiece(p, f) \/ DeletePiece(p, f)
              \/ ClearDone(p) \/ InstallShortcut(p) \/ Finalize(p)
              \/ \E l \in Launchable : StartLaunch(p, l[1], l[2])
              \/ LaunchShortcut(p) \/ LaunchNoShortcut(p) \/ RegisterLaunch(p)
              \/ DeletedAll(p) \/ DeleteShortcut(p) \/ Mark(p) \/ Stop(p)
        BY <1>4 DEF Next
    <2>2. CASE \E k \in Ids : StartInstall(p, k) \/ OpenStore(p, k)
        BY <2>2, StartInstallStep, OpenStoreStep
    <2>3. CASE \E l \in Launchable : StartLaunch(p, l[1], l[2])
        <3>1. i \notin spoiled
            BY <2>3 DEF StartLaunch
        <3> QED
            BY <2>3, <3>1, StartLaunchStep
    <2>4. CASE Finalize(p) \/ RegisterLaunch(p) \/ Mark(p)
        <3>1. i \notin spoiled
            BY <2>4 DEF Finalize, RegisterLaunch, Session, Mark
        <3> QED
            BY <2>4, <3>1, FinalizeStep, MarkStep
    <2>5. CASE \/ \E f \in Piece : ClearPiece(p, f) \/ UnpackPiece(p, f) \/ DeletePiece(p, f)
               \/ ClearDone(p) \/ InstallShortcut(p) \/ LaunchShortcut(p) \/ LaunchNoShortcut(p)
               \/ DeletedAll(p) \/ DeleteShortcut(p)
        <3>1. i \notin spoiled
            BY <2>5 DEF ClearPiece, UnpackPiece, DeletePiece, ClearDone, InstallShortcut,
               LaunchShortcut, WriteShortcut, LaunchNoShortcut, DeletedAll, DeleteShortcut
        <3> QED
            BY <1>1, <2>5, <3>1, JobSteps
    <2> QED
        BY <1>3, <2>1, <2>2, <2>3, <2>4, <2>5
<1> QED
    BY <1>1, <1>2, <1>4 DEF InstallInv

\* What the invariant says of an app that nothing works on.
LEMMA InstallShows == InstallInv => RegistryMatchesDisk
<1> SUFFICES ASSUME InstallInv, NEW i \in Ids \ spoiled, Known(reg, i),
                    \A p \in Proc : ~WorksOn(p, i)
             PROVE  /\ i \in purged =>
                           /\ reg[i].dir \in Allowed => files[reg[i].dir] = {}
                           /\ i \in listed => i \notin shortcut
                    /\ reg[i].state = "installed" /\ reg[i].source = "installer" =>
                           files[Own[i]] = Piece /\ i \in shortcut
    BY DEF RegistryMatchesDisk
<1>1. StaysInstalled(i) /\ StaysPurged(i)
    BY DEF InstallInv, Right
<1>2. \A p \in Proc : Changing(p) => job[p].id # i
    BY KindsOfWork DEF WorksOn
<1> QED
    BY <1>1, <1>2 DEF StaysInstalled, StaysPurged

\* However many processes install, launch and remove, in whatever directories,
\* stopped wherever: what the registry says of an app that nothing works on,
\* and that was not spoiled, is what is on the disk.
THEOREM DiskMatchesRegistry == Spec => []RegistryMatchesDisk
BY InitInstall, NextInstall, InstallShows, PTL DEF Spec

\* deep_remove never works without the lock, and the state keeps its types.
THEOREM InstallTypesKept == Spec => [](TypeOK /\ Locked)
<1>1. InstallInv => TypeOK /\ Locked
    BY DEF InstallInv
<1> QED
    BY <1>1, InitInstall, NextInstall, PTL DEF Spec
-----------------------------------------------------------------------------
(* Exit codes.  RunTells speaks of the end of a call; CallInv says what a call *)
(* under way has done so far.                                                  *)

CallSteps == {"done", "unpack", "pending", "validate", "register", "load", "execute"}
Call == [step : CallSteps, code : {0, 1}, binary : AppIds,
         backend : BackendNames \union {"unset", "wine", "native"},
         update : BOOLEAN, shortcut : BOOLEAN,
         bytes : Contents \union {"none", "missing", "stub"}]

\* The install of a package that its launch follows.
PackageInstalled ==
    /\ unpacked /\ menu["file"] = "main"
    /\ entry["file"].source = "installer" /\ entry["file"].state = "installed"

CallInv ==
    /\ call \in Call
    /\ file \in [content : Contents \union {"missing"}, name : Names, marked : BOOLEAN,
                 inside : Contents]
    /\ env.backend \in BackendNames \union {"wine"}
    /\ call.step # "done" => ran = "none" /\ call.code = 0
    /\ call.step \in {"unpack", "pending", "register"} => call.update
    /\ call.step = "register" => Resolved(call.backend) \in KnownBackend
    /\ call.step \in {"load", "execute"} /\ call.update =>
           entry[call.binary].state = "installed"
    /\ call.step \in {"validate", "load", "execute"} /\ ~call.update => PackageInstalled
    /\ call.step = "execute" /\ call.bytes = "stub" => env.smoke

RunInv == LauncherTypeOK /\ CallInv /\ RunTells

LEMMA InitRun ==
    ASSUME NEW f \in FileType, NEW e \in EnvType, LauncherInit(f, e) PROVE RunInv
<1>1. CallInv
    BY DEF LauncherInit, CallInv, Call, CallSteps, NoCall, AppIds, FileType, EnvType
<1>2. LauncherTypeOK
    <2>1. NoEntry \in [state : {"none", "pending", "installed"},
                        source : {"none", "installer", "launcher"},
                        backend : KnownBackend \union {"none"}]
        BY DEF NoEntry
    <2>2. /\ entry = [i \in AppIds |-> NoEntry] /\ menu = [i \in AppIds |-> "none"]
          /\ unpacked = FALSE /\ call.step = "done" /\ ran = "none" /\ callCount = 0
        BY DEF LauncherInit, NoCall
    <2>3. callCount \in 0 .. MaxCalls
        BY <2>2, MaxCallsAssumption
    <2> QED
        BY <2>1, <2>2, <2>3 DEF LauncherTypeOK
<1>3. RunTells
    BY DEF LauncherInit, RunTells
<1> QED
    BY <1>1, <1>2, <1>3 DEF RunInv

\* What EXCEPT leaves of a call.
LEMMA CallExcept ==
    ASSUME NEW c \in Call, NEW s \in CallSteps
    PROVE  /\ [c EXCEPT !.step = s] \in Call
           /\ [c EXCEPT !.step = s].step = s
           /\ [c EXCEPT !.step = s].code = c.code
           /\ [c EXCEPT !.step = s].binary = c.binary
           /\ [c EXCEPT !.step = s].backend = c.backend
           /\ [c EXCEPT !.step = s].update = c.update
           /\ [c EXCEPT !.step = s].bytes = c.bytes
  BY DEF Call

\* A call that starts stands at its first step, with nothing done.
LEMMA StartStep ==
    ASSUME RunInv, NEW first \in Call, first.step \in {"unpack", "pending", "validate"},
           first.code = 0, first.update, StartsCall(first)
    PROVE  RunInv'
<1>1. /\ call' = first /\ ran' = "none" /\ callCount < MaxCalls /\ callCount' = callCount + 1
      /\ UNCHANGED <<file, env, entry, menu, unpacked>>
    BY DEF StartsCall
<1>2. LauncherTypeOK'
    BY <1>1, MaxCallsAssumption DEF RunInv, LauncherTypeOK
<1>3. CallInv'
    BY <1>1 DEF RunInv, CallInv
<1>4. RunTells'
    BY <1>1 DEF RunTells
<1> QED
    BY <1>2, <1>3, <1>4 DEF RunInv

LEMMA LaunchIsCall ==
    ASSUME NEW binary \in AppIds, NEW update \in BOOLEAN,
           NEW backend \in BackendNames \union {"unset", "wine", "native"}
    PROVE  /\ LaunchOf(binary, backend, update) \in Call
           /\ LaunchOf(binary, backend, update).step = "validate"
           /\ LaunchOf(binary, backend, update).code = 0
           /\ LaunchOf(binary, backend, update).binary = binary
           /\ LaunchOf(binary, backend, update).update = update
  BY DEF LaunchOf, NoCall, Call, CallSteps, AppIds

LEMMA FailsAt ==
    ASSUME RunInv, CallFails
    PROVE  call'.step = "done" /\ UNCHANGED <<file, env, ran, callCount>>
  BY DEF CallFails, CallGoes, RunInv, CallInv, Call

\* A call that fails ends with 1, and has run nothing.
LEMMA FailStep ==
    ASSUME RunInv, call.step # "done", CallFails, LauncherTypeOK' PROVE RunInv'
<1>1. /\ call' = [call EXCEPT !.step = "done", !.code = 1]
      /\ UNCHANGED <<file, env, ran, callCount>>
    BY DEF CallFails, CallGoes
<1>2. call' \in Call /\ call'.step = "done" /\ call'.code = 1
    BY <1>1 DEF RunInv, CallInv, Call, CallSteps
<1>3. CallInv'
    BY <1>1, <1>2 DEF RunInv, CallInv
<1>4. RunTells'
    BY <1>1, <1>2 DEF RunInv, CallInv, RunTells
<1> QED
    BY <1>3, <1>4 DEF RunInv

LEMMA StartsKeep ==
    ASSUME RunInv,
           \/ \E b \in BackendNames \union {"unset"} : RunCall(b)
           \/ \E id \in AppIds : RunMenu(id)
           \/ \E mode \in {"auto", "run", "install"} : OpenCall(mode)
           \/ InstallCall
    PROVE  RunInv'
<1>1. [NoCall EXCEPT !.step = InstallStep] \in Call /\ [NoCall EXCEPT !.step = InstallStep].update
      /\ [NoCall EXCEPT !.step = InstallStep].code = 0
      /\ [NoCall EXCEPT !.step = InstallStep].step \in {"unpack", "pending", "validate"}
    BY DEF NoCall, Call, CallSteps, InstallStep, AppIds
<1>2. LET c == [NoCall EXCEPT !.step = InstallStep, !.shortcut = TRUE]
      IN  c \in Call /\ c.update /\ c.code = 0 /\ c.step \in {"unpack", "pending", "validate"}
    BY DEF NoCall, Call, CallSteps, InstallStep, AppIds
<1>3. ASSUME NEW b \in BackendNames \union {"unset"}, RunCall(b) PROVE RunInv'
    <2>1. StartsCall(LaunchOf("file", b, TRUE)) /\ "file" \in AppIds
        BY <1>3 DEF RunCall, AppIds
    <2> QED
        BY <2>1, LaunchIsCall, StartStep
<1>4. ASSUME NEW id \in AppIds, RunMenu(id) PROVE RunInv'
    <2>1. StartsCall(LaunchOf(menu[id], "wine", TRUE)) /\ menu[id] \in AppIds
        BY <1>4 DEF RunMenu, RunInv, LauncherTypeOK, AppIds
    <2> QED
        BY <2>1, LaunchIsCall, StartStep
<1>5. ASSUME NEW mode \in {"auto", "run", "install"}, OpenCall(mode) PROVE RunInv'
    <2>1. \/ StartsCall([NoCall EXCEPT !.step = InstallStep])
          \/ StartsCall(LaunchOf("file", "unset", TRUE))
        BY <1>5 DEF OpenCall
    <2>2. "file" \in AppIds
        BY DEF AppIds
    <2> QED
        BY <2>1, <2>2, <1>1, LaunchIsCall, StartStep
<1>6. CASE InstallCall
    BY <1>2, <1>6, StartStep DEF InstallCall
<1> QED
    BY <1>3, <1>4, <1>5, <1>6

LEMMA UnpackKeeps ==
    ASSUME RunInv, UnpackFails \/ FinalizeFails \/ NativeInstall PROVE RunInv'
<1> USE DEF AppIds
<1>1. CASE UnpackFails \/ FinalizeFails
    <2>1. call.step = "unpack" /\ CallFails /\ UNCHANGED entry
        BY <1>1 DEF UnpackFails, FinalizeFails
    <2>2. unpacked' \in BOOLEAN /\ menu' \in {menu, [menu EXCEPT !["file"] = "main"]}
        BY <1>1 DEF UnpackFails, FinalizeFails
    <2>3. menu' \in [AppIds -> {"none", "file", "main"}]
        BY <2>2 DEF RunInv, LauncherTypeOK
    <2>4. call'.step = "done" /\ UNCHANGED <<ran, callCount>>
        BY <2>1, FailsAt
    <2>5. LauncherTypeOK'
        BY <2>1, <2>2, <2>3, <2>4 DEF RunInv, LauncherTypeOK
    <2> QED
        BY <2>1, <2>5, FailStep
<1>2. CASE NativeInstall
    <2> DEFINE made == [state |-> "installed", source |-> "installer", backend |-> "native"]
    <2>1. /\ call.step = "unpack" /\ unpacked' = TRUE /\ menu' = [menu EXCEPT !["file"] = "main"]
          /\ entry' = [entry EXCEPT !["file"] = made]
          /\ call' = LaunchOf("main", "native", FALSE)
          /\ UNCHANGED <<file, env, ran, callCount>>
        BY <1>2 DEF NativeInstall, CallGoes
    <2>2. /\ call' \in Call /\ call'.step = "validate" /\ call'.code = 0 /\ ~call'.update
        BY <2>1, LaunchIsCall
    <2>3. LauncherTypeOK'
        BY <2>1, <2>2 DEF RunInv, LauncherTypeOK, KnownBackend
    <2>4. PackageInstalled'
        BY <2>1 DEF PackageInstalled, RunInv, LauncherTypeOK
    <2>5. CallInv'
        BY <2>1, <2>2, <2>4 DEF RunInv, CallInv
    <2>6. RunTells'
        BY <2>2 DEF RunTells
    <2> QED
        BY <2>3, <2>5, <2>6 DEF RunInv
<1> QED
    BY <1>1, <1>2

LEMMA PendingKeeps == ASSUME RunInv, RegisterPending PROVE RunInv'
<1> USE DEF AppIds
<1> DEFINE made == [state |-> "pending", source |-> "installer", backend |-> "wine"]
<1>1. call.step = "pending" /\ UNCHANGED unpacked
    BY DEF RegisterPending
<1>2. CASE CallFails /\ UNCHANGED <<entry, menu>>
    <2>1. LauncherTypeOK'
        BY <1>1, <1>2 DEF CallFails, CallGoes, RunInv, LauncherTypeOK, CallInv, Call
    <2> QED
        BY <1>1, <1>2, <2>1, FailStep
<1>3. CASE /\ entry' = [entry EXCEPT !["file"] = made]
           /\ menu' \in {menu, [menu EXCEPT !["file"] = "file"]}
           /\ CallGoes(LaunchOf("file", "unset", TRUE))
    <2>1. /\ call' = LaunchOf("file", "unset", TRUE) /\ UNCHANGED <<file, env, ran, callCount>>
        BY <1>3 DEF CallGoes
    <2>2. call' \in Call /\ call'.step = "validate" /\ call'.code = 0 /\ call'.update
        BY <2>1, LaunchIsCall
    <2>3. LauncherTypeOK'
        BY ZenonT(60), <1>1, <1>3, <2>1, <2>2 DEF RunInv, LauncherTypeOK, KnownBackend
    <2>4. CallInv'
        BY <1>1, <2>1, <2>2 DEF RunInv, CallInv
    <2>5. RunTells'
        BY <2>2 DEF RunTells
    <2> QED
        BY <2>3, <2>4, <2>5 DEF RunInv
<1> QED
    BY <1>2, <1>3 DEF RegisterPending

LEMMA ValidateKeeps == ASSUME RunInv, Validate PROVE RunInv'
<1>1. call.step = "validate" /\ UNCHANGED <<entry, menu, unpacked>>
    BY DEF Validate
<1>2. CASE CallFails
    <2>1. LauncherTypeOK'
        BY <1>1, <1>2 DEF CallFails, CallGoes, RunInv, LauncherTypeOK, CallInv, Call
    <2> QED
        BY <1>1, <1>2, <2>1, FailStep
<1>3. CASE Valid /\ CallGoes([call EXCEPT !.step = IF call.update THEN "register" ELSE "load"])
    <2>1. PICK s \in {"register", "load"} :
              /\ s = IF call.update THEN "register" ELSE "load"
              /\ call' = [call EXCEPT !.step = s] /\ UNCHANGED <<file, env, ran, callCount>>
        BY <1>3 DEF CallGoes
    <2>2. /\ call' \in Call /\ call'.step = s /\ call'.code = call.code
          /\ call'.backend = call.backend /\ call'.update = call.update
        <3>1. call \in Call /\ s \in CallSteps
            BY DEF RunInv, CallInv, CallSteps
        <3> QED
            BY <2>1, <3>1, CallExcept
    <2>3. Resolved(call.backend) \in KnownBackend /\ Resolved(call.backend)' = Resolved(call.backend)
        BY <1>3, <2>1, <2>2 DEF Valid, Resolved
    <2>4. LauncherTypeOK'
        BY <1>1, <2>1, <2>2 DEF RunInv, LauncherTypeOK
    <2>5. PackageInstalled' <=> PackageInstalled
        BY <1>1 DEF PackageInstalled
    <2>6. CallInv'
        <3>1. call'.update => s = "register"
            BY <2>1, <2>2
        <3>2. ~call'.update => PackageInstalled'
            BY <1>1, <2>2, <2>5 DEF RunInv, CallInv
        <3> QED
            BY <1>1, <2>1, <2>2, <2>3, <3>1, <3>2 DEF RunInv, CallInv
    <2>7. RunTells'
        BY <2>1, <2>2 DEF RunTells
    <2> QED
        BY <2>4, <2>6, <2>7 DEF RunInv
<1> QED
    BY <1>2, <1>3 DEF Validate

LEMMA RecordKeeps == ASSUME RunInv, RecordLaunch PROVE RunInv'
<1>1. /\ call.step = "register" /\ UNCHANGED unpacked /\ call.binary \in AppIds
      /\ menu' \in {menu, [menu EXCEPT ![call.binary] = call.binary]}
    BY DEF RecordLaunch, RunInv, CallInv, Call
<1>2. menu' \in [AppIds -> {"none", "file", "main"}]
    BY <1>1 DEF RunInv, LauncherTypeOK, AppIds
<1>3. CASE CallFails /\ UNCHANGED entry
    <2>1. LauncherTypeOK'
        BY <1>1, <1>2, <1>3 DEF CallFails, CallGoes, RunInv, LauncherTypeOK, CallInv, Call
    <2> QED
        BY <1>1, <1>3, <2>1, FailStep
<1>4. CASE /\ entry' = [entry EXCEPT ![call.binary] = [state |-> "installed",
                  source |-> "launcher", backend |-> Resolved(call.backend)]]
           /\ CallGoes([call EXCEPT !.step = "load"])
    <2>1. call' = [call EXCEPT !.step = "load"] /\ UNCHANGED <<file, env, ran, callCount>>
        BY <1>4 DEF CallGoes
    <2>2. /\ call' \in Call /\ call'.step = "load" /\ call'.code = call.code
          /\ call'.binary = call.binary /\ call'.update = call.update
        BY <2>1, CallExcept DEF RunInv, CallInv, CallSteps
    <2>3. Resolved(call.backend) \in KnownBackend
        BY <1>1 DEF RunInv, CallInv
    <2>4. /\ entry' \in [AppIds -> [state : {"none", "pending", "installed"},
               source : {"none", "installer", "launcher"}, backend : KnownBackend \union {"none"}]]
          /\ entry'[call.binary].state = "installed"
        BY <1>1, <1>4, <2>3 DEF RunInv, LauncherTypeOK
    <2>5. LauncherTypeOK'
        BY <1>1, <1>2, <2>1, <2>2, <2>4 DEF RunInv, LauncherTypeOK
    <2>6. call'.update
        BY <1>1, <2>2 DEF RunInv, CallInv
    <2>7. CallInv'
        BY <1>1, <2>1, <2>2, <2>4, <2>6 DEF RunInv, CallInv
    <2>8. RunTells'
        BY <2>2 DEF RunTells
    <2> QED
        BY <2>5, <2>7, <2>8 DEF RunInv
<1> QED
    BY <1>3, <1>4 DEF RecordLaunch

LEMMA LoadKeeps == ASSUME RunInv, LoadImage PROVE RunInv'
<1>1. call.step = "load" /\ UNCHANGED <<entry, menu, unpacked>>
    BY DEF LoadImage
<1>2. CASE CallFails
    <2>1. LauncherTypeOK'
        BY <1>1, <1>2, FailsAt DEF RunInv, LauncherTypeOK
    <2> QED
        BY <1>1, <1>2, <2>1, FailStep
<1>3. ASSUME NEW bytes \in LoadBytes(Held),
             CallGoes([call EXCEPT !.step = "execute", !.bytes = bytes])
      PROVE  RunInv'
    <2>1. /\ call' = [call EXCEPT !.step = "execute", !.bytes = bytes]
          /\ UNCHANGED <<file, env, ran, callCount>>
        BY <1>3 DEF CallGoes
    <2>2. Held \in Contents \union {"missing"}
        BY DEF Held, RunInv, CallInv
    <2>3. /\ bytes \in Contents \union {"none", "missing", "stub"}
          /\ bytes = "stub" => env.smoke
        BY <1>3, <2>2 DEF LoadBytes, FormatOf, Pe
    <2>4. /\ call' \in Call /\ call'.step = "execute" /\ call'.bytes = bytes
          /\ call'.code = call.code /\ call'.binary = call.binary /\ call'.update = call.update
        BY <2>1, <2>3 DEF RunInv, CallInv, Call, CallSteps
    <2>5. LauncherTypeOK'
        BY <1>1, <2>1, <2>4 DEF RunInv, LauncherTypeOK
    <2>6. PackageInstalled' <=> PackageInstalled
        BY <1>1 DEF PackageInstalled
    <2>7. CallInv'
        BY <1>1, <2>1, <2>3, <2>4, <2>6 DEF RunInv, CallInv
    <2>8. RunTells'
        BY <2>4 DEF RunTells
    <2> QED
        BY <2>5, <2>7, <2>8 DEF RunInv
<1> QED
    BY <1>2, <1>3 DEF LoadImage

LEMMA ExecuteKeeps ==
    ASSUME RunInv, NEW mode \in {"real", "simulated", "failed"}, Execute(mode) PROVE RunInv'
<1> DEFINE code == IF mode = "failed" \/ (mode = "simulated" /\ env.requireReal) THEN 1 ELSE 0
<1>1. /\ call.step = "execute" /\ UNCHANGED <<file, env, entry, menu, unpacked, callCount>>
      /\ mode = "failed" \/ call.bytes \in Runnable \union {"stub"}
      /\ ran' = IF mode = "failed" THEN "none" ELSE mode
      /\ call' = [call EXCEPT !.step = "done", !.code = code]
    BY DEF Execute
<1>2. /\ call' \in Call /\ call'.step = "done" /\ call'.code = code
      /\ call'.binary = call.binary /\ call'.update = call.update /\ call'.bytes = call.bytes
    BY <1>1 DEF RunInv, CallInv, Call, CallSteps
<1>3. LauncherTypeOK'
    BY <1>1, <1>2 DEF RunInv, LauncherTypeOK
<1>4. CallInv'
    BY <1>1, <1>2 DEF RunInv, CallInv
<1>5. /\ code = 1 => ran' # "real"
      /\ code # 1 => mode # "failed" /\ ran' = mode /\ (env.requireReal => ran' = "real")
    BY <1>1
<1>6. /\ call.update => entry[call.binary].state = "installed"
      /\ ~call.update => PackageInstalled
      /\ call.bytes = "stub" => env.smoke
    BY <1>1 DEF RunInv, CallInv
<1> HIDE DEF code
<1>7. RunTells'
    BY <1>1, <1>2, <1>5, <1>6 DEF RunTells, PackageInstalled
<1> QED
    BY <1>3, <1>4, <1>7 DEF RunInv

LEMMA NextRun == RunInv /\ [LauncherNext]_launcherVars => RunInv'
<1> SUFFICES ASSUME RunInv, [LauncherNext]_launcherVars PROVE RunInv'
    OBVIOUS
<1>1. CASE FileGoes
    <2>1. /\ call.step = "done" /\ file' = [file EXCEPT !.content = "missing", !.marked = FALSE]
          /\ UNCHANGED <<env, entry, menu, unpacked, call, ran, callCount>>
        BY <1>1 DEF FileGoes
    <2>2. file' \in [content : Contents \union {"missing"}, name : Names, marked : BOOLEAN,
                     inside : Contents]
        BY <2>1 DEF RunInv, CallInv
    <2> QED
        BY <2>1, <2>2 DEF RunInv, LauncherTypeOK, CallInv, RunTells
<1>2. CASE UNCHANGED launcherVars
    BY <1>2 DEF launcherVars, RunInv, LauncherTypeOK, CallInv, RunTells, PackageInstalled, Resolved
<1> QED
    BY <1>1, <1>2, StartsKeep, UnpackKeeps, PendingKeeps, ValidateKeeps, RecordKeeps, LoadKeeps,
       ExecuteKeeps DEF LauncherNext

(* The other commands.  Nothing is told before the end, a prefix in the         *)
(* temporary directory and a measure are those of a command under way.          *)

AnswerInv ==
    /\ scratch = "there" => told = NotTold
    /\ scratch # "none" => bench = "none"
    /\ bench \in {"created", "not created", "no start", "started"} =>
           FindRepoRoot # "none"
    /\ bench = "started" => RunsPrograms

CommandInv == CommandTypeOK /\ AnswerInv /\ CommandTells

\* The exit code of a report.
LEMMA Codes ==
    ASSUME NEW command, NEW report
    PROVE  /\ ExitCode(command, report) \in {0, 1}
           /\ report = "PASS" => ExitCode(command, report) = 0
           /\ report = "error" => ExitCode(command, report) = 1
           /\ report = "FAIL" /\ command \in FailOnFail => ExitCode(command, report) = 1
           /\ report # "PASS" /\ command \in FailUnlessPass => ExitCode(command, report) = 1
  BY DEF ExitCode

\* What a command, other than engine status and doctor, may report.
Justified(command, report) ==
    /\ command \notin {"doctor", "engine status"}
    /\ command \in {"engine hello", "bench", "apps launch"} /\ report = "PASS" => RunsPrograms
    /\ command \in {"bench", "prefix create", "recipes apply", "apps list"} =>
           FindRepoRoot # "none" \/ report = "error"

\* A command that tells of itself what is so keeps the invariant.
LEMMA TellsStep ==
    ASSUME CommandInv, NEW command, NEW report \in Reports \union {"UNKNOWN"},
           Tells(command, report), UNCHANGED machine,
           \/ scratch' \in {"none", "removed", "left"} /\ bench' = "none"
           \/ scratch' = "none" /\ bench' = "ended",
           Justified(command, report)
    PROVE  CommandInv'
<1>1. /\ told' = [command |-> command, report |-> report, code |-> ExitCode(command, report)]
      /\ machine' = machine
    BY DEF Tells
<1>2. /\ FindRepoRoot' = FindRepoRoot /\ RunsPrograms' = RunsPrograms
    BY <1>1 DEF FindRepoRoot, RunsPrograms, HasWine, LoadPin
<1>3. told'.code \in {0, 1}
    BY <1>1, Codes
<1>4. CommandTypeOK' /\ AnswerInv'
    BY <1>1, <1>2, <1>3 DEF CommandInv, CommandTypeOK, AnswerInv
<1>5. told'.command = command /\ told'.report = report /\ told'.code = ExitCode(command, report)
    BY <1>1
<1>6. command = "engine hello" /\ told'.code = 0 => report = "PASS"
    <2>1. "engine hello" \in FailUnlessPass
        BY DEF FailUnlessPass
    <2>2. ASSUME command = "engine hello", report # "PASS" PROVE told'.code = 1
        <3>1. ExitCode(command, report) = 1
            BY <2>1, <2>2, Codes
        <3> QED
            BY <3>1, <1>5
    <2>3. report # "PASS" /\ command = "engine hello" => told'.code = 1
        BY <2>2
    <2>4. 0 # 1
        OBVIOUS
    <2> QED
        BY <2>3, <2>4, Zenon
<1>7. report = "error" => told'.code = 1
    <2>1. report = "error" => ExitCode(command, report) = 1
        BY Codes
    <2> QED
        BY <2>1, <1>5
<1>8. report = "PASS" => told'.code = 0
    <2>1. report = "PASS" => ExitCode(command, report) = 0
        BY Codes
    <2> QED
        BY <2>1, <1>5
<1>9. CommandTells'
    <2>1. command \notin {"doctor", "engine status"}
        BY DEF Justified
    <2>2. command = "engine hello" /\ told'.code = 0 => RunsPrograms
        BY <1>6 DEF Justified
    <2>3. command \in {"bench", "apps launch"} /\ report = "PASS" => RunsPrograms
        BY DEF Justified
    <2>4. command \in {"bench", "prefix create", "recipes apply", "apps list"} /\ told'.code = 0
              => FindRepoRoot # "none"
        <3>1. report = "error" => told'.code # 0
            BY <1>7
        <3> QED
            BY <3>1 DEF Justified
    <2>5. scratch' # "there"
        OBVIOUS
    <2> QED
        BY <1>2, <1>5, <1>8, <2>1, <2>2, <2>3, <2>4, <2>5 DEF CommandTells
<1> QED
    BY <1>4, <1>9 DEF CommandInv

LEMMA AloneStep ==
    ASSUME CommandInv, NEW command, NEW reports \in SUBSET (Reports \union {"UNKNOWN"}),
           Alone(command, reports), \A r \in reports : Justified(command, r)
    PROVE  CommandInv'
<1>1. PICK r \in reports : Tells(command, r)
    BY DEF Alone
<1>2. scratch = "none" /\ bench = "none" /\ UNCHANGED <<machine, scratch, bench>>
    BY DEF Alone, Starts
<1>3. r \in Reports \union {"UNKNOWN"} /\ Justified(command, r)
    BY <1>1
<1> QED
    BY <1>1, <1>2, <1>3, TellsStep

LEMMA RootedStep ==
    ASSUME CommandInv, NEW command, NEW reports \in SUBSET Reports,
           Rooted(command, reports), command # "doctor" /\ command # "engine status",
           command \in {"engine hello", "bench", "apps launch"} /\ "PASS" \in reports => RunsPrograms
    PROVE  CommandInv'
<1>1. CASE FindRepoRoot = "none"
    <2>1. Alone(command, {"error"}) /\ {"error"} \in SUBSET (Reports \union {"UNKNOWN"})
        BY <1>1 DEF Rooted, Reports
    <2>2. \A r \in {"error"} : Justified(command, r)
        BY DEF Justified
    <2> QED
        BY <2>1, <2>2, AloneStep
<1>2. CASE FindRepoRoot # "none"
    <2>1. Alone(command, reports) /\ reports \in SUBSET (Reports \union {"UNKNOWN"})
        BY <1>2 DEF Rooted
    <2>2. \A r \in reports : Justified(command, r)
        BY <1>2 DEF Justified
    <2> QED
        BY <2>1, <2>2, AloneStep
<1> QED
    BY <1>1, <1>2

LEMMA InitCommands == ASSUME NEW m \in Machines, CommandInit(m) PROVE CommandInv
<1>1. told = NotTold /\ scratch = "none" /\ bench = "none" /\ machine \in Machines
    BY DEF CommandInit
<1>2. told.command = "none" /\ told.report = "none" /\ told.code = 0
    BY <1>1 DEF NotTold
<1> QED
    BY <1>1, <1>2 DEF CommandInv, CommandTypeOK, AnswerInv, CommandTells

\* A command of which no report says anything.
LEMMA PlainStep ==
    ASSUME CommandInv, NEW command, NEW reports \in SUBSET (Reports \union {"UNKNOWN"}),
           Alone(command, reports),
           command \notin {"doctor", "engine status", "engine hello", "bench", "apps launch",
                           "prefix create", "recipes apply", "apps list"}
    PROVE  CommandInv'
<1>1. \A r \in reports : Justified(command, r)
    BY DEF Justified
<1> QED
    BY <1>1, AloneStep

LEMMA ReportsKeep ==
    ASSUME CommandInv,
           \/ Apps \/ AppsLaunch \/ DevicesMfp \/ Stubs \/ Status
           \/ HelloNotStarted \/ PrefixCommands \/ RecipeCommands \/ MatrixCommands
           \/ BenchError \/ InteropStatus \/ InteropSmoke \/ SysappsCommands
    PROVE  CommandInv'
<1> USE DEF Reports
<1>1. CASE Apps
    BY <1>1, RootedStep DEF Apps
<1>2. CASE AppsLaunch
    <2>1. CASE Alone("apps launch role", {"PASS", "FAIL", "error"})
        BY <2>1, PlainStep
    <2>2. CASE Alone("apps launch", {"PARTIAL", "error"})
        <3>1. \A r \in {"PARTIAL", "error"} : Justified("apps launch", r)
            BY DEF Justified
        <3>2. {"PARTIAL", "error"} \in SUBSET (Reports \union {"UNKNOWN"})
            OBVIOUS
        <3> HIDE DEF Reports
        <3> QED
            BY <2>2, <3>1, <3>2, AloneStep
    <2>3. CASE Rooted("apps launch", IF HasWine
                  THEN {"FAIL"} \union (IF RunsPrograms THEN {"PASS"} ELSE {}) ELSE {"error"})
        BY <2>3, RootedStep DEF HasWine, RunsPrograms
    <2> QED
        BY <1>2, <2>1, <2>2, <2>3 DEF AppsLaunch
<1>3. CASE DevicesMfp \/ Stubs \/ Status
    BY <1>3, PlainStep DEF DevicesMfp, Stubs, Status
<1>4. CASE HelloNotStarted
    <2>1. Alone("engine hello", {"error"})
        BY <1>4 DEF HelloNotStarted
    <2>2. \A r \in {"error"} : Justified("engine hello", r)
        BY DEF Justified
    <2>3. {"error"} \in SUBSET (Reports \union {"UNKNOWN"})
        BY DEF Reports
    <2> QED
        BY <2>1, <2>2, <2>3, AloneStep
<1>5. CASE PrefixCommands
    BY <1>5, PlainStep, RootedStep DEF PrefixCommands
<1>6. CASE RecipeCommands
    BY <1>6, PlainStep, RootedStep DEF RecipeCommands
<1>7. CASE MatrixCommands
    BY <1>7, PlainStep, RootedStep DEF MatrixCommands
<1>8. CASE BenchError
    BY <1>8, RootedStep DEF BenchError
<1>9. CASE InteropStatus \/ InteropSmoke
    BY <1>9, RootedStep DEF InteropStatus, InteropSmoke
<1>10. CASE SysappsCommands
    BY <1>10, PlainStep DEF SysappsCommands
<1> QED
    BY <1>1, <1>2, <1>3, <1>4, <1>5, <1>6, <1>7, <1>8, <1>9, <1>10

\* engine status and doctor look at the same report; doctor at Wine as well.
LEMMA StatusKeeps == ASSUME CommandInv, EngineStatus \/ Doctor PROVE CommandInv'
<1>1. /\ scratch = "none" /\ bench = "none" /\ UNCHANGED <<machine, scratch, bench>>
    BY DEF EngineStatus, Doctor, Alone, Starts
<1>2. /\ HasWine' = HasWine /\ LoadPin' = LoadPin /\ ProbeVersion' = ProbeVersion
      /\ machine.cache' = machine.cache
    BY <1>1 DEF HasWine, LoadPin, ProbeVersion, FindRepoRoot
<1>3. EngineReport \in Reports
    BY DEF EngineReport, Reports
<1>4. /\ EngineReport \notin {"error", "FAIL"} => LoadPin /\ (ProbeVersion \/ machine.cache)
      /\ EngineReport = "PASS" => HasWine
    BY DEF EngineReport, ProbeVersion
<1>5. /\ told'.command \in {"engine status", "doctor"} /\ told'.report = EngineReport
      /\ told'.code \in {0, 1}
      /\ told'.command = "engine status" /\ told'.code = 0 => EngineReport \notin {"error", "FAIL"}
      /\ told'.command = "doctor" /\ told'.code = 0 => HasWine
      /\ EngineReport = "PASS" => told'.code = 0
    <2>1. CASE EngineStatus
        <3>1. told' = [command |-> "engine status", report |-> EngineReport,
                       code |-> ExitCode("engine status", EngineReport)]
            BY <2>1 DEF EngineStatus, Alone, Tells
        <3>2. "engine status" \in FailOnFail
            BY DEF FailOnFail
        <3>3. /\ ExitCode("engine status", EngineReport) \in {0, 1}
              /\ EngineReport = "PASS" => ExitCode("engine status", EngineReport) = 0
              /\ EngineReport = "error" => ExitCode("engine status", EngineReport) = 1
              /\ EngineReport = "FAIL" => ExitCode("engine status", EngineReport) = 1
            BY <3>2, Codes
        <3>4. /\ told'.command = "engine status" /\ told'.report = EngineReport
              /\ told'.code = ExitCode("engine status", EngineReport)
            BY <3>1
        <3>5. "engine status" # "doctor" /\ 0 # 1
            OBVIOUS
        <3> QED
            BY <3>3, <3>4, <3>5, Zenon
    <2>2. CASE Doctor
        BY <2>2, <1>3, <1>4 DEF Doctor
    <2> QED
        BY <2>1, <2>2
<1>6. CommandTypeOK' /\ AnswerInv'
    BY <1>1, <1>5 DEF CommandInv, CommandTypeOK, AnswerInv
<1>7. CommandTells'
    BY <1>1, <1>2, <1>4, <1>5 DEF CommandTells
<1> QED
    BY <1>6, <1>7 DEF CommandInv

LEMMA HelloKeeps == ASSUME CommandInv, StartHello \/ EndHello PROVE CommandInv'
<1>1. CASE StartHello
    <2>1. /\ told = NotTold /\ scratch' = "there" /\ bench = "none"
          /\ UNCHANGED <<machine, bench, told>>
        BY <1>1 DEF StartHello, Starts
    <2>2. told.command = "none" /\ told.report = "none"
        BY <2>1 DEF NotTold
    <2> QED
        BY <2>1, <2>2 DEF CommandInv, CommandTypeOK, AnswerInv, CommandTells
<1>2. CASE EndHello
    <2>1. PICK r \in {IF RunsPrograms THEN "PASS" ELSE "FAIL", "error"} : Tells("engine hello", r)
        BY <1>2 DEF EndHello
    <2>2. scratch' \in {"removed", "left"} /\ UNCHANGED <<machine, bench>>
        BY <1>2 DEF EndHello
    <2>3. r \in Reports \union {"UNKNOWN"} /\ (r = "PASS" => RunsPrograms)
        BY <2>1 DEF Reports
    <2>4. bench = "none" /\ Justified("engine hello", r)
        BY <1>2, <2>3 DEF EndHello, CommandInv, AnswerInv, Justified
    <2> QED
        BY <2>1, <2>2, <2>3, <2>4, TellsStep
<1> QED
    BY <1>1, <1>2

LEMMA BenchKeeps ==
    ASSUME CommandInv,
           StartBench("created") \/ StartBench("not created") \/ ColdStart \/ EndBench
    PROVE  CommandInv'
<1>1. CASE StartBench("created") \/ StartBench("not created")
    <2>1. /\ told = NotTold /\ bench' \in {"created", "not created"} /\ LoadPin
          /\ scratch = "none"
          /\ UNCHANGED <<machine, scratch, told>>
        BY <1>1 DEF StartBench, Starts
    <2>2. FindRepoRoot # "none" /\ FindRepoRoot' = FindRepoRoot
        BY <2>1 DEF LoadPin, FindRepoRoot
    <2>3. told.command = "none" /\ told.report = "none"
        BY <2>1 DEF NotTold
    <2> QED
        BY <2>1, <2>2, <2>3 DEF CommandInv, CommandTypeOK, AnswerInv, CommandTells
<1>2. CASE ColdStart
    <2>1. /\ bench = "created" /\ bench' \in {"no start", "started"}
          /\ bench' = "started" => RunsPrograms
          /\ UNCHANGED <<machine, scratch, told>>
        BY <1>2 DEF ColdStart
    <2>2. /\ FindRepoRoot' = FindRepoRoot /\ RunsPrograms' = RunsPrograms /\ HasWine' = HasWine
          /\ LoadPin' = LoadPin /\ ProbeVersion' = ProbeVersion
        BY <2>1 DEF FindRepoRoot, RunsPrograms, HasWine, LoadPin, ProbeVersion
    <2> QED
        BY <2>1, <2>2 DEF CommandInv, CommandTypeOK, AnswerInv, CommandTells
<1>3. CASE EndBench
    <2>1. /\ bench \in {"not created", "no start", "started"} /\ bench' = "ended"
          /\ UNCHANGED <<machine, scratch>>
        BY <1>3 DEF EndBench
    <2>2. PICK r \in Reports : Tells("bench", r) /\ (r = "PASS" => bench = "started")
        BY <1>3 DEF EndBench, Reports
    <2>3. FindRepoRoot # "none" /\ (r = "PASS" => RunsPrograms)
        BY <2>1, <2>2 DEF CommandInv, AnswerInv
    <2>4. scratch = "none" /\ Justified("bench", r)
        BY <2>1, <2>3 DEF CommandInv, AnswerInv, Justified
    <2> QED
        BY <2>1, <2>2, <2>3, <2>4, TellsStep
<1> QED
    BY <1>1, <1>2, <1>3

LEMMA NextCommands == ASSUME CommandInv, [CommandNext]_commandVars PROVE CommandInv'
<1>1. CASE UNCHANGED commandVars
    BY <1>1 DEF commandVars, CommandInv, CommandTypeOK, AnswerInv, CommandTells, FindRepoRoot,
       RunsPrograms, HasWine, LoadPin, ProbeVersion
<1>2. CASE CommandNext
    BY <1>2, ReportsKeep, StatusKeeps, HelloKeeps, BenchKeeps DEF CommandNext
<1> QED
    BY <1>1, <1>2

LEMMA CommandsTell == CommandSpec => []CommandTells
<1>1. (\E m \in Machines : CommandInit(m)) => CommandInv
    BY InitCommands
<1>2. CommandInv /\ [CommandNext]_commandVars => CommandInv'
    BY NextCommands
<1>3. CommandInv => CommandTells
    BY DEF CommandInv
<1> QED
    BY <1>1, <1>2, <1>3, PTL DEF CommandSpec

-----------------------------------------------------------------------------
(* The system apps.  Until a launch answers, what it found stands: the status   *)
(* it will write down was reached, and last-run.json is written before LAUNCHED. *)

LaunchType ==
    [at : {"idle", "detail", "seed", "seed more", "last run", "stamp"},
     purpose : {"launch", "seed"}, status : {"PASS", "PARTIAL", "FAIL"}]

\* What the status of a launch, or its answer, says when it is not FAIL.
Reached ==
    /\ role = "run_dialog" => world.wine = "works" /\ "sys-run" \in bottles
    /\ role = "compat_center" => rows # NoRows

UnderWay ==
    /\ launch.at \in {"detail", "last run", "stamp"} => answer = "none"
    /\ launch.at \in {"seed", "seed more"} /\ launch.purpose = "launch" =>
           role = "compat_center" /\ answer = "none"
    /\ launch.at = "seed more" => rows # NoRows
    /\ launch.at \in {"last run", "stamp"} /\ launch.status # "FAIL" => Reached
    /\ launch.at = "stamp" => lastRun = Outcome

Answered ==
    /\ answer # "none" => stamped /\ lastRun = answer
    /\ answer = "PASS" => Reached
    /\ stamped => lastRun # "none"

SystemInv == SystemTypeOK /\ launch \in LaunchType /\ UnderWay /\ Answered

LEMMA InitSystem ==
    ASSUME NEW w \in Worlds, NEW r \in Roles, SystemInit(w, r) PROVE SystemInv
<1>1. launch = [at |-> "idle", purpose |-> "launch", status |-> "PASS"]
    BY DEF SystemInit, Quiet
<1>2. launch \in LaunchType /\ launch.at = "idle"
    BY <1>1 DEF LaunchType
<1> QED
    BY <1>2 DEF SystemInit, SystemInv, SystemTypeOK, UnderWay, Answered, NoRows

\* A row that is set is never the row that is missing.
LEMMA SetsRow ==
    ASSUME NEW k \in Key, NEW word, NEW whole \in BOOLEAN, SetEntry(k, word, whole), SystemTypeOK
    PROVE  /\ cut' \in BOOLEAN
           /\ rows' \in [Key -> {"none", "PASS", "PARTIAL", "FAIL", "UNKNOWN"}]
           /\ rows # NoRows \/ whole => rows' # NoRows
<1>1. Normalize(word) \in {"PASS", "PARTIAL", "FAIL", "UNKNOWN"}
    BY DEF Normalize
<1>2. CASE whole
    <2>1. rows' = [rows EXCEPT ![k] = Normalize(word)] /\ cut' = FALSE
        BY <1>2 DEF SetEntry
    <2>2. rows'[k] = Normalize(word) /\ NoRows[k] = "none"
        BY <2>1 DEF SystemTypeOK, NoRows
    <2>3. rows' # NoRows
        BY <1>1, <2>2
    <2> QED
        BY <1>1, <2>1, <2>3 DEF SystemTypeOK
<1>3. CASE ~whole
    BY <1>3 DEF SetEntry, SystemTypeOK
<1> QED
    BY <1>2, <1>3

\* A step that changes the matrix, and at most where the launch is.
LEMMA MatrixKeeps ==
    ASSUME SystemInv,
           (\E k \in Key, word \in Words, whole \in BOOLEAN : MatrixSet(k, word, whole))
               \/ SeedFirst \/ SeedSecond
    PROVE  SystemInv'
<1> USE DEF SystemInv
<1>0. SystemTypeOK /\ launch \in LaunchType
    OBVIOUS
<1>1. CASE \E k \in Key, word \in Words, whole \in BOOLEAN : MatrixSet(k, word, whole)
    <2>1. PICK k \in Key, word \in Words, whole \in BOOLEAN : MatrixSet(k, word, whole)
        BY <1>1
    <2>2. /\ launch.at = "idle" /\ SetEntry(k, word, whole)
          /\ UNCHANGED <<role, lastRun, stamped, bottles, world, launch, answer>>
        BY <2>1 DEF MatrixSet
    <2>3. /\ cut' \in BOOLEAN
          /\ rows' \in [Key -> {"none", "PASS", "PARTIAL", "FAIL", "UNKNOWN"}]
          /\ rows # NoRows => rows' # NoRows
        BY <1>0, <2>2, SetsRow
    <2> QED
        BY <2>2, <2>3 DEF SystemTypeOK, UnderWay, Answered, Reached
<1>2. CASE SeedFirst
    <2>1. /\ launch.at = "seed" /\ launch' = [launch EXCEPT !.at = "seed more"]
          /\ SetEntry(Golden[1], "PARTIAL", TRUE)
          /\ UNCHANGED <<role, lastRun, stamped, bottles, world, answer>>
        BY <1>2 DEF SeedFirst
    <2>2. /\ cut' \in BOOLEAN
          /\ rows' \in [Key -> {"none", "PASS", "PARTIAL", "FAIL", "UNKNOWN"}]
          /\ rows' # NoRows
        BY <1>0, <2>1, SetsRow DEF Key
    <2>3. launch' \in LaunchType /\ launch'.at = "seed more" /\ launch'.purpose = launch.purpose
        BY <2>1 DEF LaunchType
    <2> QED
        BY <2>1, <2>2, <2>3 DEF SystemTypeOK, UnderWay, Answered, Reached
<1>3. CASE SeedSecond
    <2>1. /\ launch.at = "seed more" /\ SetEntry(Golden[2], "PARTIAL", TRUE)
          /\ UNCHANGED <<role, lastRun, stamped, bottles, world, answer>>
          /\ IF launch.purpose = "launch" THEN Detailed("PASS") ELSE launch' = Quiet
        BY <1>3 DEF SeedSecond
    <2>2. /\ cut' \in BOOLEAN
          /\ rows' \in [Key -> {"none", "PASS", "PARTIAL", "FAIL", "UNKNOWN"}]
          /\ rows' # NoRows
        BY <1>0, <2>1, SetsRow DEF Key
    <2>3. CASE launch.purpose = "launch"
        <3>1. launch' \in LaunchType /\ launch'.at = "last run"
            BY <2>1, <2>3 DEF Detailed, LaunchType
        <3>2. role = "compat_center" /\ answer = "none"
            BY <2>1, <2>3 DEF UnderWay
        <3> QED
            BY <2>1, <2>2, <3>1, <3>2 DEF SystemTypeOK, UnderWay, Answered, Reached
    <2>4. CASE launch.purpose # "launch"
        <3>1. launch' = Quiet /\ Quiet \in LaunchType /\ Quiet.at = "idle"
            <4>1. launch' = Quiet
                BY <2>1, <2>4
            <4>2. Quiet \in LaunchType /\ Quiet.at = "idle"
                BY DEF Quiet, LaunchType
            <4> QED
                BY <4>1, <4>2
        <3> QED
            BY <2>1, <2>2, <3>1 DEF SystemTypeOK, UnderWay, Answered, Reached
    <2> QED
        BY <2>3, <2>4
<1> QED
    BY <1>1, <1>2, <1>3

\* A launch whose role has done its part, with the status it will write down.
LEMMA DetailKeeps ==
    ASSUME SystemInv, NEW status \in {"PASS", "PARTIAL", "FAIL"}, launch.at = "detail",
           Detailed(status), UNCHANGED <<role, rows, cut, lastRun, stamped, world, answer>>,
           bottles \subseteq bottles', bottles' \subseteq {"sys-run", "sys-files"},
           status # "FAIL" => Reached'
    PROVE  SystemInv'
<1>1. launch' \in LaunchType /\ launch'.at = "last run" /\ launch'.status = status
    BY DEF Detailed, SystemInv, LaunchType
<1>2. answer = "none"
    BY DEF SystemInv, UnderWay
<1> QED
    BY <1>1, <1>2 DEF SystemInv, SystemTypeOK, UnderWay, Answered

LEMMA RolesKeep ==
    ASSUME SystemInv,
           \/ LaunchSettings \/ LaunchRunDialog \/ LaunchInstaller \/ LaunchHostView
           \/ LaunchFileManager \/ LaunchCompat
    PROVE  SystemInv'
<1>0. bottles \subseteq {"sys-run", "sys-files"}
    BY DEF SystemInv, SystemTypeOK
<1> USE DEF Launches, Reached
<1>1. CASE LaunchSettings
    BY <1>0, <1>1, DetailKeeps DEF LaunchSettings
<1>2. CASE LaunchRunDialog
    <2>1. CASE world.wine = "none"
        BY <1>0, <1>2, <2>1, DetailKeeps DEF LaunchRunDialog
    <2>2. CASE world.wine # "none"
        <3>1. PICK status \in {"PASS", "FAIL"} :
                  Detailed(status) /\ (status = "PASS" => world.wine = "works")
            BY <1>2, <2>2 DEF LaunchRunDialog
        <3>2. /\ bottles' = bottles \union {"sys-run"} /\ launch.at = "detail"
              /\ role = "run_dialog"
              /\ UNCHANGED <<role, rows, cut, lastRun, stamped, world, answer>>
            BY <1>2, <2>2 DEF LaunchRunDialog
        <3> QED
            BY <1>0, <3>1, <3>2, DetailKeeps
    <2> QED
        BY <2>1, <2>2
<1>3. CASE LaunchInstaller
    BY <1>0, <1>3, DetailKeeps DEF LaunchInstaller
<1>4. CASE LaunchHostView
    BY <1>0, <1>4, DetailKeeps DEF LaunchHostView
<1>5. CASE LaunchFileManager
    BY <1>0, <1>5, DetailKeeps DEF LaunchFileManager
<1>6. CASE LaunchCompat
    <2>1. CASE rows = NoRows
        <3>1. /\ launch' = [launch EXCEPT !.at = "seed"] /\ launch.at = "detail"
              /\ role = "compat_center"
              /\ UNCHANGED <<role, rows, cut, lastRun, stamped, bottles, world, answer>>
            BY <1>6, <2>1 DEF LaunchCompat
        <3>2. launch' \in LaunchType /\ launch'.at = "seed" /\ answer = "none"
            BY <3>1 DEF SystemInv, LaunchType, UnderWay
        <3> QED
            BY <3>1, <3>2 DEF SystemInv, SystemTypeOK, UnderWay, Answered
    <2>2. CASE rows # NoRows
        BY <1>0, <1>6, <2>2, DetailKeeps DEF LaunchCompat, NoRows
    <2> QED
        BY <2>1, <2>2
<1> QED
    BY <1>1, <1>2, <1>3, <1>4, <1>5, <1>6

LEMMA WritesKeep ==
    ASSUME SystemInv, LaunchRole \/ StartSeed \/ WriteLastRun \/ Stamp \/ LaunchStops
    PROVE  SystemInv'
<1> USE DEF SystemInv
<1>0. launch \in LaunchType
    OBVIOUS
<1>a. Outcome \in {"PASS", "FAIL"} /\ (Outcome = "PASS" => launch.status # "FAIL")
    BY DEF Outcome
<1>b. Quiet \in LaunchType /\ Quiet.at = "idle"
    BY DEF Quiet, LaunchType
<1>1. CASE LaunchRole
    <2>1. launch' \in LaunchType /\ launch'.at = "detail" /\ answer' = "none"
        BY <1>1 DEF LaunchRole, Quiet, LaunchType
    <2> QED
        BY <1>1, <2>1 DEF LaunchRole, SystemTypeOK, UnderWay, Answered
<1>2. CASE StartSeed
    <2>1. launch' \in LaunchType /\ launch'.at = "seed" /\ launch'.purpose = "seed"
        BY <1>2 DEF StartSeed, Quiet, LaunchType
    <2> QED
        BY <1>2, <2>1 DEF StartSeed, SystemTypeOK, UnderWay, Answered, Reached
<1>3. CASE WriteLastRun
    <2>1. /\ launch' \in LaunchType /\ launch'.at = "stamp" /\ launch'.status = launch.status
          /\ launch.at = "last run" /\ lastRun' = Outcome
          /\ UNCHANGED <<role, rows, cut, stamped, bottles, world, answer>>
        BY <1>0, <1>3 DEF WriteLastRun, LaunchType
    <2>2. Outcome' = Outcome /\ answer = "none"
        BY <2>1 DEF Outcome, UnderWay
    <2> QED
        BY <1>a, <2>1, <2>2 DEF SystemTypeOK, UnderWay, Answered, Reached
<1>4. CASE Stamp
    <2>1. /\ launch.at = "stamp" /\ launch' = Quiet /\ stamped' = TRUE /\ answer' = Outcome
          /\ UNCHANGED <<role, rows, cut, lastRun, bottles, world>>
        BY <1>4 DEF Stamp
    <2>2. lastRun = Outcome /\ (Outcome = "PASS" => Reached)
        BY <1>a, <2>1 DEF UnderWay
    <2> QED
        BY <1>a, <1>b, <2>1, <2>2 DEF SystemTypeOK, UnderWay, Answered, Reached
<1>5. CASE LaunchStops
    <2>1. /\ launch.at # "idle" /\ launch' = Quiet /\ cut' \in BOOLEAN
          /\ lastRun' = lastRun \/ (launch.at = "last run" /\ lastRun' = "torn")
          /\ UNCHANGED <<role, rows, stamped, bottles, world, answer>>
        BY <1>5 DEF LaunchStops, SystemTypeOK
    <2> QED
        BY <1>b, <2>1 DEF SystemTypeOK, UnderWay, Answered, Reached
<1> QED
    BY <1>1, <1>2, <1>3, <1>4, <1>5

LEMMA NextSystem == ASSUME SystemInv, [SystemNext]_systemVars PROVE SystemInv'
<1>1. CASE UNCHANGED systemVars
    BY <1>1 DEF systemVars, SystemInv, SystemTypeOK, UnderWay, Answered, Reached, Outcome
<1>2. CASE SystemNext
    BY <1>2, MatrixKeeps, RolesKeep, WritesKeep DEF SystemNext
<1> QED
    BY <1>1, <1>2

LEMMA LaunchesTell == SystemSpec => []LaunchTells
<1>1. (\E w \in Worlds, r \in Roles : SystemInit(w, r)) => SystemInv
    BY InitSystem
<1>2. SystemInv /\ [SystemNext]_systemVars => SystemInv'
    BY NextSystem
<1>3. SystemInv => LaunchTells
    BY DEF SystemInv, Answered, Reached, LaunchTells
<1> QED
    BY <1>1, <1>2, <1>3, PTL DEF SystemSpec

-----------------------------------------------------------------------------
(* The composition: the three parts share no variable. *)

\* The exit code and what a command writes down of itself tell what became of
\* it: run, open and install; the other commands; the system apps (ExitCodeTells,
\* launcher main.rs and sysapps launch.rs).
THEOREM ExitCodesTell == ExitsSpec => []ExitCodeTells
<1>1. (\E f \in FileType, e \in EnvType : LauncherInit(f, e)) => RunInv
    BY InitRun
<1>2. RunInv /\ [LauncherNext]_launcherVars => RunInv'
    BY NextRun
<1>3. RunInv => RunTells
    BY DEF RunInv
<1>4. LauncherSpec => []RunTells
    BY <1>1, <1>2, <1>3, PTL DEF LauncherSpec
<1> QED
    BY <1>4, CommandsTell, LaunchesTell, PTL DEF ExitsSpec, ExitCodeTells
-----------------------------------------------------------------------------
(* The command line, for any words.  A scan counts: what it has made of the *)
(* words so far weighs as many words as it has seen.                        *)

\* A word of a command line, and what a scan keeps: words, the options that
\* need no word for their name, and the text of a marked prefix.
CliWord == STRING
Kept == CliWord \union {MarkedText, "--home", "--profile", "--status"}

CliRecord(O) ==
    [state : {"ok", "error"}, flags : SUBSET Kept, values : SUBSET (Kept \X Kept),
     prefixes : Seq(Kept), operands : Seq(O), want : Kept \union {Nothing}]

\* What a scan may hold, with operands in O.
Scanned(O) == {r \in CliRecord(O) : IsFiniteSet(r.flags) /\ IsFiniteSet(r.values)}

\* An option that waits for its value.
Waits(r) == IF r.want = Nothing THEN 0 ELSE 1

\* The words that a scan has made something of.
Weight(r) ==
    Cardinality(r.flags) + (Cardinality(r.values) + Cardinality(r.values))
        + (Len(r.prefixes) + Len(r.prefixes)) + Len(r.operands) + Waits(r)

\* Its flags and options are words that were seen, and an option that waits for
\* its value has none yet.
SeenIn(r, seen) ==
    /\ r.flags \subseteq seen /\ \A v \in r.values : v[1] \in seen
    /\ r.want # Nothing => r.want \in seen /\ \A v \in r.values : v[1] # r.want

\* Every field of a scan is what it is of the record put together again.
LEMMA ScannedIs ==
    ASSUME NEW O, NEW r \in Scanned(O)
    PROVE  /\ r.state \in {"ok", "error"} /\ r.flags \subseteq Kept
           /\ r.values \subseteq Kept \X Kept /\ r.prefixes \in Seq(Kept)
           /\ r.operands \in Seq(O) /\ r.want \in Kept \union {Nothing}
           /\ IsFiniteSet(r.flags) /\ IsFiniteSet(r.values)
           /\ Cardinality(r.flags) \in Nat /\ Cardinality(r.values) \in Nat
           /\ Len(r.prefixes) \in Nat /\ Len(r.operands) \in Nat /\ Weight(r) \in Nat
           /\ Waits(r) \in Nat
<1>1. r \in CliRecord(O) /\ IsFiniteSet(r.flags) /\ IsFiniteSet(r.values)
    BY DEF Scanned
<1>2. /\ r.state \in {"ok", "error"} /\ r.flags \subseteq Kept
      /\ r.values \subseteq Kept \X Kept /\ r.prefixes \in Seq(Kept)
      /\ r.operands \in Seq(O) /\ r.want \in Kept \union {Nothing}
    BY <1>1 DEF CliRecord
<1>3. Cardinality(r.flags) \in Nat /\ Cardinality(r.values) \in Nat
    BY <1>1, FS_CardinalityType
<1>4. Len(r.prefixes) \in Nat /\ Len(r.operands) \in Nat
    BY <1>2, LenProperties
<1>5. Weight(r) \in Nat
    <2>1. Waits(r) \in Nat
        BY DEF Waits
    <2> DEFINE c == Cardinality(r.flags)
               v == Cardinality(r.values)
               n == Len(r.prefixes)
               o == Len(r.operands)
               w == Waits(r)
    <2>2. c \in Nat /\ v \in Nat /\ n \in Nat /\ o \in Nat /\ w \in Nat
        BY <1>3, <1>4, <2>1
    <2>3. Weight(r) = c + (v + v) + (n + n) + o + w
        BY DEF Weight
    <2> HIDE DEF c, v, n, o, w
    <2> QED
        BY <2>2, <2>3
<1>6. Waits(r) \in Nat
    BY DEF Waits
<1> QED
    BY <1>1, <1>2, <1>3, <1>4, <1>5, <1>6

\* An option gets its value.
LEMMA KeepWeighs ==
    ASSUME NEW O, NEW r \in Scanned(O), NEW seen, SeenIn(r, seen), r.want # Nothing,
           NEW x \in Kept
    PROVE  LET k == Keep(r, r.want, x)
           IN  /\ k \in Scanned(O) /\ Weight(k) = Weight(r) + 1 /\ SeenIn(k, seen)
               /\ k.state = r.state /\ k.values = r.values \union {<<r.want, x>>}
               /\ k.operands = r.operands /\ k.prefixes = r.prefixes /\ k.flags = r.flags
               /\ k.want = Nothing
<1> DEFINE k == Keep(r, r.want, x)
           p == <<r.want, x>>
<1>1. /\ r.state \in {"ok", "error"} /\ r.flags \subseteq Kept
      /\ r.values \subseteq Kept \X Kept /\ r.prefixes \in Seq(Kept)
      /\ r.operands \in Seq(O) /\ r.want \in Kept
      /\ IsFiniteSet(r.flags) /\ IsFiniteSet(r.values)
      /\ Cardinality(r.flags) \in Nat /\ Cardinality(r.values) \in Nat
      /\ Len(r.prefixes) \in Nat /\ Len(r.operands) \in Nat /\ Waits(r) \in Nat
    BY ScannedIs
<1>2. {v \in r.values : v[1] # r.want} = r.values /\ p \notin r.values
    BY DEF SeenIn
<1>3. k = [r EXCEPT !.values = r.values \union {p}, !.want = Nothing]
    BY <1>2 DEF Keep
<1>4. r \in CliRecord(O)
    BY DEF Scanned
<1>5. p \in Kept \X Kept
    BY <1>1
<1>6. /\ k.state = r.state /\ k.flags = r.flags /\ k.values = r.values \union {p}
      /\ k.prefixes = r.prefixes /\ k.operands = r.operands /\ k.want = Nothing
      /\ k \in CliRecord(O)
    <2>1. r.values \union {p} \in SUBSET (Kept \X Kept)
        BY <1>1, <1>5
    <2> HIDE DEF p
    <2> QED
        BY <1>1, <1>3, <1>4, <2>1 DEF CliRecord
<1> HIDE DEF k
<1>7. IsFiniteSet(r.values \union {p}) /\ Cardinality(r.values \union {p}) = Cardinality(r.values) + 1
    BY <1>1, <1>2, FS_AddElement
<1>8. k \in Scanned(O)
    BY <1>1, <1>6, <1>7 DEF Scanned
<1>9. Weight(k) = Weight(r) + 1
    <2>1. Waits(k) = 0 /\ Waits(r) = 1
        BY <1>6 DEF Waits
    <2>2. /\ Cardinality(k.flags) = Cardinality(r.flags) /\ Cardinality(k.values) = Cardinality(r.values) + 1
          /\ Len(k.prefixes) = Len(r.prefixes) /\ Len(k.operands) = Len(r.operands)
        BY <1>6, <1>7
    <2> DEFINE c == Cardinality(r.flags)
               v == Cardinality(r.values)
               n == Len(r.prefixes)
               o == Len(r.operands)
               w == Waits(r)
    <2>3. c \in Nat /\ v \in Nat /\ n \in Nat /\ o \in Nat /\ w \in Nat
        BY <1>1
    <2>4. Weight(k) = c + ((v + 1) + (v + 1)) + (n + n) + o + 0
        BY <2>1, <2>2 DEF Weight
    <2>5. Weight(r) = c + (v + v) + (n + n) + o + 1
        BY <2>1 DEF Weight
    <2> HIDE DEF c, v, n, o, w
    <2> QED
        BY <2>3, <2>4, <2>5
<1>10. SeenIn(k, seen)
    BY <1>6 DEF SeenIn
<1> QED
    BY <1>6, <1>8, <1>9, <1>10 DEF k

\* A new flag.
LEMMA FlagWeighs ==
    ASSUME NEW O, NEW r \in Scanned(O), NEW seen, SeenIn(r, seen), r.want = Nothing,
           NEW w \in Kept, w \notin seen, NEW more, seen \subseteq more, w \in more
    PROVE  LET k == SetFlag(r, w)
           IN  /\ k \in Scanned(O) /\ Weight(k) = Weight(r) + 1 /\ SeenIn(k, more)
               /\ k.state = r.state /\ k.values = r.values /\ k.operands = r.operands
               /\ k.prefixes = r.prefixes /\ k.flags = r.flags \union {w} /\ k.want = Nothing
<1> DEFINE k == SetFlag(r, w)
<1>1. /\ r.state \in {"ok", "error"} /\ r.flags \subseteq Kept
      /\ r.values \subseteq Kept \X Kept /\ r.prefixes \in Seq(Kept)
      /\ r.operands \in Seq(O)
      /\ IsFiniteSet(r.flags) /\ IsFiniteSet(r.values)
      /\ Cardinality(r.flags) \in Nat /\ Cardinality(r.values) \in Nat
      /\ Len(r.prefixes) \in Nat /\ Len(r.operands) \in Nat /\ Waits(r) \in Nat
    BY ScannedIs
<1>2. w \notin r.flags
    BY DEF SeenIn
<1>3. r \in CliRecord(O)
    BY DEF Scanned
<1>4. /\ k.state = r.state /\ k.flags = r.flags \union {w} /\ k.values = r.values
      /\ k.prefixes = r.prefixes /\ k.operands = r.operands /\ k.want = Nothing
      /\ k \in CliRecord(O)
    BY <1>1, <1>3 DEF CliRecord, SetFlag
<1> HIDE DEF k
<1>5. IsFiniteSet(r.flags \union {w}) /\ Cardinality(r.flags \union {w}) = Cardinality(r.flags) + 1
    BY <1>1, <1>2, FS_AddElement
<1>6. k \in Scanned(O)
    BY <1>1, <1>4, <1>5 DEF Scanned
<1>7. Weight(k) = Weight(r) + 1
    <2>1. Waits(k) = 0 /\ Waits(r) = 0
        BY <1>4 DEF Waits
    <2>2. /\ Cardinality(k.flags) = Cardinality(r.flags) + 1 /\ Cardinality(k.values) = Cardinality(r.values)
          /\ Len(k.prefixes) = Len(r.prefixes) /\ Len(k.operands) = Len(r.operands)
        BY <1>4, <1>5
    <2> DEFINE c == Cardinality(r.flags)
               v == Cardinality(r.values)
               n == Len(r.prefixes)
               o == Len(r.operands)
    <2>3. c \in Nat /\ v \in Nat /\ n \in Nat /\ o \in Nat
        BY <1>1
    <2>4. Weight(k) = (c + 1) + (v + v) + (n + n) + o + 0
        BY <2>1, <2>2 DEF Weight
    <2>5. Weight(r) = c + (v + v) + (n + n) + o + 0
        BY <2>1 DEF Weight
    <2> HIDE DEF c, v, n, o
    <2> QED
        BY <2>3, <2>4, <2>5
<1>8. SeenIn(k, more)
    BY <1>4 DEF SeenIn
<1> QED
    BY <1>4, <1>6, <1>7, <1>8 DEF k

\* A new option, whose value comes next.
LEMMA WantWeighs ==
    ASSUME NEW O, NEW r \in Scanned(O), NEW seen, SeenIn(r, seen), r.want = Nothing,
           NEW w \in Kept, w \notin seen, w # Nothing, NEW more, seen \subseteq more, w \in more
    PROVE  LET k == [r EXCEPT !.want = w]
           IN  /\ k \in Scanned(O) /\ Weight(k) = Weight(r) + 1 /\ SeenIn(k, more)
               /\ k.state = r.state /\ k.values = r.values /\ k.operands = r.operands
               /\ k.prefixes = r.prefixes /\ k.flags = r.flags /\ k.want = w
<1> DEFINE k == [r EXCEPT !.want = w]
<1>1. /\ r.state \in {"ok", "error"} /\ r.flags \subseteq Kept
      /\ r.values \subseteq Kept \X Kept /\ r.prefixes \in Seq(Kept)
      /\ r.operands \in Seq(O)
      /\ IsFiniteSet(r.flags) /\ IsFiniteSet(r.values)
      /\ Cardinality(r.flags) \in Nat /\ Cardinality(r.values) \in Nat
      /\ Len(r.prefixes) \in Nat /\ Len(r.operands) \in Nat /\ Waits(r) \in Nat
    BY ScannedIs
<1>2. \A v \in r.values : v[1] \in seen /\ v[1] # w
    BY DEF SeenIn
<1>3. r \in CliRecord(O) /\ w # Nothing
    BY DEF Scanned
<1>4. /\ k.state = r.state /\ k.flags = r.flags /\ k.values = r.values
      /\ k.prefixes = r.prefixes /\ k.operands = r.operands /\ k.want = w
      /\ k \in CliRecord(O)
    BY <1>1, <1>3 DEF CliRecord
<1> HIDE DEF k
<1>5. k \in Scanned(O)
    BY <1>1, <1>4 DEF Scanned
<1>6. Weight(k) = Weight(r) + 1
    <2>1. Waits(k) = 1 /\ Waits(r) = 0
        BY <1>3, <1>4 DEF Waits
    <2>2. /\ Cardinality(k.flags) = Cardinality(r.flags) /\ Cardinality(k.values) = Cardinality(r.values)
          /\ Len(k.prefixes) = Len(r.prefixes) /\ Len(k.operands) = Len(r.operands)
        BY <1>4
    <2> DEFINE c == Cardinality(r.flags)
               v == Cardinality(r.values)
               n == Len(r.prefixes)
               o == Len(r.operands)
    <2>3. c \in Nat /\ v \in Nat /\ n \in Nat /\ o \in Nat
        BY <1>1
    <2>4. Weight(k) = c + (v + v) + (n + n) + o + 1
        BY <2>1, <2>2 DEF Weight
    <2>5. Weight(r) = c + (v + v) + (n + n) + o + 0
        BY <2>1 DEF Weight
    <2> HIDE DEF c, v, n, o
    <2> QED
        BY <2>3, <2>4, <2>5
<1>7. SeenIn(k, more)
    BY <1>2, <1>4 DEF SeenIn
<1> QED
    BY <1>4, <1>5, <1>6, <1>7 DEF k

\* An operand more.
LEMMA OperandWeighs ==
    ASSUME NEW O, NEW r \in Scanned(O), NEW seen, SeenIn(r, seen), NEW x \in O
    PROVE  LET k == Operand(r, x)
           IN  /\ k \in Scanned(O) /\ Weight(k) = Weight(r) + 1 /\ SeenIn(k, seen)
               /\ k.state = r.state /\ k.values = r.values /\ k.operands = Append(r.operands, x)
               /\ k.prefixes = r.prefixes /\ k.flags = r.flags /\ k.want = r.want
<1> DEFINE k == Operand(r, x)
<1>1. /\ r.state \in {"ok", "error"} /\ r.flags \subseteq Kept
      /\ r.values \subseteq Kept \X Kept /\ r.prefixes \in Seq(Kept)
      /\ r.operands \in Seq(O) /\ r.want \in Kept \union {Nothing}
      /\ IsFiniteSet(r.flags) /\ IsFiniteSet(r.values)
      /\ Cardinality(r.flags) \in Nat /\ Cardinality(r.values) \in Nat
      /\ Len(r.prefixes) \in Nat /\ Len(r.operands) \in Nat /\ Waits(r) \in Nat
    BY ScannedIs
<1>2. r \in CliRecord(O)
    BY DEF Scanned
<1>3. Append(r.operands, x) \in Seq(O) /\ Len(Append(r.operands, x)) = Len(r.operands) + 1
    BY <1>1, AppendProperties
<1>4. /\ k.state = r.state /\ k.flags = r.flags /\ k.values = r.values
      /\ k.prefixes = r.prefixes /\ k.operands = Append(r.operands, x) /\ k.want = r.want
      /\ k \in CliRecord(O)
    BY <1>1, <1>2, <1>3 DEF CliRecord, Operand
<1> HIDE DEF k
<1>5. k \in Scanned(O)
    BY <1>1, <1>4 DEF Scanned
<1>6. Weight(k) = Weight(r) + 1
    <2>1. Waits(k) = Waits(r)
        BY <1>4 DEF Waits
    <2>2. /\ Cardinality(k.flags) = Cardinality(r.flags) /\ Cardinality(k.values) = Cardinality(r.values)
          /\ Len(k.prefixes) = Len(r.prefixes) /\ Len(k.operands) = Len(r.operands) + 1
        BY <1>3, <1>4
    <2> DEFINE c == Cardinality(r.flags)
               v == Cardinality(r.values)
               p == Len(r.prefixes)
               o == Len(r.operands)
               w == Waits(r)
    <2>3. c \in Nat /\ v \in Nat /\ p \in Nat /\ o \in Nat /\ w \in Nat
        BY <1>1
    <2>4. Weight(k) = c + (v + v) + (p + p) + (o + 1) + w
        BY <2>1, <2>2 DEF Weight
    <2>5. Weight(r) = c + (v + v) + (p + p) + o + w
        BY <2>1 DEF Weight
    <2> HIDE DEF c, v, p, o, w
    <2> QED
        BY <2>3, <2>4, <2>5
<1>7. SeenIn(k, seen)
    BY <1>4 DEF SeenIn
<1> QED
    BY <1>4, <1>5, <1>6, <1>7 DEF k

\* A prefix with its mark.
LEMMA PrefixWeighs ==
    ASSUME NEW O, NEW r \in Scanned(O), NEW seen, SeenIn(r, seen), NEW x \in Kept
    PROVE  LET k == [r EXCEPT !.prefixes = Append(@, x)]
           IN  /\ k \in Scanned(O) /\ Weight(k) = Weight(r) + 2 /\ SeenIn(k, seen)
               /\ k.state = r.state /\ k.values = r.values /\ k.operands = r.operands
               /\ k.prefixes = Append(r.prefixes, x) /\ k.flags = r.flags /\ k.want = r.want
<1> DEFINE k == [r EXCEPT !.prefixes = Append(@, x)]
<1>1. /\ r.state \in {"ok", "error"} /\ r.flags \subseteq Kept
      /\ r.values \subseteq Kept \X Kept /\ r.prefixes \in Seq(Kept)
      /\ r.operands \in Seq(O) /\ r.want \in Kept \union {Nothing}
      /\ IsFiniteSet(r.flags) /\ IsFiniteSet(r.values)
      /\ Cardinality(r.flags) \in Nat /\ Cardinality(r.values) \in Nat
      /\ Len(r.prefixes) \in Nat /\ Len(r.operands) \in Nat /\ Waits(r) \in Nat
    BY ScannedIs
<1>2. r \in CliRecord(O)
    BY DEF Scanned
<1>3. Append(r.prefixes, x) \in Seq(Kept) /\ Len(Append(r.prefixes, x)) = Len(r.prefixes) + 1
    BY <1>1, AppendProperties
<1>4. /\ k.state = r.state /\ k.flags = r.flags /\ k.values = r.values
      /\ k.prefixes = Append(r.prefixes, x) /\ k.operands = r.operands /\ k.want = r.want
      /\ k \in CliRecord(O)
    BY <1>1, <1>2, <1>3 DEF CliRecord
<1> HIDE DEF k
<1>5. k \in Scanned(O)
    BY <1>1, <1>4 DEF Scanned
<1>6. Weight(k) = Weight(r) + 2
    <2>1. Waits(k) = Waits(r)
        BY <1>4 DEF Waits
    <2>2. /\ Cardinality(k.flags) = Cardinality(r.flags) /\ Cardinality(k.values) = Cardinality(r.values)
          /\ Len(k.prefixes) = Len(r.prefixes) + 1 /\ Len(k.operands) = Len(r.operands)
        BY <1>3, <1>4
    <2> DEFINE c == Cardinality(r.flags)
               v == Cardinality(r.values)
               p == Len(r.prefixes)
               o == Len(r.operands)
               w == Waits(r)
    <2>3. c \in Nat /\ v \in Nat /\ p \in Nat /\ o \in Nat /\ w \in Nat
        BY <1>1
    <2>4. Weight(k) = c + (v + v) + ((p + 1) + (p + 1)) + o + w
        BY <2>1, <2>2 DEF Weight
    <2>5. Weight(r) = c + (v + v) + (p + p) + o + w
        BY <2>1 DEF Weight
    <2> HIDE DEF c, v, p, o, w
    <2> QED
        BY <2>3, <2>4, <2>5
<1>7. SeenIn(k, seen)
    BY <1>4 DEF SeenIn
<1> QED
    BY <1>4, <1>5, <1>6, <1>7 DEF k

-----------------------------------------------------------------------------
\* The first pass: --json, --home and the prefixes.

CliItem == [word : CliWord, marked : BOOLEAN]

LEMMA FreshIs ==
    ASSUME NEW O
    PROVE  /\ Fresh \in Scanned(O) /\ Fresh.state = "ok" /\ Fresh.flags = {} /\ Fresh.values = {}
           /\ Fresh.prefixes = << >> /\ Fresh.operands = << >> /\ Fresh.want = Nothing
           /\ Weight(Fresh) = 0 /\ \A seen : SeenIn(Fresh, seen)
<1>1. /\ Fresh.state = "ok" /\ Fresh.flags = {} /\ Fresh.values = {}
      /\ Fresh.prefixes = << >> /\ Fresh.operands = << >> /\ Fresh.want = Nothing
      /\ Fresh \in CliRecord(O)
    <2>1. << >> \in Seq(O) /\ << >> \in Seq(Kept) /\ {} \in SUBSET Kept
          /\ {} \in SUBSET (Kept \X Kept)
        BY EmptySeq
    <2>2. NotYet \in [state : {"none"}, flags : SUBSET Kept, values : SUBSET (Kept \X Kept),
                      prefixes : Seq(Kept), operands : Seq(O), want : Kept \union {Nothing}]
        BY <2>1 DEF NotYet
    <2>3. Fresh \in CliRecord(O)
        BY <2>2 DEF Fresh, CliRecord
    <2> QED
        BY <2>3 DEF Fresh, NotYet
<1>2. IsFiniteSet({}) /\ Cardinality({}) = 0 /\ Len(<< >>) = 0
    BY FS_EmptySet
<1>3. Fresh \in Scanned(O)
    BY <1>1, <1>2 DEF Scanned
<1>4. Weight(Fresh) = 0
    BY <1>1, <1>2 DEF Weight, Waits
<1>5. \A seen : SeenIn(Fresh, seen)
    BY <1>1 DEF SeenIn
<1> QED
    BY <1>1, <1>3, <1>4, <1>5

\* Keep keeps the type.
LEMMA KeepTyped ==
    \A O : \A r \in CliRecord(O), o \in Kept, x \in Kept : Keep(r, o, x) \in CliRecord(O)
<1> SUFFICES ASSUME NEW O, NEW r \in CliRecord(O), NEW o \in Kept, NEW x \in Kept
             PROVE  Keep(r, o, x) \in CliRecord(O)
    OBVIOUS
<1> DEFINE kept == {v \in r.values : v[1] # o}
           p == <<o, x>>
<1>1. r.values \in SUBSET (Kept \X Kept)
    BY DEF CliRecord
<1>2. p \in Kept \X Kept /\ kept \subseteq r.values
    OBVIOUS
<1> HIDE DEF kept, p
<1>3. kept \union {p} \in SUBSET (Kept \X Kept)
    BY <1>1, <1>2
<1>4. Keep(r, o, x) = [r EXCEPT !.values = kept \union {p}, !.want = Nothing]
    BY DEF Keep, kept, p
<1> QED
    BY <1>3, <1>4 DEF CliRecord

\* So does whatever else a scan does with a word.
LEMMA MadeTyped ==
    \A O : \A r \in CliRecord(O), x \in Kept :
        /\ SetFlag(r, x) \in CliRecord(O) /\ [r EXCEPT !.want = x] \in CliRecord(O)
        /\ [r EXCEPT !.prefixes = Append(@, x)] \in CliRecord(O) /\ Error(r) \in CliRecord(O)
        /\ r.want # Nothing => r.want \in Kept
        /\ \A o \in O : Operand(r, o) \in CliRecord(O)
<1> SUFFICES ASSUME NEW O, NEW r \in CliRecord(O), NEW x \in Kept
             PROVE  /\ SetFlag(r, x) \in CliRecord(O) /\ [r EXCEPT !.want = x] \in CliRecord(O)
                    /\ [r EXCEPT !.prefixes = Append(@, x)] \in CliRecord(O) /\ Error(r) \in CliRecord(O)
                    /\ r.want # Nothing => r.want \in Kept
                    /\ \A o \in O : Operand(r, o) \in CliRecord(O)
    OBVIOUS
<1>1. SetFlag(r, x) \in CliRecord(O) /\ [r EXCEPT !.want = x] \in CliRecord(O)
    BY DEF CliRecord, SetFlag
<1>2. [r EXCEPT !.prefixes = Append(@, x)] \in CliRecord(O) /\ Error(r) \in CliRecord(O)
    <2>1. Append(r.prefixes, x) \in Seq(Kept)
        BY DEF CliRecord
    <2> QED
        BY <2>1 DEF CliRecord, Error
<1>3. r.want # Nothing => r.want \in Kept
    BY DEF CliRecord
<1>4. ASSUME NEW o \in O PROVE Operand(r, o) \in CliRecord(O)
    <2>1. Append(r.operands, o) \in Seq(O)
        BY DEF CliRecord
    <2> QED
        BY <2>1 DEF CliRecord, Operand
<1> QED
    BY <1>1, <1>2, <1>3, <1>4

LEMMA HomeTyped ==
    \A r \in CliRecord(CliItem), w \in CliWord : HomeWord(r, w) \in CliRecord(CliItem)
<1> SUFFICES ASSUME NEW r \in CliRecord(CliItem), NEW w \in CliWord
             PROVE  HomeWord(r, w) \in CliRecord(CliItem)
    OBVIOUS
<1>1. Item(w, TRUE) \in CliItem /\ Item(w, FALSE) \in CliItem /\ w \in Kept /\ "--home" \in Kept
    BY DEF Item, CliItem, Kept
<1>2. Keep(r, "--home", w) \in CliRecord(CliItem)
    BY <1>1, KeepTyped
<1>3. [r EXCEPT !.operands = Append(@, Item(w, TRUE)), !.want = Nothing] \in CliRecord(CliItem)
    <2>1. \A item \in CliItem : Append(r.operands, item) \in Seq(CliItem)
        BY DEF CliRecord
    <2>2. Append(r.operands, Item(w, TRUE)) \in Seq(CliItem)
        BY <1>1, <2>1
    <2> QED
        BY <2>2 DEF CliRecord
<1>4. /\ SetFlag(r, w) \in CliRecord(CliItem) /\ [r EXCEPT !.want = w] \in CliRecord(CliItem)
      /\ Operand(r, Item(w, FALSE)) \in CliRecord(CliItem)
    BY <1>1, MadeTyped
<1> QED
    BY <1>2, <1>3, <1>4 DEF HomeWord

HomeRun(words) ==
    CHOOSE upTo : upTo = [i \in 0 .. Len(words) |->
        IF i = 0 THEN Fresh ELSE HomeWord(upTo[i - 1], words[i])]

\* The first pass is a loop with these intermediate results.
LEMMA HomeTurns ==
    ASSUME NEW words \in Seq(CliWord)
    PROVE  LET K == HomeRun(words)
           IN  /\ K[0] = Fresh
               /\ \A i \in 1 .. Len(words) : K[i] = HomeWord(K[i - 1], words[i])
               /\ \A i \in 0 .. Len(words) : K[i] \in CliRecord(CliItem)
               /\ Loop(HomeWord, Fresh, words) = K[Len(words)]
<1> DEFINE V == CliRecord(CliItem)
           n == Len(words)
           turn == [i \in 1 .. n |-> [r \in V |-> HomeWord(r, words[i])]]
           Runs(g) == g = [i \in 0 .. n |-> IF i = 0 THEN Fresh ELSE HomeWord(g[i - 1], words[i])]
           K == HomeRun(words)
<1>1. n \in Nat /\ Fresh \in V
    BY FreshIs DEF Scanned
<1>2. \A i \in 1 .. n, r \in V : HomeWord(r, words[i]) \in V
    <2>1. \A i \in 1 .. n : words[i] \in CliWord
        BY <1>1, ElementOfSeq
    <2> QED
        BY <2>1, HomeTyped
<1>3. /\ turn \in [1 .. n -> [V -> V]]
      /\ \A i \in 1 .. n, r \in V : turn[i][r] = HomeWord(r, words[i])
    BY <1>2
<1> HIDE DEF V, turn, n
<1>4. PICK f \in [0 .. n -> V] : f[0] = Fresh /\ \A i \in 1 .. n : f[i] = turn[i][f[i - 1]]
    <2>1. LoopRuns(n, V, Fresh, turn) # {}
        BY <1>1, <1>3, LoopIsDefined
    <2> QED
        BY <2>1 DEF LoopRuns
<1>5. Runs(f)
    <2>1. \A i \in 1 .. n : i - 1 \in 0 .. n /\ i \in 0 .. n /\ i # 0
        BY <1>1
    <2>2. \A i \in 1 .. n : f[i] = HomeWord(f[i - 1], words[i])
        BY <1>3, <1>4, <2>1
    <2>3. \A i \in 0 .. n : i = 0 \/ i \in 1 .. n
        BY <1>1
    <2>4. \A i \in 0 .. n : f[i] = IF i = 0 THEN Fresh ELSE HomeWord(f[i - 1], words[i])
        BY <1>4, <2>1, <2>2, <2>3
    <2> QED
        BY <2>4
<1>6. Runs(K)
    <2>1. K = CHOOSE g : Runs(g)
        BY DEF HomeRun, n
    <2> HIDE DEF Runs, K
    <2> QED
        BY <1>5, <2>1
<1> HIDE DEF K
<1>7. K[0] = Fresh /\ \A i \in 1 .. n : K[i] = HomeWord(K[i - 1], words[i])
    <2>1. 0 \in 0 .. n /\ \A i \in 1 .. n : i \in 0 .. n /\ i # 0
        BY <1>1
    <2> QED
        BY <1>6, <2>1, Zenon
<1>8. \A i \in 0 .. n : K[i] \in V
    <2>1. K[0] \in V /\ \A i \in 1 .. n : K[i - 1] \in V => K[i] \in V
        BY <1>1, <1>2, <1>7
    <2> QED
        BY <1>1, <2>1, LoopStays
<1>9. Loop(HomeWord, Fresh, words) = K[n]
    BY DEF Loop, HomeRun, n, K
<1> QED
    BY <1>7, <1>8, <1>9 DEF V, n, K

\* What was seen stays seen.
LEMMA SeenGrows ==
    ASSUME NEW r, NEW seen, SeenIn(r, seen), NEW more, seen \subseteq more
    PROVE  SeenIn(r, more)
BY DEF SeenIn

\* An option that does not wait any longer.
LEMMA UnwantWeighs ==
    ASSUME NEW O, NEW r \in Scanned(O), NEW seen, SeenIn(r, seen), r.want # Nothing
    PROVE  LET k == [r EXCEPT !.want = Nothing]
           IN  /\ k \in Scanned(O) /\ Weight(k) + 1 = Weight(r) /\ SeenIn(k, seen)
               /\ k.state = r.state /\ k.values = r.values /\ k.operands = r.operands
               /\ k.prefixes = r.prefixes /\ k.flags = r.flags /\ k.want = Nothing
<1> DEFINE k == [r EXCEPT !.want = Nothing]
<1>1. /\ Cardinality(r.flags) \in Nat /\ Cardinality(r.values) \in Nat
      /\ Len(r.prefixes) \in Nat /\ Len(r.operands) \in Nat
      /\ IsFiniteSet(r.flags) /\ IsFiniteSet(r.values)
    BY ScannedIs
<1>2. r \in CliRecord(O)
    BY DEF Scanned
<1>3. /\ k.state = r.state /\ k.flags = r.flags /\ k.values = r.values
      /\ k.prefixes = r.prefixes /\ k.operands = r.operands /\ k.want = Nothing
      /\ k \in CliRecord(O)
    BY <1>2 DEF CliRecord
<1> HIDE DEF k
<1>4. k \in Scanned(O)
    BY <1>1, <1>3 DEF Scanned
<1>5. Weight(k) + 1 = Weight(r)
    <2>1. Waits(k) = 0 /\ Waits(r) = 1
        BY <1>3 DEF Waits
    <2>2. /\ Cardinality(k.flags) = Cardinality(r.flags) /\ Cardinality(k.values) = Cardinality(r.values)
          /\ Len(k.prefixes) = Len(r.prefixes) /\ Len(k.operands) = Len(r.operands)
        BY <1>3
    <2> DEFINE c == Cardinality(r.flags)
               v == Cardinality(r.values)
               n == Len(r.prefixes)
               o == Len(r.operands)
    <2>3. c \in Nat /\ v \in Nat /\ n \in Nat /\ o \in Nat
        BY <1>1
    <2>4. Weight(k) = c + (v + v) + (n + n) + o + 0
        BY <2>1, <2>2 DEF Weight
    <2>5. Weight(r) = c + (v + v) + (n + n) + o + 1
        BY <2>1 DEF Weight
    <2> HIDE DEF c, v, n, o
    <2> QED
        BY <2>3, <2>4, <2>5
<1>6. SeenIn(k, seen)
    BY <1>3 DEF SeenIn
<1> QED
    BY <1>3, <1>4, <1>5, <1>6 DEF k

\* The marked ones among the first j items.
MarkedUpTo(items, j) == {x \in 1 .. j : items[x].marked}
Marked(items, j) == Cardinality(MarkedUpTo(items, j))
ItemMark(item) == IF item.marked THEN 1 ELSE 0

LEMMA MarkedNext ==
    ASSUME NEW items, NEW j \in Nat
    PROVE  /\ Marked(items, 0) = 0 /\ Marked(items, j) \in Nat
           /\ Marked(items, j + 1) = Marked(items, j) + ItemMark(items[j + 1])
<1>1. \A i \in Nat : IsFiniteSet(MarkedUpTo(items, i))
    <2> SUFFICES ASSUME NEW i \in Nat PROVE IsFiniteSet(MarkedUpTo(items, i))
        OBVIOUS
    <2>1. IsFiniteSet(1 .. i)
        <3>1. 1 \in Int /\ i \in Int
            OBVIOUS
        <3> QED
            BY <3>1, FS_Interval
    <2>2. MarkedUpTo(items, i) \subseteq 1 .. i
        BY DEF MarkedUpTo
    <2> QED
        BY <2>1, <2>2, FS_Subset
<1>2. Marked(items, j) \in Nat
    BY <1>1, FS_CardinalityType DEF Marked
<1>3. Marked(items, 0) = 0
    <2>1. MarkedUpTo(items, 0) = {}
        BY DEF MarkedUpTo
    <2> QED
        BY <2>1, FS_EmptySet DEF Marked
<1>4. CASE items[j + 1].marked
    <2>1. MarkedUpTo(items, j + 1) = MarkedUpTo(items, j) \union {j + 1}
        BY <1>4 DEF MarkedUpTo
    <2>2. j + 1 \notin MarkedUpTo(items, j)
        BY DEF MarkedUpTo
    <2>3. Cardinality(MarkedUpTo(items, j) \union {j + 1}) = Cardinality(MarkedUpTo(items, j)) + 1
        BY <1>1, <2>2, FS_AddElement
    <2>4. ItemMark(items[j + 1]) = 1
        BY <1>4 DEF ItemMark
    <2> QED
        BY <1>2, <1>3, <2>1, <2>3, <2>4 DEF Marked
<1>5. CASE ~items[j + 1].marked
    <2>1. MarkedUpTo(items, j + 1) = MarkedUpTo(items, j)
        BY <1>5 DEF MarkedUpTo
    <2>2. ItemMark(items[j + 1]) = 0
        BY <1>5 DEF ItemMark
    <2> QED
        BY <1>2, <1>3, <2>1, <2>2 DEF Marked
<1> QED
    BY <1>4, <1>5

LEMMA MarkedAppend ==
    ASSUME NEW items \in Seq(CliItem), NEW x \in CliItem
    PROVE  /\ Marked(items, Len(items)) \in Nat
           /\ Marked(Append(items, x), Len(Append(items, x))) = Marked(items, Len(items)) + ItemMark(x)
<1> DEFINE n == Len(items)
           more == Append(items, x)
<1>1. n \in Nat /\ Len(more) = n + 1 /\ more[n + 1] = x /\ \A i \in 1 .. n : more[i] = items[i]
    BY AppendProperties
<1> HIDE DEF more, n
<1>2. MarkedUpTo(more, n) = MarkedUpTo(items, n)
    BY <1>1 DEF MarkedUpTo
<1>3. Marked(more, n) = Marked(items, n)
    BY <1>2 DEF Marked
<1>4. Marked(items, n) \in Nat
    BY <1>1, MarkedNext
<1>5. Marked(more, n + 1) = Marked(more, n) + ItemMark(more[n + 1])
    BY <1>1, MarkedNext
<1> QED
    BY <1>1, <1>3, <1>4, <1>5 DEF more, n

\* What the first pass has after the words in seen.
HomeGood(r, seen) ==
    /\ r \in Scanned(CliItem) /\ SeenIn(r, seen)
    /\ r.state = "ok" /\ r.prefixes = << >> /\ r.flags \subseteq {"--json"}
    /\ \A v \in r.values : v[1] = "--home"
    /\ r.want \in {Nothing, "--home", "-p", "--prefix"}
    /\ \A x \in 1 .. Len(r.operands) : ~r.operands[x].marked =>
           r.operands[x].word \in seen \ {"--json", "--home"}
    /\ \A x, y \in 1 .. Len(r.operands) :
           ~r.operands[x].marked /\ ~r.operands[y].marked
               /\ r.operands[x].word = r.operands[y].word => x = y

HomeWeight(r) == Weight(r) + Marked(r.operands, Len(r.operands))

LEMMA HomeWeighs ==
    ASSUME NEW r, NEW seen, NEW w \in CliWord, w \notin seen, LinesAssumption
    PROVE  HomeGood(r, seen) =>
               /\ HomeGood(HomeWord(r, w), seen \union {w})
               /\ HomeWeight(r) \in Nat
               /\ HomeWeight(HomeWord(r, w)) = HomeWeight(r) + 1
<1>0. SUFFICES ASSUME HomeGood(r, seen)
               PROVE  /\ HomeGood(HomeWord(r, w), seen \union {w})
                      /\ HomeWeight(r) \in Nat
                      /\ HomeWeight(HomeWord(r, w)) = HomeWeight(r) + 1
    OBVIOUS
<1> DEFINE k == HomeWord(r, w)
           more == seen \union {w}
           m == Marked(r.operands, Len(r.operands))
<1>1. /\ r \in Scanned(CliItem) /\ SeenIn(r, seen)
      /\ r.state = "ok" /\ r.prefixes = << >> /\ r.flags \subseteq {"--json"}
      /\ \A v \in r.values : v[1] = "--home"
      /\ r.want \in {Nothing, "--home", "-p", "--prefix"}
      /\ \A x \in 1 .. Len(r.operands) : ~r.operands[x].marked =>
             r.operands[x].word \in seen \ {"--json", "--home"}
      /\ \A x, y \in 1 .. Len(r.operands) :
             ~r.operands[x].marked /\ ~r.operands[y].marked
                 /\ r.operands[x].word = r.operands[y].word => x = y
    BY <1>0 DEF HomeGood
<1>2. /\ Weight(r) \in Nat /\ r.operands \in Seq(CliItem) /\ w \in Kept
    BY <1>1, ScannedIs DEF Kept
<1>3. m \in Nat
    BY <1>2, LenProperties, MarkedNext
<1>4. Nothing \notin {"--home", "-p", "--prefix"} /\ w # Nothing
    BY DEF LinesAssumption, Flags, CliWord
<1>5. HomeWeight(r) = Weight(r) + m /\ HomeWeight(r) \in Nat
    BY <1>2, <1>3 DEF HomeWeight
<1> HIDE DEF m
<1>6. SeenIn(r, more) /\ seen \subseteq more
    BY <1>1, SeenGrows
\* A word that leaves the operands as they were.
<1>7. ASSUME k.operands = r.operands, Weight(k) = Weight(r) + 1,
             k \in Scanned(CliItem), SeenIn(k, more), k.state = "ok", k.prefixes = << >>,
             k.flags \subseteq {"--json"}, \A v \in k.values : v[1] = "--home",
             k.want \in {Nothing, "--home", "-p", "--prefix"}
      PROVE  HomeGood(k, more) /\ HomeWeight(k) = HomeWeight(r) + 1
    <2> HIDE DEF k
    <2>1. HomeGood(k, more)
        BY <1>1, <1>6, <1>7 DEF HomeGood
    <2>2. HomeWeight(k) = Weight(k) + m
        BY <1>7 DEF HomeWeight, m
    <2> QED
        BY <1>2, <1>3, <1>5, <1>7, <2>1, <2>2
\* A word that becomes an operand.
<1>8. ASSUME NEW item \in CliItem, k.operands = Append(r.operands, item), item.word = w,
             ~item.marked => w \notin {"--json", "--home"},
             Weight(k) + ItemMark(item) = Weight(r) + 1, Weight(k) \in Nat,
             k \in Scanned(CliItem), SeenIn(k, more), k.state = "ok", k.prefixes = << >>,
             k.flags \subseteq {"--json"}, \A v \in k.values : v[1] = "--home", k.want = Nothing
      PROVE  HomeGood(k, more) /\ HomeWeight(k) = HomeWeight(r) + 1
    <2> DEFINE n == Len(r.operands)
               ops == Append(r.operands, item)
    <2>1. n \in Nat /\ Len(ops) = n + 1 /\ ops[n + 1] = item /\ \A i \in 1 .. n : ops[i] = r.operands[i]
        BY <1>2, AppendProperties
    <2> HIDE DEF k, ops
    <2>2. Marked(ops, Len(ops)) = m + ItemMark(item)
        BY <1>2, MarkedAppend DEF m, ops
    <2>3. ItemMark(item) \in Nat
        BY DEF ItemMark
    <2>4. HomeWeight(k) = HomeWeight(r) + 1
        <3>1. HomeWeight(k) = Weight(k) + (m + ItemMark(item))
            BY <1>8, <2>2 DEF HomeWeight, ops
        <3> DEFINE e == ItemMark(item)
                   b == Weight(k)
                   a == Weight(r)
        <3>2. /\ HomeWeight(k) = b + (m + e) /\ HomeWeight(r) = a + m /\ b + e = a + 1
              /\ b \in Nat /\ e \in Nat /\ a \in Nat /\ m \in Nat
            BY <1>2, <1>3, <1>5, <1>8, <2>3, <3>1
        <3> HIDE DEF e, b, a
        <3> QED
            BY <3>2
    <2>5. ASSUME NEW x \in 1 .. n + 1 PROVE x = n + 1 \/ x \in 1 .. n
        BY <2>1
    <2>6. \A x \in 1 .. n + 1 : ~ops[x].marked => ops[x].word \in more \ {"--json", "--home"}
        BY <1>1, <1>8, <2>1, <2>5
    <2>7. ASSUME NEW x \in 1 .. n + 1, NEW y \in 1 .. n + 1, ~ops[x].marked, ~ops[y].marked,
                 ops[x].word = ops[y].word
          PROVE  x = y
        <3>1. CASE x \in 1 .. n /\ y \in 1 .. n
            BY <1>1, <2>1, <2>7, <3>1
        <3>2. CASE x = n + 1 /\ y \in 1 .. n
            BY <1>1, <1>8, <2>1, <2>7, <3>2
        <3>3. CASE y = n + 1 /\ x \in 1 .. n
            BY <1>1, <1>8, <2>1, <2>7, <3>3
        <3> QED
            BY <2>5, <3>1, <3>2, <3>3
    <2>8. k.operands = ops /\ Len(ops) = n + 1
        BY <1>8, <2>1 DEF ops
    <2>9. HomeGood(k, more)
        <3> HIDE DEF n
        <3> QED
            BY <1>8, <2>6, <2>7, <2>8 DEF HomeGood
    <2> QED
        BY <2>4, <2>9
<1>9. CASE r.want = "--home"
    <2>1. k = Keep(r, r.want, w)
        BY <1>4, <1>9 DEF HomeWord
    <2> HIDE DEF k
    <2>0. r.want # Nothing
        BY <1>4, <1>9
    <2>2. /\ k \in Scanned(CliItem) /\ Weight(k) = Weight(r) + 1 /\ SeenIn(k, seen)
          /\ k.state = r.state /\ k.values = r.values \union {<<r.want, w>>}
          /\ k.operands = r.operands /\ k.prefixes = r.prefixes /\ k.flags = r.flags
          /\ k.want = Nothing
        BY <1>1, <1>2, <2>0, <2>1, KeepWeighs
    <2>3. SeenIn(k, more)
        BY <2>2, <1>6, SeenGrows
    <2>4. \A v \in k.values : v[1] = "--home"
        BY <1>1, <1>9, <2>2
    <2> QED
        BY <1>1, <1>7, <2>2, <2>3, <2>4, <1>5 DEF k
<1>10. CASE r.want \in {"-p", "--prefix"}
    <2> DEFINE u == [r EXCEPT !.want = Nothing]
               item == Item(w, TRUE)
    <2>1. /\ u \in Scanned(CliItem) /\ Weight(u) + 1 = Weight(r) /\ SeenIn(u, seen)
          /\ u.state = r.state /\ u.values = r.values /\ u.operands = r.operands
          /\ u.prefixes = r.prefixes /\ u.flags = r.flags /\ u.want = Nothing
        BY <1>1, <1>4, <1>10, UnwantWeighs
    <2>2. item \in CliItem /\ item.word = w /\ item.marked /\ ItemMark(item) = 1
        BY DEF Item, CliItem, ItemMark
    <2>3. k = Operand(u, item)
        <3>1. r \in CliRecord(CliItem)
            BY <1>1 DEF Scanned
        <3>2. k = [r EXCEPT !.operands = Append(@, item), !.want = Nothing]
            BY <1>4, <1>10 DEF HomeWord
        <3> HIDE DEF item
        <3> QED
            BY <3>1, <3>2 DEF Operand, CliRecord
    <2> HIDE DEF k, u, item
    <2>4. /\ k \in Scanned(CliItem) /\ Weight(k) = Weight(u) + 1 /\ SeenIn(k, seen)
          /\ k.state = u.state /\ k.values = u.values /\ k.operands = Append(u.operands, item)
          /\ k.prefixes = u.prefixes /\ k.flags = u.flags /\ k.want = u.want
        BY <2>1, <2>2, <2>3, OperandWeighs
    <2>5. Weight(u) \in Nat /\ Weight(k) \in Nat
        BY <2>1, <2>4, ScannedIs
    <2>6. Weight(k) + ItemMark(item) = Weight(r) + 1
        BY <1>2, <2>1, <2>2, <2>4, <2>5
    <2>7. SeenIn(k, more)
        BY <2>4, <1>6, SeenGrows
    <2> QED
        BY <1>1, <1>5, <1>8, <2>1, <2>2, <2>4, <2>5, <2>6, <2>7 DEF k
<1>11. CASE r.want = Nothing /\ w = "--json"
    <2>1. k = SetFlag(r, w)
        BY <1>4, <1>11 DEF HomeWord
    <2> HIDE DEF k
    <2>0. /\ r \in Scanned(CliItem) /\ SeenIn(r, seen) /\ r.want = Nothing /\ w \in Kept
          /\ seen \subseteq more /\ w \in more
        BY <1>1, <1>2, <1>11
    <2> HIDE DEF more
    <2>2. /\ k \in Scanned(CliItem) /\ Weight(k) = Weight(r) + 1 /\ SeenIn(k, more)
          /\ k.state = r.state /\ k.values = r.values /\ k.operands = r.operands
          /\ k.prefixes = r.prefixes /\ k.flags = r.flags \union {w} /\ k.want = Nothing
        BY <2>0, <2>1, FlagWeighs
    <2> QED
        BY <1>1, <1>5, <1>7, <1>11, <2>2 DEF k, more
<1>12. CASE r.want = Nothing /\ w \in {"--home", "-p", "--prefix"}
    <2>1. k = [r EXCEPT !.want = w]
        BY <1>4, <1>12 DEF HomeWord
    <2>0. seen \subseteq more /\ w \in more
        OBVIOUS
    <2> HIDE DEF k, more
    <2>2. /\ k \in Scanned(CliItem) /\ Weight(k) = Weight(r) + 1 /\ SeenIn(k, more)
          /\ k.state = r.state /\ k.values = r.values /\ k.operands = r.operands
          /\ k.prefixes = r.prefixes /\ k.flags = r.flags /\ k.want = w
        BY <1>1, <1>2, <1>4, <1>12, <2>0, <2>1, WantWeighs
    <2> QED
        BY <1>1, <1>5, <1>7, <1>12, <2>2 DEF k, more
<1>13. CASE r.want = Nothing /\ w \notin {"--json", "--home", "-p", "--prefix"}
    <2> DEFINE item == Item(w, FALSE)
    <2>1. k = Operand(r, item)
        BY <1>4, <1>13 DEF HomeWord
    <2>2. item \in CliItem /\ item.word = w /\ ~item.marked /\ ItemMark(item) = 0
        BY DEF Item, CliItem, ItemMark
    <2> HIDE DEF k, item
    <2>3. /\ k \in Scanned(CliItem) /\ Weight(k) = Weight(r) + 1 /\ SeenIn(k, seen)
          /\ k.state = r.state /\ k.values = r.values /\ k.operands = Append(r.operands, item)
          /\ k.prefixes = r.prefixes /\ k.flags = r.flags /\ k.want = r.want
        BY <1>1, <2>1, <2>2, OperandWeighs
    <2>4. Weight(k) \in Nat /\ Weight(k) + ItemMark(item) = Weight(r) + 1
        BY <1>2, <2>2, <2>3
    <2>5. SeenIn(k, more)
        BY <2>3, <1>6, SeenGrows
    <2> QED
        BY <1>1, <1>5, <1>8, <1>13, <2>2, <2>3, <2>4, <2>5 DEF k
<1> QED
    BY <1>1, <1>5, <1>9, <1>10, <1>11, <1>12, <1>13

\* The first i words.
SeenTo(words, i) == {words[x] : x \in 1 .. i}

LEMMA SeenNext ==
    ASSUME NEW words, NEW i \in Nat
    PROVE  SeenTo(words, 0) = {} /\ SeenTo(words, i + 1) = SeenTo(words, i) \union {words[i + 1]}
<1>1. \A x : x \in 1 .. i + 1 <=> x \in 1 .. i \/ x = i + 1
    OBVIOUS
<1>2. SeenTo(words, 0) = {}
    BY DEF SeenTo
<1> QED
    BY <1>1, <1>2 DEF SeenTo

\* The first pass has made something of every word.
LEMMA HomeCounts ==
    ASSUME NEW words \in Seq(CliWord), IsInjective(words), LinesAssumption
    PROVE  LET s == HomeRun(words)[Len(words)]
           IN  HomeGood(s, SeenTo(words, Len(words))) /\ HomeWeight(s) = Len(words)
<1> DEFINE K == HomeRun(words)
           n == Len(words)
           Good == {i \in 0 .. n : HomeGood(K[i], SeenTo(words, i)) /\ HomeWeight(K[i]) = i}
<1>1. n \in Nat /\ \A i \in 1 .. n : words[i] \in CliWord
    BY ElementOfSeq
<1>2. K[0] = Fresh /\ \A i \in 1 .. n : K[i] = HomeWord(K[i - 1], words[i])
    BY HomeTurns
<1>3. \A x, y \in 1 .. n : words[x] = words[y] => x = y
    BY <1>1 DEF IsInjective
<1> HIDE DEF K, n
<1>4. 0 \in Good
    <2>1. /\ Fresh \in Scanned(CliItem) /\ Fresh.state = "ok" /\ Fresh.flags = {} /\ Fresh.values = {}
          /\ Fresh.prefixes = << >> /\ Fresh.operands = << >> /\ Fresh.want = Nothing
          /\ Weight(Fresh) = 0 /\ SeenIn(Fresh, SeenTo(words, 0))
        BY FreshIs
    <2>2. Len(Fresh.operands) = 0 /\ Marked(Fresh.operands, 0) = 0
        <3>1. Len(<< >>) = 0
            OBVIOUS
        <3> QED
            BY <2>1, <3>1, MarkedNext
    <2>3. HomeGood(Fresh, SeenTo(words, 0))
        BY <2>1, <2>2 DEF HomeGood
    <2>4. HomeWeight(Fresh) = 0
        BY <2>1, <2>2 DEF HomeWeight
    <2> QED
        BY <1>1, <1>2, <2>3, <2>4
<1>5. ASSUME NEW i \in 0 .. n - 1, i \in Good PROVE i + 1 \in Good
    <2>1. i + 1 \in 1 .. n /\ i \in Nat /\ (i + 1) - 1 = i /\ i + 1 \in 0 .. n
        BY <1>1
    <2>2. K[i + 1] = HomeWord(K[i], words[i + 1]) /\ words[i + 1] \in CliWord
        BY <1>1, <1>2, <2>1
    <2>3. words[i + 1] \notin SeenTo(words, i)
        <3>1. \A x \in 1 .. i : x \in 1 .. n /\ x # i + 1
            BY <1>1, <2>1
        <3> QED
            BY <1>3, <2>1, <3>1 DEF SeenTo
    <2>4. SeenTo(words, i + 1) = SeenTo(words, i) \union {words[i + 1]}
        BY <2>1, SeenNext
    <2>5. HomeGood(K[i], SeenTo(words, i)) /\ HomeWeight(K[i]) = i
        BY <1>5
    <2>6. HomeGood(K[i + 1], SeenTo(words, i + 1)) /\ HomeWeight(K[i + 1]) = i + 1
        <3> DEFINE r == K[i]
                   w == words[i + 1]
                   seen == SeenTo(words, i)
        <3>1. w \in CliWord /\ w \notin seen /\ HomeGood(r, seen)
            BY <2>2, <2>3, <2>5
        <3> HIDE DEF r, w, seen
        <3>2. HomeGood(HomeWord(r, w), seen \union {w}) /\ HomeWeight(HomeWord(r, w)) = HomeWeight(r) + 1
            BY <3>1, HomeWeighs
        <3> QED
            BY <2>2, <2>4, <2>5, <3>2 DEF r, w, seen
    <2> QED
        BY <2>1, <2>6
<1> HIDE DEF Good
<1>6. \A i \in 0 .. n - 1 : i \in Good => i + 1 \in Good
    BY <1>5
<1>7. \A i \in 0 .. n : i \in Good
    BY <1>1, <1>4, <1>6, NumberInduction
<1>8. n \in Good
    BY <1>1, <1>7
<1> QED
    BY <1>8 DEF Good, K, n

-----------------------------------------------------------------------------
\* The second pass over the items of the first.

\* An operand or a value is the text of a mark.
TookMark(r) == MarkedText \in Range(r.operands) \union {v[2] : v \in r.values}

LEMMA ErrorIs ==
    ASSUME NEW O, NEW r \in Scanned(O), NEW seen, SeenIn(r, seen)
    PROVE  Error(r) \in Scanned(O) /\ SeenIn(Error(r), seen) /\ Error(r).state = "error"
<1>1. r \in CliRecord(O) /\ IsFiniteSet(r.flags) /\ IsFiniteSet(r.values)
    BY DEF Scanned
<1>2. /\ Error(r).state = "error" /\ Error(r).flags = r.flags /\ Error(r).values = r.values
      /\ Error(r).want = r.want /\ Error(r) \in CliRecord(O)
    BY <1>1 DEF CliRecord, Error
<1> QED
    BY <1>1, <1>2 DEF Scanned, SeenIn

\* What the second pass makes of an item weighs as much as the item, if the
\* subcommand rejects nothing and takes no mark for a word.
ItemFine(r, item, k) ==
    \/ k.state = "error"
    \/ TookMark(k)
    \/ r.state # "error" /\ ~TookMark(r) /\ Weight(k) = Weight(r) + 1 + ItemMark(item)

LEMMA ItemWeighs ==
    ASSUME NEW flags, NEW options, flags \cap options = {}, NEW marks, NEW room, NEW dashed,
           NEW r, NEW seen, NEW more, seen \subseteq more, NEW item \in CliItem,
           ~item.marked => item.word \notin seen /\ item.word \in more, LinesAssumption
    PROVE  r \in Scanned(Kept) /\ SeenIn(r, seen) =>
               LET k == ItemWord(r, item, flags, options, marks, room, dashed)
               IN  k \in Scanned(Kept) /\ SeenIn(k, more) /\ ItemFine(r, item, k)
<1> DEFINE k == ItemWord(r, item, flags, options, marks, room, dashed)
           Fine == ItemFine(r, item, k)
<1>0. SUFFICES ASSUME r \in Scanned(Kept), SeenIn(r, seen)
               PROVE  k \in Scanned(Kept) /\ SeenIn(k, more) /\ Fine
    BY Zenon
<1>1. /\ item.word \in CliWord /\ item.word \in Kept /\ Text(item) \in Kept /\ item.marked \in BOOLEAN
      /\ item.marked => Text(item) = MarkedText
    BY DEF CliItem, Kept, Text
<1>2. Weight(r) \in Nat /\ r.operands \in Seq(Kept)
    BY <1>0, ScannedIs
<1>3. item.word # Nothing
    BY <1>1 DEF LinesAssumption, CliWord
<1>4. /\ item.marked => ItemMark(item) = 1
      /\ ~item.marked => ItemMark(item) = 0
    BY DEF ItemMark
\* The word of an unmarked item weighs one.
<1>5. ASSUME ~item.marked, k.state = r.state, TookMark(r) => TookMark(k),
             Weight(k) = Weight(r) + 1, k \in Scanned(Kept), SeenIn(k, more)
      PROVE  k \in Scanned(Kept) /\ SeenIn(k, more) /\ Fine
    <2>1. ItemMark(item) = 0
        BY <1>4, <1>5
    <2>2. Weight(r) + 1 + 0 = Weight(r) + 1
        BY <1>2
    <2>3. Weight(k) = Weight(r) + 1 + ItemMark(item)
        BY <1>5, <2>1, <2>2
    <2> HIDE DEF k
    <2> QED
        BY <1>5, <2>3 DEF ItemFine
<1>6. CASE r.want # Nothing
    <2>1. k = Keep(r, r.want, Text(item))
        BY <1>6 DEF ItemWord
    <2> HIDE DEF k
    <2>2. /\ k \in Scanned(Kept) /\ Weight(k) = Weight(r) + 1 /\ SeenIn(k, seen)
          /\ k.state = r.state /\ k.values = r.values \union {<<r.want, Text(item)>>}
          /\ k.operands = r.operands
        BY <1>0, <1>1, <1>6, <2>1, KeepWeighs
    <2>3. SeenIn(k, more)
        BY <2>2, SeenGrows
    <2>4. <<r.want, Text(item)>> \in k.values
        BY <2>2
    <2>5. CASE item.marked
        <3>1. Text(item) = MarkedText
            BY <1>1, <2>5
        <3>2. MarkedText \in {v[2] : v \in k.values}
            BY <2>4, <3>1
        <3>3. TookMark(k)
            BY <3>2 DEF TookMark
        <3> QED
            BY <2>2, <2>3, <3>3 DEF ItemFine
    <2>6. CASE ~item.marked
        <3>1. TookMark(r) => TookMark(k)
            BY <2>2 DEF TookMark
        <3> QED
            BY <1>5, <2>2, <2>3, <2>6, <3>1 DEF k
    <2> QED
        BY <2>5, <2>6
<1>7. CASE r.want = Nothing /\ item.marked /\ marks
    <2>0. r.want = Nothing
        BY <1>7
    <2>1. k = [r EXCEPT !.prefixes = Append(@, item.word)]
        BY <1>7 DEF ItemWord
    <2> HIDE DEF k
    <2>2. /\ k \in Scanned(Kept) /\ Weight(k) = Weight(r) + 2 /\ SeenIn(k, seen)
          /\ k.state = r.state /\ k.values = r.values /\ k.operands = r.operands
        <3> DEFINE w == item.word
        <3>1. w \in Kept /\ k = [r EXCEPT !.prefixes = Append(@, w)]
            BY <1>1, <2>1
        <3> HIDE DEF w
        <3> QED
            BY <1>0, <3>1, PrefixWeighs
    <2>3. SeenIn(k, more)
        BY <2>2, SeenGrows
    <2>4. TookMark(k) <=> TookMark(r)
        BY <2>2 DEF TookMark
    <2>5. Weight(k) = Weight(r) + 1 + ItemMark(item)
        <3>1. ItemMark(item) = 1
            BY <1>4, <1>7
        <3>2. Weight(r) + 1 + 1 = Weight(r) + 2
            BY <1>2
        <3> QED
            BY <2>2, <3>1, <3>2
    <2> QED
        BY <2>2, <2>3, <2>4, <2>5 DEF ItemFine
<1>8. CASE r.want = Nothing /\ ~(item.marked /\ marks) /\ ~item.marked /\ item.word \in flags
    <2>0. r.want = Nothing /\ item.word \notin seen /\ item.word \in more
        BY <1>8
    <2>1. k = SetFlag(r, item.word)
        BY <1>1, <1>8 DEF ItemWord
    <2> HIDE DEF k
    <2>2. /\ k \in Scanned(Kept) /\ Weight(k) = Weight(r) + 1
          /\ SeenIn(k, more)
          /\ k.state = r.state /\ k.values = r.values /\ k.operands = r.operands
        <3> DEFINE w == item.word
        <3>1. w \in Kept /\ w \notin seen /\ w \in more /\ r.want = Nothing /\ w # Nothing /\ k = SetFlag(r, w)
            BY <1>1, <1>3, <2>0, <2>1
        <3> HIDE DEF w
        <3>2. /\ k \in Scanned(Kept) /\ Weight(k) = Weight(r) + 1
              /\ SeenIn(k, more)
              /\ k.state = r.state /\ k.values = r.values /\ k.operands = r.operands
            BY <1>0, <3>1, FlagWeighs
        <3> QED
            BY <3>2 DEF w
    <2>4. TookMark(r) => TookMark(k)
        BY <2>2 DEF TookMark
    <2> QED
        BY <1>5, <1>8, <2>2, <2>4 DEF k
<1>9. CASE r.want = Nothing /\ ~item.marked /\ item.word \notin flags /\ item.word \in options
    <2>0. r.want = Nothing /\ item.word \notin seen /\ item.word \in more
        BY <1>9
    <2>1. k = [r EXCEPT !.want = item.word]
        BY <1>9 DEF ItemWord
    <2> HIDE DEF k
    <2>2. /\ k \in Scanned(Kept) /\ Weight(k) = Weight(r) + 1
          /\ SeenIn(k, more)
          /\ k.state = r.state /\ k.values = r.values /\ k.operands = r.operands
        <3> DEFINE w == item.word
        <3>1. w \in Kept /\ w \notin seen /\ w \in more /\ r.want = Nothing /\ w # Nothing /\ k = [r EXCEPT !.want = w]
            BY <1>1, <1>3, <2>0, <2>1
        <3> HIDE DEF w
        <3>2. /\ k \in Scanned(Kept) /\ Weight(k) = Weight(r) + 1
              /\ SeenIn(k, more)
              /\ k.state = r.state /\ k.values = r.values /\ k.operands = r.operands
            BY <1>0, <3>1, WantWeighs
        <3> QED
            BY <3>2 DEF w
    <2>4. TookMark(r) => TookMark(k)
        BY <2>2 DEF TookMark
    <2> QED
        BY <1>5, <1>9, <2>2, <2>4 DEF k
<1>10. CASE /\ r.want = Nothing /\ ~(item.marked /\ marks)
            /\ ~(~item.marked /\ item.word \in flags) /\ ~(~item.marked /\ item.word \in options)
    <2>1. k = TakeItem(r, item, room, dashed)
        BY <1>10 DEF ItemWord
    <2>2. k = Operand(r, Text(item)) \/ k = Error(r)
        BY <2>1 DEF TakeItem
    <2> HIDE DEF k
    <2>3. CASE k = Error(r)
        <3>1. k \in Scanned(Kept) /\ SeenIn(k, seen) /\ k.state = "error"
            BY <1>0, <2>3, ErrorIs
        <3>2. SeenIn(k, more)
            BY <3>1, SeenGrows
        <3> QED
            BY <3>1, <3>2 DEF ItemFine
    <2>4. CASE k = Operand(r, Text(item))
        <3>1. /\ k \in Scanned(Kept) /\ Weight(k) = Weight(r) + 1 /\ SeenIn(k, seen)
              /\ k.state = r.state /\ k.values = r.values /\ k.operands = Append(r.operands, Text(item))
            BY <1>0, <1>1, <2>4, OperandWeighs
        <3>2. SeenIn(k, more)
            BY <3>1, SeenGrows
        <3> DEFINE n == Len(r.operands)
        <3>3. /\ n \in Nat /\ DOMAIN r.operands = 1 .. n /\ DOMAIN k.operands = 1 .. n + 1
              /\ k.operands[n + 1] = Text(item) /\ \A i \in 1 .. n : k.operands[i] = r.operands[i]
            <4>1. /\ n \in Nat /\ DOMAIN r.operands = 1 .. n
                BY <1>2, LenProperties
            <4>2. /\ Append(r.operands, Text(item)) \in Seq(Kept)
                  /\ Len(Append(r.operands, Text(item))) = n + 1
                  /\ Append(r.operands, Text(item))[n + 1] = Text(item)
                  /\ \A i \in 1 .. n : Append(r.operands, Text(item))[i] = r.operands[i]
                BY <1>1, <1>2, AppendProperties
            <4>3. DOMAIN Append(r.operands, Text(item)) = 1 .. n + 1
                BY <4>2, LenProperties
            <4> QED
                BY <3>1, <4>1, <4>2, <4>3
        <3> HIDE DEF n
        <3>4. Text(item) \in Range(k.operands)
            <4>1. n + 1 \in DOMAIN k.operands
                BY <3>3
            <4> QED
                BY <3>3, <4>1 DEF Range
        <3>5. Range(r.operands) \subseteq Range(k.operands)
            <4>1. \A i \in DOMAIN r.operands : i \in DOMAIN k.operands /\ k.operands[i] = r.operands[i]
                BY <3>3
            <4> QED
                BY <4>1 DEF Range
        <3>6. CASE item.marked
            <4>1. TookMark(k)
                BY <1>1, <3>4, <3>6 DEF TookMark
            <4> QED
                BY <3>1, <3>2, <4>1 DEF ItemFine
        <3>7. CASE ~item.marked
            <4>1. TookMark(r) => TookMark(k)
                BY <3>1, <3>5 DEF TookMark
            <4> QED
                BY <1>5, <3>1, <3>2, <3>7, <4>1 DEF k
        <3> QED
            BY <3>6, <3>7
    <2> QED
        BY <2>2, <2>3, <2>4
<1> QED
    BY <1>6, <1>7, <1>8, <1>9, <1>10

LEMMA ItemTyped ==
    ASSUME NEW flags, NEW options, flags \cap options = {}, NEW marks, NEW room, NEW dashed
    PROVE  \A r \in CliRecord(Kept), item \in CliItem :
               ItemWord(r, item, flags, options, marks, room, dashed) \in CliRecord(Kept)
<1> SUFFICES ASSUME NEW r \in CliRecord(Kept), NEW item \in CliItem
             PROVE  ItemWord(r, item, flags, options, marks, room, dashed) \in CliRecord(Kept)
    OBVIOUS
<1>1. item.word \in Kept /\ Text(item) \in Kept /\ item.marked \in BOOLEAN
    BY DEF CliItem, Kept, Text
<1>2. r.want # Nothing => Keep(r, r.want, Text(item)) \in CliRecord(Kept)
    BY <1>1, KeepTyped, MadeTyped
<1>3. /\ [r EXCEPT !.prefixes = Append(@, item.word)] \in CliRecord(Kept)
      /\ SetFlag(r, item.word) \in CliRecord(Kept) /\ [r EXCEPT !.want = item.word] \in CliRecord(Kept)
    BY <1>1, MadeTyped
<1>4. TakeItem(r, item, room, dashed) \in CliRecord(Kept)
    <2>1. Operand(r, Text(item)) \in CliRecord(Kept) /\ Error(r) \in CliRecord(Kept)
        BY <1>1, MadeTyped
    <2> QED
        BY <2>1 DEF TakeItem
<1> QED
    BY <1>1, <1>2, <1>3, <1>4 DEF ItemWord

ItemRun(start, words, flags, options, marks, room, dashed) ==
    CHOOSE upTo : upTo = [i \in 0 .. Len(words) |->
        IF i = 0 THEN start ELSE ItemWord(upTo[i - 1], words[i], flags, options, marks, room, dashed)]

\* The second pass is a loop with these intermediate results.
LEMMA ItemTurns ==
    ASSUME NEW words \in Seq(CliItem), NEW start \in CliRecord(Kept), NEW flags, NEW options,
           flags \cap options = {}, NEW marks, NEW room, NEW dashed
    PROVE  LET K == ItemRun(start, words, flags, options, marks, room, dashed)
           IN  /\ K[0] = start
               /\ \A i \in 1 .. Len(words) : K[i] = ItemWord(K[i - 1], words[i], flags, options, marks, room, dashed)
               /\ \A i \in 0 .. Len(words) : K[i] \in CliRecord(Kept)
<1> DEFINE V == CliRecord(Kept)
           n == Len(words)
           turn == [i \in 1 .. n |-> [r \in V |-> ItemWord(r, words[i], flags, options, marks, room, dashed)]]
           Runs(g) == g = [i \in 0 .. n |-> IF i = 0 THEN start ELSE ItemWord(g[i - 1], words[i], flags, options, marks, room, dashed)]
           K == ItemRun(start, words, flags, options, marks, room, dashed)
<1>1. n \in Nat /\ start \in V
    BY LenProperties DEF Scanned
<1>2. \A i \in 1 .. n, r \in V : ItemWord(r, words[i], flags, options, marks, room, dashed) \in V
    <2>1. \A i \in 1 .. n : words[i] \in CliItem
        BY <1>1, ElementOfSeq
    <2> QED
        BY <2>1, ItemTyped
<1>3. /\ turn \in [1 .. n -> [V -> V]]
      /\ \A i \in 1 .. n, r \in V : turn[i][r] = ItemWord(r, words[i], flags, options, marks, room, dashed)
    BY <1>2
<1> HIDE DEF V, turn, n
<1>4. PICK f \in [0 .. n -> V] : f[0] = start /\ \A i \in 1 .. n : f[i] = turn[i][f[i - 1]]
    <2>1. LoopRuns(n, V, start, turn) # {}
        BY <1>1, <1>3, LoopIsDefined
    <2> QED
        BY <2>1 DEF LoopRuns
<1>5. Runs(f)
    <2>1. \A i \in 1 .. n : i - 1 \in 0 .. n /\ i \in 0 .. n /\ i # 0
        BY <1>1
    <2>2. \A i \in 1 .. n : f[i] = ItemWord(f[i - 1], words[i], flags, options, marks, room, dashed)
        BY <1>3, <1>4, <2>1
    <2>3. \A i \in 0 .. n : i = 0 \/ i \in 1 .. n
        BY <1>1
    <2>4. \A i \in 0 .. n : f[i] = IF i = 0 THEN start ELSE ItemWord(f[i - 1], words[i], flags, options, marks, room, dashed)
        BY <1>4, <2>1, <2>2, <2>3
    <2> QED
        BY <2>4
<1>6. Runs(K)
    <2>1. K = CHOOSE g : Runs(g)
        BY DEF ItemRun, n
    <2> HIDE DEF Runs, K
    <2> QED
        BY <1>5, <2>1
<1> HIDE DEF K
<1>7. K[0] = start /\ \A i \in 1 .. n : K[i] = ItemWord(K[i - 1], words[i], flags, options, marks, room, dashed)
    <2>1. 0 \in 0 .. n /\ \A i \in 1 .. n : i \in 0 .. n /\ i # 0
        BY <1>1
    <2> QED
        BY <1>6, <2>1, Zenon
<1>8. \A i \in 0 .. n : K[i] \in V
    <2>1. K[0] \in V /\ \A i \in 1 .. n : K[i - 1] \in V => K[i] \in V
        BY <1>1, <1>2, <1>7
    <2> QED
        BY <1>1, <2>1, LoopStays
<1> QED
    BY <1>7, <1>8 DEF V, n, K

LEMMA SecondPassEnds ==
    ASSUME NEW s, s.state # "error", NEW flags, NEW options, NEW marks, NEW room, NEW dashed
    PROVE  SecondPass(s, flags, options, marks, room, dashed) =
               Done(ItemRun(Emptied(s), s.operands, flags, options, marks, room, dashed)[Len(s.operands)])
BY DEF SecondPass, Loop, ItemRun

-----------------------------------------------------------------------------
\* What a subcommand makes of its words.

CliTyped(p) ==
    /\ p.state \in {"ok", "error"} /\ p.want = Nothing
    /\ p.state # "ok" => p.operands = << >> /\ p.values = {}

Counted(p, words) ==
    p.state = "ok" /\ IsInjective(words) /\ ~TookMark(p) =>
        Len(words) = Cardinality(p.flags) + 2 * Cardinality(p.values)
            + 2 * Len(p.prefixes) + Len(p.operands)

LEMMA RejectedIs ==
    Rejected.state = "error" /\ CliTyped(Rejected) /\ \A words : Counted(Rejected, words)
BY DEF Rejected, NotYet, CliTyped, Counted

LEMMA DoneIs ==
    ASSUME NEW O, NEW r \in CliRecord(O)
    PROVE  /\ Done(r) = Rejected \/ (Done(r) = r /\ r.state = "ok" /\ r.want = Nothing)
           /\ CliTyped(Done(r))
<1>1. r.state \in {"ok", "error"}
    BY DEF CliRecord
<1>2. Done(r) = Rejected \/ (Done(r) = r /\ r.state = "ok" /\ r.want = Nothing)
    BY <1>1 DEF Done
<1> QED
    BY <1>2, RejectedIs DEF CliTyped

\* A weight is what the invariant counts.
LEMMA WeightCounts ==
    ASSUME NEW O, NEW r \in Scanned(O), r.want = Nothing
    PROVE  Weight(r) = Cardinality(r.flags) + 2 * Cardinality(r.values)
               + 2 * Len(r.prefixes) + Len(r.operands)
<1> DEFINE c == Cardinality(r.flags)
           v == Cardinality(r.values)
           p == Len(r.prefixes)
           o == Len(r.operands)
<1>1. c \in Nat /\ v \in Nat /\ p \in Nat /\ o \in Nat
    BY ScannedIs
<1>2. Weight(r) = c + (v + v) + (p + p) + o + 0
    BY DEF Weight, Waits
<1> HIDE DEF c, v, p, o
<1>3. Weight(r) = c + 2 * v + 2 * p + o
    BY <1>1, <1>2
<1> QED
    BY <1>3 DEF c, v, p, o

\* The second pass starts without the items.
LEMMA EmptiedIs ==
    ASSUME NEW s \in Scanned(CliItem), NEW seen, SeenIn(s, seen)
    PROVE  /\ Emptied(s) \in Scanned(Kept) /\ SeenIn(Emptied(s), seen)
           /\ Emptied(s).state = s.state /\ Emptied(s).want = s.want
           /\ Weight(Emptied(s)) + Len(s.operands) = Weight(s)
<1> DEFINE e == Emptied(s)
<1>1. /\ s.state \in {"ok", "error"} /\ s.flags \subseteq Kept
      /\ s.values \subseteq Kept \X Kept /\ s.prefixes \in Seq(Kept)
      /\ s.operands \in Seq(CliItem) /\ s.want \in Kept \union {Nothing}
      /\ IsFiniteSet(s.flags) /\ IsFiniteSet(s.values)
      /\ Cardinality(s.flags) \in Nat /\ Cardinality(s.values) \in Nat
      /\ Len(s.prefixes) \in Nat /\ Len(s.operands) \in Nat /\ Waits(s) \in Nat
    BY ScannedIs
<1>2. s \in CliRecord(CliItem) /\ << >> \in Seq(Kept)
    BY EmptySeq DEF Scanned
<1>3. /\ e.state = s.state /\ e.flags = s.flags /\ e.values = s.values
      /\ e.prefixes = s.prefixes /\ e.operands = << >> /\ e.want = s.want
      /\ e \in CliRecord(Kept)
    BY <1>2 DEF CliRecord, Emptied
<1> HIDE DEF e
<1>4. e \in Scanned(Kept)
    BY <1>1, <1>3 DEF Scanned
<1>5. SeenIn(e, seen)
    BY <1>3 DEF SeenIn
<1>6. Weight(e) + Len(s.operands) = Weight(s)
    <2>1. Waits(e) = Waits(s) /\ Len(e.operands) = 0
        <3>1. Len(<< >>) = 0
            OBVIOUS
        <3> QED
            BY <1>3, <3>1 DEF Waits
    <2> DEFINE c == Cardinality(s.flags)
               v == Cardinality(s.values)
               p == Len(s.prefixes)
               o == Len(s.operands)
               w == Waits(s)
    <2>2. c \in Nat /\ v \in Nat /\ p \in Nat /\ o \in Nat /\ w \in Nat
        BY <1>1
    <2>3. Weight(e) = c + (v + v) + (p + p) + 0 + w
        BY <1>3, <2>1 DEF Weight
    <2>4. Weight(s) = c + (v + v) + (p + p) + o + w
        BY DEF Weight
    <2> HIDE DEF c, v, p, o, w
    <2>5. Weight(e) + o = Weight(s)
        BY <2>2, <2>3, <2>4
    <2> QED
        BY <2>5 DEF o
<1> QED
    BY <1>3, <1>4, <1>5, <1>6 DEF e

\* What an item adds to the words seen.
SeenItems(items, j) == {"--json", "--home"} \union {items[x].word : x \in {y \in 1 .. j : ~items[y].marked}}

\* The second pass has made something of every item, if the subcommand rejected
\* none and took no mark for a word.
LEMMA ItemsCount ==
    ASSUME NEW items \in Seq(CliItem), NEW flags, NEW options, flags \cap options = {},
           NEW marks, NEW room, NEW dashed, LinesAssumption,
           NEW start \in Scanned(Kept), SeenIn(start, {"--json", "--home"}),
           \A x \in 1 .. Len(items) : ~items[x].marked => items[x].word \notin {"--json", "--home"},
           \A x, y \in 1 .. Len(items) :
               ~items[x].marked /\ ~items[y].marked /\ items[x].word = items[y].word => x = y
    PROVE  LET r == ItemRun(start, items, flags, options, marks, room, dashed)[Len(items)]
           IN  /\ r \in Scanned(Kept)
               /\ r.state = "ok" /\ ~TookMark(r) =>
                      Weight(r) = Weight(start) + Len(items) + Marked(items, Len(items))
<1> DEFINE K == ItemRun(start, items, flags, options, marks, room, dashed)
           n == Len(items)
           w0 == Weight(start)
           Fine(i) == \/ K[i].state = "error"
                      \/ TookMark(K[i])
                      \/ Weight(K[i]) = w0 + i + Marked(items, i)
           Good == {i \in 0 .. n : K[i] \in Scanned(Kept) /\ SeenIn(K[i], SeenItems(items, i)) /\ Fine(i)}
<1>1. n \in Nat /\ \A i \in 1 .. n : items[i] \in CliItem
    BY ElementOfSeq
<1>2. /\ K[0] = start
      /\ \A i \in 1 .. n : K[i] = ItemWord(K[i - 1], items[i], flags, options, marks, room, dashed)
    <2>1. start \in CliRecord(Kept)
        BY DEF Scanned
    <2>2. /\ K[0] = start
          /\ \A i \in 1 .. Len(items) :
                 K[i] = ItemWord(K[i - 1], items[i], flags, options, marks, room, dashed)
        BY <2>1, ItemTurns, SMTT(60)
    <2> HIDE DEF K
    <2> QED
        BY <2>2
<1>3. w0 \in Nat
    BY ScannedIs
<1>4. \A x \in 1 .. n : ~items[x].marked => items[x].word \notin {"--json", "--home"}
    OBVIOUS
<1>5. \A x, y \in 1 .. n :
           ~items[x].marked /\ ~items[y].marked /\ items[x].word = items[y].word => x = y
    OBVIOUS
<1> HIDE DEF K, n, w0
<1>6. 0 \in Good
    <2>1. Marked(items, 0) = 0
        BY MarkedNext
    <2>2. SeenItems(items, 0) = {"--json", "--home"}
        BY DEF SeenItems
    <2>3. Weight(K[0]) = w0 + 0 + Marked(items, 0)
        BY <1>2, <1>3, <2>1 DEF w0
    <2>4. 0 \in 0 .. n /\ K[0] \in Scanned(Kept) /\ SeenIn(K[0], SeenItems(items, 0))
        <3>1. SeenIn(start, SeenItems(items, 0))
            BY <2>2, Zenon
        <3> QED
            BY <1>1, <1>2, <3>1
    <2>5. Fine(0)
        BY <2>3
    <2> HIDE DEF Fine
    <2> QED
        BY <2>4, <2>5
<1>7. ASSUME NEW i \in 0 .. n - 1, i \in Good PROVE i + 1 \in Good
    <2> DEFINE r == K[i]
               k == K[i + 1]
               item == items[i + 1]
               seen == SeenItems(items, i)
               more == SeenItems(items, i + 1)
    <2>1. i + 1 \in 1 .. n /\ i \in Nat /\ (i + 1) - 1 = i /\ i + 1 \in 0 .. n
        BY <1>1
    <2>2. k = ItemWord(r, item, flags, options, marks, room, dashed) /\ item \in CliItem
        BY <1>1, <1>2, <2>1
    <2>3. seen \subseteq more
        <3>1. \A y : y \in 1 .. i => y \in 1 .. i + 1
            BY <2>1
        <3> QED
            BY <3>1 DEF SeenItems
    <2>4. ~item.marked => item.word \in more
        <3>1. i + 1 \in 1 .. i + 1
            BY <2>1
        <3> QED
            BY <3>1 DEF SeenItems
    <2>5. ~item.marked => item.word \notin seen
        <3>1. \A x \in 1 .. i : x \in 1 .. n /\ x # i + 1
            BY <1>1, <2>1
        <3>2. ASSUME ~item.marked PROVE item.word \notin {"--json", "--home"}
            BY <1>4, <2>1, <3>2
        <3>3. ASSUME ~item.marked, NEW x \in 1 .. i, ~items[x].marked PROVE item.word # items[x].word
            BY <1>5, <2>1, <3>1, <3>3
        <3> QED
            BY <3>2, <3>3 DEF SeenItems
    <2>6. r \in Scanned(Kept) /\ SeenIn(r, seen) /\ Fine(i)
        BY <1>7
    <2>7. Marked(items, i) \in Nat /\ Marked(items, i + 1) = Marked(items, i) + ItemMark(item)
        BY <2>1, MarkedNext
    <2>8. ItemMark(item) \in Nat
        BY DEF ItemMark
    <2>11. ~item.marked => item.word \notin seen /\ item.word \in more
        BY <2>4, <2>5
    <2>12. r \in Scanned(Kept) /\ SeenIn(r, seen)
        BY <2>6
    <2> HIDE DEF r, k, item, seen, more
    <2>9. /\ k \in Scanned(Kept) /\ SeenIn(k, more)
          /\ \/ k.state = "error"
             \/ TookMark(k)
             \/ /\ r.state # "error" /\ ~TookMark(r)
                /\ Weight(k) = Weight(r) + 1 + ItemMark(item)
        <3>1. k \in Scanned(Kept) /\ SeenIn(k, more) /\ ItemFine(r, item, k)
            BY <2>2, <2>3, <2>11, <2>12, ItemWeighs
        <3> QED
            BY <3>1 DEF ItemFine
    <2>10. ASSUME r.state # "error", ~TookMark(r), Weight(k) = Weight(r) + 1 + ItemMark(item)
           PROVE  Weight(k) = w0 + (i + 1) + Marked(items, i + 1)
        <3> DEFINE m == Marked(items, i)
                   e == ItemMark(item)
        <3>1. Weight(r) = w0 + i + m
            BY <2>6, <2>10 DEF r
        <3>2. m \in Nat /\ e \in Nat /\ Marked(items, i + 1) = m + e
            BY <2>7, <2>8
        <3>3. Weight(k) = Weight(r) + 1 + e
            BY <2>10
        <3> HIDE DEF m, e
        <3> QED
            BY <1>3, <2>1, <3>1, <3>2, <3>3
    <2> QED
        BY <2>1, <2>9, <2>10 DEF k, more
<1> HIDE DEF Good
<1>8. \A i \in 0 .. n - 1 : i \in Good => i + 1 \in Good
    BY <1>7
<1>9. \A i \in 0 .. n : i \in Good
    BY <1>1, <1>6, <1>8, NumberInduction
<1>10. n \in Good
    BY <1>1, <1>9
<1>11. K[n] \in Scanned(Kept) /\ Fine(n)
    BY <1>10 DEF Good
<1> QED
    BY <1>11 DEF K, n, w0

\* Both passes: a command or an error, and no word lost.
LEMMA SecondPassIs ==
    ASSUME NEW words \in Seq(CliWord), NEW flags, NEW options, flags \cap options = {},
           NEW marks, NEW room, NEW dashed, LinesAssumption
    PROVE  LET p == SecondPass(HomeJson(words), flags, options, marks, room, dashed)
           IN  CliTyped(p) /\ Counted(p, words)
<1> DEFINE n == Len(words)
           h == HomeRun(words)[n]
           s == HomeJson(words)
           p == SecondPass(s, flags, options, marks, room, dashed)
<1>1. n \in Nat /\ h \in CliRecord(CliItem) /\ s = Done(h)
    <2>1. n \in Nat /\ n \in 0 .. n
        BY LenProperties
    <2> QED
        BY <2>1, HomeTurns DEF HomeJson
<1>2. s = Rejected \/ (s = h /\ h.state = "ok" /\ h.want = Nothing)
    BY <1>1, DoneIs
<1>3. CASE s.state = "error"
    <2>1. p = Rejected
        BY <1>3 DEF SecondPass
    <2> QED
        BY <2>1, RejectedIs
<1>4. CASE s.state # "error"
    <2> DEFINE items == s.operands
               start == Emptied(s)
               r == ItemRun(start, items, flags, options, marks, room, dashed)[Len(items)]
    <2>1. s = h /\ h.state = "ok" /\ h.want = Nothing
        BY <1>2, <1>4, RejectedIs
    <2>2. items \in Seq(CliItem) /\ start \in CliRecord(Kept)
        <3>1. << >> \in Seq(Kept)
            BY EmptySeq
        <3> HIDE DEF s, h
        <3> QED
            BY <1>1, <2>1, <3>1 DEF CliRecord, Emptied
    <2>3. \A i \in 0 .. Len(items) :
              ItemRun(start, items, flags, options, marks, room, dashed)[i] \in CliRecord(Kept)
        <3> HIDE DEF s, items, start
        <3> QED
            BY <2>2, ItemTurns
    <2>4. r \in CliRecord(Kept)
        <3>1. Len(items) \in 0 .. Len(items)
            BY <2>2, LenProperties
        <3> QED
            BY <2>3, <3>1
    <2>5. p = Done(r)
        BY <1>4, SecondPassEnds
    <2> HIDE DEF r, p, s, h
    <2>6. CliTyped(p) /\ (p = Rejected \/ (p = r /\ r.state = "ok" /\ r.want = Nothing))
        BY <2>4, <2>5, DoneIs
    <2>7. ASSUME p.state = "ok", IsInjective(words), ~TookMark(p)
          PROVE  n = Cardinality(p.flags) + 2 * Cardinality(p.values)
                     + 2 * Len(p.prefixes) + Len(p.operands)
        <3>1. p = r /\ r.state = "ok" /\ r.want = Nothing
            BY <2>6, <2>7, RejectedIs
        <3>2. HomeGood(h, SeenTo(words, n)) /\ HomeWeight(h) = n
            BY <2>7, HomeCounts DEF h
        <3>3. /\ h \in Scanned(CliItem) /\ SeenIn(h, SeenTo(words, n)) /\ SeenIn(h, {"--json", "--home"})
              /\ \A x \in 1 .. Len(items) : ~items[x].marked => items[x].word \notin {"--json", "--home"}
              /\ \A x, y \in 1 .. Len(items) :
                     ~items[x].marked /\ ~items[y].marked /\ items[x].word = items[y].word => x = y
            BY <2>1, <3>2 DEF HomeGood, SeenIn
        <3>4. start \in Scanned(Kept) /\ SeenIn(start, {"--json", "--home"})
              /\ Weight(start) + Len(items) = Weight(h)
            BY <2>1, <3>3, EmptiedIs
        <3> HIDE DEF items, start
        <3>5. /\ r \in Scanned(Kept)
              /\ Weight(r) = Weight(start) + Len(items) + Marked(items, Len(items))
            BY <2>2, <2>7, <3>1, <3>3, <3>4, ItemsCount DEF r
        <3>6. Weight(r) = n
            <4> DEFINE a == Weight(start)
                       b == Len(items)
                       m == Marked(items, b)
            <4>1. a \in Nat /\ b \in Nat /\ m \in Nat
                <5>1. b \in Nat
                    BY <2>2, LenProperties
                <5>2. m \in Nat
                    BY <5>1, MarkedNext
                <5> QED
                    BY <3>4, <5>1, <5>2, ScannedIs
            <4>2. Weight(h) + m = n
                BY <2>1, <3>2 DEF HomeWeight, items
            <4>3. a + b = Weight(h) /\ Weight(r) = a + b + m
                BY <3>4, <3>5
            <4> HIDE DEF a, b, m
            <4> QED
                BY <4>1, <4>2, <4>3
        <3>7. Weight(r) = Cardinality(r.flags) + 2 * Cardinality(r.values)
                  + 2 * Len(r.prefixes) + Len(r.operands)
            BY <3>1, <3>5, WeightCounts
        <3> QED
            BY <3>1, <3>6, <3>7
    <2> QED
        BY <2>6, <2>7 DEF Counted, p, s
<1> QED
    BY <1>3, <1>4

-----------------------------------------------------------------------------
\* The scans of one pass: open, run and apps.

LEMMA ScanTyped ==
    ASSUME NEW flags, NEW options, flags \cap options = {}
    PROVE  \A r \in CliRecord(CliWord), w \in CliWord : ScanWord(r, w, flags, options) \in CliRecord(CliWord)
<1> SUFFICES ASSUME NEW r \in CliRecord(CliWord), NEW w \in CliWord
             PROVE  ScanWord(r, w, flags, options) \in CliRecord(CliWord)
    OBVIOUS
<1>1. w \in Kept
    BY DEF Kept, CliWord
<1>2. r.want # Nothing => Keep(r, r.want, w) \in CliRecord(CliWord)
    BY <1>1, KeepTyped, MadeTyped
<1>3. /\ SetFlag(r, w) \in CliRecord(CliWord) /\ [r EXCEPT !.want = w] \in CliRecord(CliWord)
      /\ Operand(r, w) \in CliRecord(CliWord)
    BY <1>1, MadeTyped
<1> QED
    BY <1>2, <1>3 DEF ScanWord

ScanRun(words, flags, options) ==
    CHOOSE upTo : upTo = [i \in 0 .. Len(words) |->
        IF i = 0 THEN Fresh ELSE ScanWord(upTo[i - 1], words[i], flags, options)]

\* A scan is a loop with these intermediate results.
LEMMA ScanTurns ==
    ASSUME NEW words \in Seq(CliWord), NEW flags, NEW options, flags \cap options = {}
    PROVE  LET K == ScanRun(words, flags, options)
           IN  /\ K[0] = Fresh
               /\ \A i \in 1 .. Len(words) : K[i] = ScanWord(K[i - 1], words[i], flags, options)
               /\ \A i \in 0 .. Len(words) : K[i] \in CliRecord(CliWord)
<1> DEFINE V == CliRecord(CliWord)
           n == Len(words)
           turn == [i \in 1 .. n |-> [r \in V |-> ScanWord(r, words[i], flags, options)]]
           Runs(g) == g = [i \in 0 .. n |-> IF i = 0 THEN Fresh ELSE ScanWord(g[i - 1], words[i], flags, options)]
           K == ScanRun(words, flags, options)
<1>1. n \in Nat /\ Fresh \in V
    BY FreshIs, LenProperties DEF Scanned
<1>2. \A i \in 1 .. n, r \in V : ScanWord(r, words[i], flags, options) \in V
    <2>1. \A i \in 1 .. n : words[i] \in CliWord
        BY <1>1, ElementOfSeq
    <2> QED
        BY <2>1, ScanTyped
<1>3. /\ turn \in [1 .. n -> [V -> V]]
      /\ \A i \in 1 .. n, r \in V : turn[i][r] = ScanWord(r, words[i], flags, options)
    BY <1>2
<1> HIDE DEF V, turn, n
<1>4. PICK f \in [0 .. n -> V] : f[0] = Fresh /\ \A i \in 1 .. n : f[i] = turn[i][f[i - 1]]
    <2>1. LoopRuns(n, V, Fresh, turn) # {}
        BY <1>1, <1>3, LoopIsDefined
    <2> QED
        BY <2>1 DEF LoopRuns
<1>5. Runs(f)
    <2>1. \A i \in 1 .. n : i - 1 \in 0 .. n /\ i \in 0 .. n /\ i # 0
        BY <1>1
    <2>2. \A i \in 1 .. n : f[i] = ScanWord(f[i - 1], words[i], flags, options)
        BY <1>3, <1>4, <2>1
    <2>3. \A i \in 0 .. n : i = 0 \/ i \in 1 .. n
        BY <1>1
    <2>4. \A i \in 0 .. n : f[i] = IF i = 0 THEN Fresh ELSE ScanWord(f[i - 1], words[i], flags, options)
        BY <1>4, <2>1, <2>2, <2>3
    <2> QED
        BY <2>4
<1>6. Runs(K)
    <2>1. K = CHOOSE g : Runs(g)
        BY DEF ScanRun, n
    <2> HIDE DEF Runs, K
    <2> QED
        BY <1>5, <2>1
<1> HIDE DEF K
<1>7. K[0] = Fresh /\ \A i \in 1 .. n : K[i] = ScanWord(K[i - 1], words[i], flags, options)
    <2>1. 0 \in 0 .. n /\ \A i \in 1 .. n : i \in 0 .. n /\ i # 0
        BY <1>1
    <2> QED
        BY <1>6, <2>1, Zenon
<1>8. \A i \in 0 .. n : K[i] \in V
    <2>1. K[0] \in V /\ \A i \in 1 .. n : K[i - 1] \in V => K[i] \in V
        BY <1>1, <1>2, <1>7
    <2> QED
        BY <1>1, <2>1, LoopStays
<1> QED
    BY <1>7, <1>8 DEF V, n, K

LEMMA ScanEnds ==
    ASSUME NEW words, NEW flags, NEW options
    PROVE  Scan(words, flags, options) = ScanRun(words, flags, options)[Len(words)]
BY DEF Scan, Loop, ScanRun

LEMMA RunTyped ==
    \A r \in CliRecord(CliWord), w \in CliWord : RunWord(r, w) \in CliRecord(CliWord)
<1> SUFFICES ASSUME NEW r \in CliRecord(CliWord), NEW w \in CliWord
             PROVE  RunWord(r, w) \in CliRecord(CliWord)
    OBVIOUS
<1>1. w \in Kept
    BY DEF Kept, CliWord
<1>2. /\ SetFlag(r, w) \in CliRecord(CliWord) /\ Error(r) \in CliRecord(CliWord)
      /\ Operand(r, w) \in CliRecord(CliWord)
    BY <1>1, MadeTyped
<1>3. ScanWord(r, w, {}, {"--backend", "--bundle", "--profile"}) \in CliRecord(CliWord)
    BY ScanTyped
<1> QED
    BY <1>2, <1>3 DEF RunWord

RunRun(words) ==
    CHOOSE upTo : upTo = [i \in 0 .. Len(words) |->
        IF i = 0 THEN Fresh ELSE RunWord(upTo[i - 1], words[i])]

\* The scan of run is a loop with these intermediate results.
LEMMA RunTurns ==
    ASSUME NEW words \in Seq(CliWord)
    PROVE  LET K == RunRun(words)
           IN  /\ K[0] = Fresh
               /\ \A i \in 1 .. Len(words) : K[i] = RunWord(K[i - 1], words[i])
               /\ \A i \in 0 .. Len(words) : K[i] \in CliRecord(CliWord)
<1> DEFINE V == CliRecord(CliWord)
           n == Len(words)
           turn == [i \in 1 .. n |-> [r \in V |-> RunWord(r, words[i])]]
           Runs(g) == g = [i \in 0 .. n |-> IF i = 0 THEN Fresh ELSE RunWord(g[i - 1], words[i])]
           K == RunRun(words)
<1>1. n \in Nat /\ Fresh \in V
    BY FreshIs, LenProperties DEF Scanned
<1>2. \A i \in 1 .. n, r \in V : RunWord(r, words[i]) \in V
    <2>1. \A i \in 1 .. n : words[i] \in CliWord
        BY <1>1, ElementOfSeq
    <2> QED
        BY <2>1, RunTyped
<1>3. /\ turn \in [1 .. n -> [V -> V]]
      /\ \A i \in 1 .. n, r \in V : turn[i][r] = RunWord(r, words[i])
    BY <1>2
<1> HIDE DEF V, turn, n
<1>4. PICK f \in [0 .. n -> V] : f[0] = Fresh /\ \A i \in 1 .. n : f[i] = turn[i][f[i - 1]]
    <2>1. LoopRuns(n, V, Fresh, turn) # {}
        BY <1>1, <1>3, LoopIsDefined
    <2> QED
        BY <2>1 DEF LoopRuns
<1>5. Runs(f)
    <2>1. \A i \in 1 .. n : i - 1 \in 0 .. n /\ i \in 0 .. n /\ i # 0
        BY <1>1
    <2>2. \A i \in 1 .. n : f[i] = RunWord(f[i - 1], words[i])
        BY <1>3, <1>4, <2>1
    <2>3. \A i \in 0 .. n : i = 0 \/ i \in 1 .. n
        BY <1>1
    <2>4. \A i \in 0 .. n : f[i] = IF i = 0 THEN Fresh ELSE RunWord(f[i - 1], words[i])
        BY <1>4, <2>1, <2>2, <2>3
    <2> QED
        BY <2>4
<1>6. Runs(K)
    <2>1. K = CHOOSE g : Runs(g)
        BY DEF RunRun, n
    <2> HIDE DEF Runs, K
    <2> QED
        BY <1>5, <2>1
<1> HIDE DEF K
<1>7. K[0] = Fresh /\ \A i \in 1 .. n : K[i] = RunWord(K[i - 1], words[i])
    <2>1. 0 \in 0 .. n /\ \A i \in 1 .. n : i \in 0 .. n /\ i # 0
        BY <1>1
    <2> QED
        BY <1>6, <2>1, Zenon
<1>8. \A i \in 0 .. n : K[i] \in V
    <2>1. K[0] \in V /\ \A i \in 1 .. n : K[i - 1] \in V => K[i] \in V
        BY <1>1, <1>2, <1>7
    <2> QED
        BY <1>1, <2>1, LoopStays
<1> QED
    BY <1>7, <1>8 DEF V, n, K

LEMMA RunEnds ==
    ASSUME NEW words
    PROVE  Loop(RunWord, Fresh, words) = RunRun(words)[Len(words)]
BY DEF Loop, RunRun

\* A word that was not seen before weighs one.
LEMMA ScanWeighs ==
    ASSUME NEW flags, NEW options, NEW r \in Scanned(CliWord), NEW seen,
           SeenIn(r, seen), NEW w \in CliWord, w \notin seen, LinesAssumption,
           NEW more, seen \subseteq more, w \in more, w \in flags => w \notin options
    PROVE  LET k == ScanWord(r, w, flags, options)
           IN  /\ k \in Scanned(CliWord) /\ SeenIn(k, more)
               /\ Weight(k) = Weight(r) + 1 /\ k.state = r.state
<1> DEFINE k == ScanWord(r, w, flags, options)
<1>1. w \in Kept /\ w # Nothing
    BY DEF Kept, LinesAssumption, CliWord
<1>2. CASE r.want # Nothing
    <2>1. k = Keep(r, r.want, w)
        BY <1>2 DEF ScanWord
    <2> HIDE DEF k
    <2>2. k \in Scanned(CliWord) /\ Weight(k) = Weight(r) + 1 /\ SeenIn(k, seen) /\ k.state = r.state
        BY <1>1, <1>2, <2>1, KeepWeighs
    <2>3. SeenIn(k, more)
        BY <2>2, SeenGrows
    <2> QED
        BY <2>2, <2>3 DEF k
<1>3. CASE r.want = Nothing /\ w \in flags
    <2>1. k = SetFlag(r, w) /\ r.want = Nothing
        BY <1>3 DEF ScanWord
    <2> HIDE DEF k
    <2>2. k \in Scanned(CliWord) /\ Weight(k) = Weight(r) + 1 /\ SeenIn(k, more) /\ k.state = r.state
        BY <1>1, <2>1, FlagWeighs
    <2> QED
        BY <2>2 DEF k
<1>4. CASE r.want = Nothing /\ w \notin flags /\ w \in options
    <2>1. k = [r EXCEPT !.want = w] /\ r.want = Nothing
        BY <1>4 DEF ScanWord
    <2> HIDE DEF k
    <2>2. k \in Scanned(CliWord) /\ Weight(k) = Weight(r) + 1 /\ SeenIn(k, more) /\ k.state = r.state
        BY <1>1, <2>1, WantWeighs
    <2> QED
        BY <2>2 DEF k
<1>5. CASE r.want = Nothing /\ w \notin flags /\ w \notin options
    <2>1. k = Operand(r, w)
        BY <1>5 DEF ScanWord
    <2> HIDE DEF k
    <2>2. k \in Scanned(CliWord) /\ Weight(k) = Weight(r) + 1 /\ SeenIn(k, seen) /\ k.state = r.state
        BY <2>1, OperandWeighs
    <2>3. SeenIn(k, more)
        BY <2>2, SeenGrows
    <2> QED
        BY <2>2, <2>3 DEF k
<1> QED
    BY <1>2, <1>3, <1>4, <1>5

LEMMA RunWeighs ==
    ASSUME NEW r \in Scanned(CliWord), NEW seen, SeenIn(r, seen), NEW w \in CliWord, w \notin seen,
           LinesAssumption, NEW more, seen \subseteq more, w \in more
    PROVE  LET k == RunWord(r, w)
           IN  /\ k \in Scanned(CliWord) /\ SeenIn(k, more)
               /\ k.state # "error" => Weight(k) = Weight(r) + 1 /\ r.state = k.state
<1> DEFINE k == RunWord(r, w)
           options == {"--backend", "--bundle", "--profile"}
<1>1. w \in Kept /\ w # Nothing
    BY DEF Kept, LinesAssumption, CliWord
<1>2. ASSUME k = Operand(r, w)
      PROVE  /\ k \in Scanned(CliWord) /\ SeenIn(k, more)
             /\ k.state # "error" => Weight(k) = Weight(r) + 1 /\ r.state = k.state
    <2> HIDE DEF k
    <2>1. k \in Scanned(CliWord) /\ Weight(k) = Weight(r) + 1 /\ SeenIn(k, seen) /\ k.state = r.state
        BY <1>2, OperandWeighs
    <2>2. SeenIn(k, more)
        BY <2>1, SeenGrows
    <2> QED
        BY <2>1, <2>2 DEF k
<1>3. CASE "--" \in r.flags
    <2>1. k = Operand(r, w)
        BY <1>3 DEF RunWord
    <2> QED
        BY <1>2, <2>1
<1>4. CASE "--" \notin r.flags /\ r.want = Nothing /\ w = "--"
    <2>1. (k = Error(r) \/ k = SetFlag(r, w))
        BY <1>4 DEF RunWord
    <2>4. r.want = Nothing
        BY <1>4
    <2> HIDE DEF k
    <2>2. CASE k = Error(r)
        <3>1. k \in Scanned(CliWord) /\ SeenIn(k, seen) /\ k.state = "error"
            BY <2>2, ErrorIs
        <3>2. SeenIn(k, more)
            BY <3>1, SeenGrows
        <3> QED
            BY <3>1, <3>2 DEF k
    <2>3. CASE k = SetFlag(r, w)
        <3>1. /\ k \in Scanned(CliWord) /\ Weight(k) = Weight(r) + 1 /\ SeenIn(k, more)
              /\ k.state = r.state
            BY <1>1, <2>3, <2>4, FlagWeighs
        <3> QED
            BY <3>1 DEF k
    <2> QED
        BY <2>1, <2>2, <2>3
<1>5. CASE "--" \notin r.flags /\ ~(r.want = Nothing /\ w = "--")
    <2>1. k = ScanWord(r, w, {}, options)
        BY <1>5 DEF RunWord
    <2> HIDE DEF k, options
    <2>3. k \in Scanned(CliWord) /\ SeenIn(k, more) /\ Weight(k) = Weight(r) + 1 /\ k.state = r.state
        <3> DEFINE none == {}
        <3>1. k = ScanWord(r, w, none, options) /\ (w \in none => w \notin options)
            BY <2>1
        <3> HIDE DEF none
        <3> QED
            BY <3>1, ScanWeighs
    <2> QED
        BY <2>3 DEF k
<1> QED
    BY <1>3, <1>4, <1>5

\* A scan has made something of every word.
LEMMA ScanCounts ==
    ASSUME NEW words \in Seq(CliWord), IsInjective(words), NEW flags, NEW options,
           flags \cap options = {}, LinesAssumption
    PROVE  LET r == ScanRun(words, flags, options)[Len(words)]
           IN  r \in Scanned(CliWord) /\ Weight(r) = Len(words)
<1> DEFINE K == ScanRun(words, flags, options)
           n == Len(words)
           Good == {i \in 0 .. n : /\ K[i] \in Scanned(CliWord) /\ SeenIn(K[i], SeenTo(words, i))
                                   /\ Weight(K[i]) = i}
<1>1. n \in Nat /\ \A i \in 1 .. n : words[i] \in CliWord
    BY ElementOfSeq
<1>2. K[0] = Fresh /\ \A i \in 1 .. n : K[i] = ScanWord(K[i - 1], words[i], flags, options)
    BY ScanTurns
<1>3. \A x, y \in 1 .. n : words[x] = words[y] => x = y
    BY <1>1 DEF IsInjective
<1> HIDE DEF K, n
<1>4. 0 \in Good
    <2>1. 0 \in 0 .. n
        BY <1>1
    <2>2. Fresh \in Scanned(CliWord) /\ SeenIn(Fresh, SeenTo(words, 0)) /\ Weight(Fresh) = 0
        BY FreshIs
    <2> QED
        BY <1>2, <2>1, <2>2
<1>5. ASSUME NEW i \in 0 .. n - 1, i \in Good PROVE i + 1 \in Good
    <2> DEFINE r == K[i]
               k == K[i + 1]
               w == words[i + 1]
               seen == SeenTo(words, i)
               more == SeenTo(words, i + 1)
    <2>1. i + 1 \in 1 .. n /\ i \in Nat /\ (i + 1) - 1 = i /\ i + 1 \in 0 .. n
        BY <1>1
    <2>2. k = ScanWord(r, w, flags, options) /\ w \in CliWord
        BY <1>1, <1>2, <2>1
    <2>3. w \notin seen
        <3>1. \A x \in 1 .. i : x \in 1 .. n /\ x # i + 1
            BY <1>1, <2>1
        <3> QED
            BY <1>3, <2>1, <3>1 DEF SeenTo
    <2>4. seen \subseteq more /\ w \in more
        <3>1. SeenTo(words, i + 1) = SeenTo(words, i) \union {words[i + 1]}
            BY <2>1, SeenNext
        <3> QED
            BY <3>1
    <2>5. r \in Scanned(CliWord) /\ SeenIn(r, seen)
        BY <1>5
    <2>10. w \in flags => w \notin options
        OBVIOUS
    <2>6. Weight(r) = i
        BY <1>5
    <2> HIDE DEF r, k, w, seen, more
    <2>7. /\ k \in Scanned(CliWord) /\ SeenIn(k, more)
          /\ Weight(k) = Weight(r) + 1
        BY <2>2, <2>3, <2>4, <2>5, <2>10, ScanWeighs
    <2>9. Weight(k) = i + 1
        BY <2>6, <2>7
    <2> QED
        BY <2>1, <2>7, <2>9 DEF k, more
<1> HIDE DEF Good
<1>6. \A i \in 0 .. n - 1 : i \in Good => i + 1 \in Good
    BY <1>5
<1>7. \A i \in 0 .. n : i \in Good
    BY <1>1, <1>4, <1>6, NumberInduction
<1>8. n \in Good
    BY <1>1, <1>7
<1> QED
    BY <1>8 DEF Good, K, n

\* So has the scan of run, unless it rejects the words.
LEMMA RunCounts ==
    ASSUME NEW words \in Seq(CliWord), IsInjective(words), LinesAssumption
    PROVE  LET r == RunRun(words)[Len(words)]
           IN  r \in Scanned(CliWord) /\ (r.state # "error" => Weight(r) = Len(words))
<1> DEFINE K == RunRun(words)
           n == Len(words)
           Good == {i \in 0 .. n : /\ K[i] \in Scanned(CliWord) /\ SeenIn(K[i], SeenTo(words, i))
                                   /\ (K[i].state # "error" => Weight(K[i]) = i)}
<1>1. n \in Nat /\ \A i \in 1 .. n : words[i] \in CliWord
    BY ElementOfSeq
<1>2. K[0] = Fresh /\ \A i \in 1 .. n : K[i] = RunWord(K[i - 1], words[i])
    BY RunTurns
<1>3. \A x, y \in 1 .. n : words[x] = words[y] => x = y
    BY <1>1 DEF IsInjective
<1> HIDE DEF K, n
<1>4. 0 \in Good
    <2>1. 0 \in 0 .. n
        BY <1>1
    <2>2. Fresh \in Scanned(CliWord) /\ SeenIn(Fresh, SeenTo(words, 0)) /\ Weight(Fresh) = 0
        BY FreshIs
    <2> QED
        BY <1>2, <2>1, <2>2
<1>5. ASSUME NEW i \in 0 .. n - 1, i \in Good PROVE i + 1 \in Good
    <2> DEFINE r == K[i]
               k == K[i + 1]
               w == words[i + 1]
               seen == SeenTo(words, i)
               more == SeenTo(words, i + 1)
    <2>1. i + 1 \in 1 .. n /\ i \in Nat /\ (i + 1) - 1 = i /\ i + 1 \in 0 .. n
        BY <1>1
    <2>2. k = RunWord(r, w) /\ w \in CliWord
        BY <1>1, <1>2, <2>1
    <2>3. w \notin seen
        <3>1. \A x \in 1 .. i : x \in 1 .. n /\ x # i + 1
            BY <1>1, <2>1
        <3> QED
            BY <1>3, <2>1, <3>1 DEF SeenTo
    <2>4. seen \subseteq more /\ w \in more
        <3>1. SeenTo(words, i + 1) = SeenTo(words, i) \union {words[i + 1]}
            BY <2>1, SeenNext
        <3> QED
            BY <3>1
    <2>5. r \in Scanned(CliWord) /\ SeenIn(r, seen)
        BY <1>5
    <2>10. TRUE
        OBVIOUS
    <2>6. (r.state # "error" => Weight(r) = i)
        BY <1>5
    <2> HIDE DEF r, k, w, seen, more
    <2>7. /\ k \in Scanned(CliWord) /\ SeenIn(k, more)
          /\ k.state # "error" => Weight(k) = Weight(r) + 1 /\ r.state = k.state
        BY <2>2, <2>3, <2>4, <2>5, <2>10, RunWeighs
    <2>9. (k.state # "error" => Weight(k) = i + 1)
        BY <2>6, <2>7
    <2> QED
        BY <2>1, <2>7, <2>9 DEF k, more
<1> HIDE DEF Good
<1>6. \A i \in 0 .. n - 1 : i \in Good => i + 1 \in Good
    BY <1>5
<1>7. \A i \in 0 .. n : i \in Good
    BY <1>1, <1>4, <1>6, NumberInduction
<1>8. n \in Good
    BY <1>1, <1>7
<1> QED
    BY <1>8 DEF Good, K, n

-----------------------------------------------------------------------------
\* The second passes of bench and matrix set.

LEMMA ProfileTyped ==
    \A r \in CliRecord(Kept), item \in CliItem : ProfileWord(r, item) \in CliRecord(Kept)
<1> SUFFICES ASSUME NEW r \in CliRecord(Kept), NEW item \in CliItem
             PROVE  ProfileWord(r, item) \in CliRecord(Kept)
    OBVIOUS
<1>1. /\ item.word \in Kept /\ Text(item) \in Kept /\ item.marked \in BOOLEAN
      /\ "--profile" \in Kept /\ "--status" \in Kept
    BY DEF CliItem, Kept, Text
<1>2. r.want # Nothing => Keep(r, r.want, Text(item)) \in CliRecord(Kept)
    BY <1>1, KeepTyped, MadeTyped
<1>3. /\ [r EXCEPT !.want = item.word] \in CliRecord(Kept) /\ Error(r) \in CliRecord(Kept)
      /\ [r EXCEPT !.prefixes = Append(@, item.word)] \in CliRecord(Kept)
      /\ Operand(r, Text(item)) \in CliRecord(Kept)
    BY <1>1, MadeTyped
<1>4. /\ Keep(r, "--profile", item.word) \in CliRecord(Kept)
      /\ Keep(r, "--status", item.word) \in CliRecord(Kept)
    BY <1>1, KeepTyped
<1> QED
    BY <1>1, <1>2, <1>3, <1>4 DEF ProfileWord

ProfileRun(start, words) ==
    CHOOSE upTo : upTo = [i \in 0 .. Len(words) |->
        IF i = 0 THEN start ELSE ProfileWord(upTo[i - 1], words[i])]

\* The second pass of bench is a loop with these intermediate results.
LEMMA ProfileTurns ==
    ASSUME NEW words \in Seq(CliItem), NEW start \in CliRecord(Kept)
    PROVE  LET K == ProfileRun(start, words)
           IN  /\ K[0] = start
               /\ \A i \in 1 .. Len(words) : K[i] = ProfileWord(K[i - 1], words[i])
               /\ \A i \in 0 .. Len(words) : K[i] \in CliRecord(Kept)
<1> DEFINE V == CliRecord(Kept)
           n == Len(words)
           turn == [i \in 1 .. n |-> [r \in V |-> ProfileWord(r, words[i])]]
           Runs(g) == g = [i \in 0 .. n |-> IF i = 0 THEN start ELSE ProfileWord(g[i - 1], words[i])]
           K == ProfileRun(start, words)
<1>1. n \in Nat /\ start \in V
    BY LenProperties DEF Scanned
<1>2. \A i \in 1 .. n, r \in V : ProfileWord(r, words[i]) \in V
    <2>1. \A i \in 1 .. n : words[i] \in CliItem
        BY <1>1, ElementOfSeq
    <2> QED
        BY <2>1, ProfileTyped
<1>3. /\ turn \in [1 .. n -> [V -> V]]
      /\ \A i \in 1 .. n, r \in V : turn[i][r] = ProfileWord(r, words[i])
    BY <1>2
<1> HIDE DEF V, turn, n
<1>4. PICK f \in [0 .. n -> V] : f[0] = start /\ \A i \in 1 .. n : f[i] = turn[i][f[i - 1]]
    <2>1. LoopRuns(n, V, start, turn) # {}
        BY <1>1, <1>3, LoopIsDefined
    <2> QED
        BY <2>1 DEF LoopRuns
<1>5. Runs(f)
    <2>1. \A i \in 1 .. n : i - 1 \in 0 .. n /\ i \in 0 .. n /\ i # 0
        BY <1>1
    <2>2. \A i \in 1 .. n : f[i] = ProfileWord(f[i - 1], words[i])
        BY <1>3, <1>4, <2>1
    <2>3. \A i \in 0 .. n : i = 0 \/ i \in 1 .. n
        BY <1>1
    <2>4. \A i \in 0 .. n : f[i] = IF i = 0 THEN start ELSE ProfileWord(f[i - 1], words[i])
        BY <1>4, <2>1, <2>2, <2>3
    <2> QED
        BY <2>4
<1>6. Runs(K)
    <2>1. K = CHOOSE g : Runs(g)
        BY DEF ProfileRun, n
    <2> HIDE DEF Runs, K
    <2> QED
        BY <1>5, <2>1
<1> HIDE DEF K
<1>7. K[0] = start /\ \A i \in 1 .. n : K[i] = ProfileWord(K[i - 1], words[i])
    <2>1. 0 \in 0 .. n /\ \A i \in 1 .. n : i \in 0 .. n /\ i # 0
        BY <1>1
    <2> QED
        BY <1>6, <2>1, Zenon
<1>8. \A i \in 0 .. n : K[i] \in V
    <2>1. K[0] \in V /\ \A i \in 1 .. n : K[i - 1] \in V => K[i] \in V
        BY <1>1, <1>2, <1>7
    <2> QED
        BY <1>1, <2>1, LoopStays
<1> QED
    BY <1>7, <1>8 DEF V, n, K

LEMMA ProfileEnds ==
    ASSUME NEW start, NEW words
    PROVE  Loop(ProfileWord, start, words) = ProfileRun(start, words)[Len(words)]
BY DEF Loop, ProfileRun

LEMMA StatusTyped ==
    \A r \in CliRecord(Kept), item \in CliItem : StatusWord(r, item) \in CliRecord(Kept)
<1> SUFFICES ASSUME NEW r \in CliRecord(Kept), NEW item \in CliItem
             PROVE  StatusWord(r, item) \in CliRecord(Kept)
    OBVIOUS
<1>1. /\ item.word \in Kept /\ Text(item) \in Kept /\ item.marked \in BOOLEAN
      /\ "--profile" \in Kept /\ "--status" \in Kept
    BY DEF CliItem, Kept, Text
<1>2. r.want # Nothing => Keep(r, r.want, Text(item)) \in CliRecord(Kept)
    BY <1>1, KeepTyped, MadeTyped
<1>3. /\ [r EXCEPT !.want = item.word] \in CliRecord(Kept) /\ Error(r) \in CliRecord(Kept)
      /\ [r EXCEPT !.prefixes = Append(@, item.word)] \in CliRecord(Kept)
      /\ Operand(r, Text(item)) \in CliRecord(Kept)
    BY <1>1, MadeTyped
<1>4. /\ Keep(r, "--profile", item.word) \in CliRecord(Kept)
      /\ Keep(r, "--status", item.word) \in CliRecord(Kept)
    BY <1>1, KeepTyped
<1>5. TakeItem(r, item, 1, FALSE) \in CliRecord(Kept)
    BY <1>3 DEF TakeItem
<1> QED
    BY <1>1, <1>2, <1>3, <1>4, <1>5 DEF StatusWord

StatusRun(start, words) ==
    CHOOSE upTo : upTo = [i \in 0 .. Len(words) |->
        IF i = 0 THEN start ELSE StatusWord(upTo[i - 1], words[i])]

\* The second pass of matrix set is a loop with these intermediate results.
LEMMA StatusTurns ==
    ASSUME NEW words \in Seq(CliItem), NEW start \in CliRecord(Kept)
    PROVE  LET K == StatusRun(start, words)
           IN  /\ K[0] = start
               /\ \A i \in 1 .. Len(words) : K[i] = StatusWord(K[i - 1], words[i])
               /\ \A i \in 0 .. Len(words) : K[i] \in CliRecord(Kept)
<1> DEFINE V == CliRecord(Kept)
           n == Len(words)
           turn == [i \in 1 .. n |-> [r \in V |-> StatusWord(r, words[i])]]
           Runs(g) == g = [i \in 0 .. n |-> IF i = 0 THEN start ELSE StatusWord(g[i - 1], words[i])]
           K == StatusRun(start, words)
<1>1. n \in Nat /\ start \in V
    BY LenProperties DEF Scanned
<1>2. \A i \in 1 .. n, r \in V : StatusWord(r, words[i]) \in V
    <2>1. \A i \in 1 .. n : words[i] \in CliItem
        BY <1>1, ElementOfSeq
    <2> QED
        BY <2>1, StatusTyped
<1>3. /\ turn \in [1 .. n -> [V -> V]]
      /\ \A i \in 1 .. n, r \in V : turn[i][r] = StatusWord(r, words[i])
    BY <1>2
<1> HIDE DEF V, turn, n
<1>4. PICK f \in [0 .. n -> V] : f[0] = start /\ \A i \in 1 .. n : f[i] = turn[i][f[i - 1]]
    <2>1. LoopRuns(n, V, start, turn) # {}
        BY <1>1, <1>3, LoopIsDefined
    <2> QED
        BY <2>1 DEF LoopRuns
<1>5. Runs(f)
    <2>1. \A i \in 1 .. n : i - 1 \in 0 .. n /\ i \in 0 .. n /\ i # 0
        BY <1>1
    <2>2. \A i \in 1 .. n : f[i] = StatusWord(f[i - 1], words[i])
        BY <1>3, <1>4, <2>1
    <2>3. \A i \in 0 .. n : i = 0 \/ i \in 1 .. n
        BY <1>1
    <2>4. \A i \in 0 .. n : f[i] = IF i = 0 THEN start ELSE StatusWord(f[i - 1], words[i])
        BY <1>4, <2>1, <2>2, <2>3
    <2> QED
        BY <2>4
<1>6. Runs(K)
    <2>1. K = CHOOSE g : Runs(g)
        BY DEF StatusRun, n
    <2> HIDE DEF Runs, K
    <2> QED
        BY <1>5, <2>1
<1> HIDE DEF K
<1>7. K[0] = start /\ \A i \in 1 .. n : K[i] = StatusWord(K[i - 1], words[i])
    <2>1. 0 \in 0 .. n /\ \A i \in 1 .. n : i \in 0 .. n /\ i # 0
        BY <1>1
    <2> QED
        BY <1>6, <2>1, Zenon
<1>8. \A i \in 0 .. n : K[i] \in V
    <2>1. K[0] \in V /\ \A i \in 1 .. n : K[i - 1] \in V => K[i] \in V
        BY <1>1, <1>2, <1>7
    <2> QED
        BY <1>1, <2>1, LoopStays
<1> QED
    BY <1>7, <1>8 DEF V, n, K

LEMMA StatusEnds ==
    ASSUME NEW start, NEW words
    PROVE  Loop(StatusWord, start, words) = StatusRun(start, words)[Len(words)]
BY DEF Loop, StatusRun

-----------------------------------------------------------------------------
\* The subcommands.

LEMMA NeedsTyped ==
    ASSUME NEW p, NEW words, NEW n, CliTyped(p), Counted(p, words)
    PROVE  CliTyped(NeedsOperands(p, n)) /\ Counted(NeedsOperands(p, n), words)
BY RejectedIs DEF NeedsOperands

\* What the first pass leaves.
LEMMA HomeJsonIs ==
    ASSUME NEW words \in Seq(CliWord)
    PROVE  LET s == HomeJson(words)
           IN  \/ s = Rejected
               \/ s \in CliRecord(CliItem) /\ s.state = "ok" /\ s.want = Nothing
<1> DEFINE n == Len(words)
           h == HomeRun(words)[n]
<1>1. n \in 0 .. n
    BY LenProperties
<1>2. h \in CliRecord(CliItem) /\ HomeJson(words) = Done(h)
    BY <1>1, HomeTurns DEF HomeJson
<1> HIDE DEF h
<1> QED
    BY <1>2, DoneIs

LEMMA EmptiedTyped ==
    ASSUME NEW s \in CliRecord(CliItem)
    PROVE  Emptied(s) \in CliRecord(Kept) /\ s.operands \in Seq(CliItem)
<1>1. << >> \in Seq(Kept)
    BY EmptySeq
<1> QED
    BY <1>1 DEF CliRecord, Emptied

LEMMA FirstItemsTyped ==
    ASSUME NEW words \in Seq(CliWord), NEW least, NEW most
    PROVE  CliTyped(FirstItems(words, least, most))
<1> DEFINE s == HomeJson(words)
           kept == SubSeq(s.operands, 1, SmallerNat(Len(s.operands), most))
           p == [s EXCEPT !.operands = [i \in DOMAIN kept |-> Text(kept[i])]]
<1>1. s = Rejected \/ (s \in CliRecord(CliItem) /\ s.state = "ok" /\ s.want = Nothing)
    BY HomeJsonIs
<1>2. CASE s = Rejected
    <2>1. FirstItems(words, least, most) = Rejected
        BY <1>2, RejectedIs DEF FirstItems
    <2> QED
        BY <2>1, RejectedIs
<1>3. CASE s \in CliRecord(CliItem) /\ s.state = "ok" /\ s.want = Nothing
    <2>1. FirstItems(words, least, most) = NeedsOperands(p, least)
        BY <1>3 DEF FirstItems
    <2> HIDE DEF s, kept
    <2>2. p.state = "ok" /\ p.want = Nothing
        BY <1>3 DEF CliRecord
    <2>3. CliTyped(p)
        BY <2>2 DEF CliTyped
    <2> HIDE DEF p
    <2>4. CliTyped(NeedsOperands(p, least))
        BY <2>3, RejectedIs DEF NeedsOperands
    <2> QED
        BY <2>1, <2>4
<1> QED
    BY <1>1, <1>2, <1>3

LEMMA FirstWordsTyped ==
    ASSUME NEW words, NEW n
    PROVE  CliTyped(FirstWords(words, n))
<1> DEFINE p == [Fresh EXCEPT !.operands = SubSeq(words, 1, n)]
<1>1. Fresh \in CliRecord({}) /\ Fresh.state = "ok" /\ Fresh.want = Nothing
    BY FreshIs DEF Scanned
<1>2. p.state = "ok" /\ p.want = Nothing
    BY <1>1 DEF CliRecord
<1> HIDE DEF p
<1>3. CliTyped(p)
    BY <1>2 DEF CliTyped
<1>4. FirstWords(words, n) = Rejected \/ FirstWords(words, n) = p
    BY DEF FirstWords, p
<1> QED
    BY <1>3, <1>4, RejectedIs

\* A closed set of words: every word is a flag.
LEMMA OnlyWordsIs ==
    ASSUME NEW words \in Seq(CliWord), NEW known
    PROVE  CliTyped(OnlyWords(words, known)) /\ Counted(OnlyWords(words, known), words)
<1> DEFINE p == [Fresh EXCEPT !.flags = Range(words)]
           n == Len(words)
<1>1. /\ Fresh \in CliRecord({}) /\ Fresh.state = "ok" /\ Fresh.want = Nothing /\ Fresh.values = {}
      /\ Fresh.prefixes = << >> /\ Fresh.operands = << >>
    BY FreshIs DEF Scanned
<1>2. /\ p.state = "ok" /\ p.want = Nothing /\ p.flags = Range(words) /\ p.values = {}
      /\ p.prefixes = << >> /\ p.operands = << >>
    BY <1>1 DEF CliRecord
<1> HIDE DEF p
<1>3. CliTyped(p)
    BY <1>2 DEF CliTyped
<1>4. n \in Nat /\ words \in [1 .. n -> CliWord] /\ DOMAIN words = 1 .. n
    BY LenProperties
<1>5. ASSUME IsInjective(words) PROVE Cardinality(Range(words)) = n
    <2>1. words \in [1 .. n -> Range(words)]
        BY <1>4 DEF Range
    <2>2. \A a, b \in 1 .. n : words[a] = words[b] => a = b
        BY <1>4, <1>5 DEF IsInjective
    <2>3. \A y \in Range(words) : \E x \in 1 .. n : words[x] = y
        BY <1>4 DEF Range
    <2>4. ExistsBijection(1 .. n, Range(words))
        <3>1. words \in Injection(1 .. n, Range(words))
            BY <1>5, <2>1, <2>2 DEF Injection, IsInjective
        <3>2. words \in Surjection(1 .. n, Range(words))
            BY <2>1, <2>3 DEF Surjection
        <3> QED
            BY <3>1, <3>2 DEF ExistsBijection, Bijection
    <2> HIDE DEF n
    <2> QED
        BY <1>4, <2>4, FS_CountingElements
<1>6. Counted(p, words)
    <2>1. Cardinality({}) = 0 /\ Len(<< >>) = 0
        BY FS_EmptySet
    <2>2. /\ Cardinality(p.values) = 0 /\ Len(p.prefixes) = 0 /\ Len(p.operands) = 0
          /\ IsInjective(words) => Cardinality(p.flags) = n
        BY <1>2, <1>5, <2>1
    <2> HIDE DEF n
    <2>3. IsInjective(words) => n = Cardinality(p.flags) + 2 * Cardinality(p.values)
                                        + 2 * Len(p.prefixes) + Len(p.operands)
        BY <1>4, <2>2
    <2> QED
        BY <2>3 DEF Counted, n
<1>7. OnlyWords(words, known) = Rejected \/ OnlyWords(words, known) = p
    BY DEF OnlyWords, p
<1> QED
    BY <1>3, <1>6, <1>7, RejectedIs

\* open has no options and no errors on the way.
LEMMA OpenIs ==
    ASSUME NEW words \in Seq(CliWord), NEW flags, LinesAssumption
    PROVE  CliTyped(Scan(words, flags, {})) /\ Counted(Scan(words, flags, {}), words)
<1> DEFINE none == {}
           K == ScanRun(words, flags, none)
           n == Len(words)
           V == {r \in CliRecord(CliWord) : r.state = "ok" /\ r.want = Nothing}
           p == Scan(words, flags, none)
<1>1. flags \cap none = {} /\ \A x : x \notin none
    OBVIOUS
<1> HIDE DEF none
<1>2. /\ K[0] = Fresh /\ \A i \in 1 .. n : K[i] = ScanWord(K[i - 1], words[i], flags, none)
      /\ \A i \in 0 .. n : K[i] \in CliRecord(CliWord)
    BY <1>1, ScanTurns
<1>3. n \in Nat /\ n \in 0 .. n /\ p = K[n]
    BY LenProperties, ScanEnds
<1> HIDE DEF K, n, p
<1>4. K[n] \in V
    <2>1. K[0] \in V
        BY <1>2, FreshIs DEF Scanned
    <2>2. ASSUME NEW i \in 1 .. n, K[i - 1] \in V PROVE K[i] \in V
        <3> DEFINE r == K[i - 1]
                   w == words[i]
        <3>1. r \in CliRecord(CliWord) /\ r.state = "ok" /\ r.want = Nothing /\ i \in 0 .. n
            BY <1>3, <2>2
        <3>2. K[i] = ScanWord(r, w, flags, none) /\ K[i] \in CliRecord(CliWord)
            BY <1>2, <3>1
        <3> HIDE DEF r, w
        <3>3. ScanWord(r, w, flags, none) = SetFlag(r, w) \/ ScanWord(r, w, flags, none) = Operand(r, w)
            BY <1>1, <3>1 DEF ScanWord
        <3>4. K[i].state = "ok" /\ K[i].want = Nothing
            BY <3>1, <3>2, <3>3 DEF SetFlag, Operand, CliRecord
        <3> QED
            BY <3>2, <3>4
    <2> HIDE DEF V
    <2>3. \A i \in 0 .. n : K[i] \in V
        BY <1>3, <2>1, <2>2, LoopStays
    <2> QED
        BY <1>3, <2>3
<1>5. p.state = "ok" /\ p.want = Nothing
    BY <1>3, <1>4
<1>6. CliTyped(p)
    BY <1>5 DEF CliTyped
<1>7. ASSUME IsInjective(words)
      PROVE  n = Cardinality(p.flags) + 2 * Cardinality(p.values) + 2 * Len(p.prefixes) + Len(p.operands)
    <2>1. p \in Scanned(CliWord) /\ Weight(p) = n
        BY <1>1, <1>3, <1>7, ScanCounts DEF K, n
    <2> QED
        BY <1>5, <2>1, WeightCounts
<1>8. Counted(p, words)
    BY <1>7 DEF Counted, n
<1> QED
    BY <1>6, <1>8 DEF p, none

LEMMA RunIs ==
    ASSUME NEW words \in Seq(CliWord), LinesAssumption
    PROVE  LET p == Done(Loop(RunWord, Fresh, words)) IN CliTyped(p) /\ Counted(p, words)
<1> DEFINE n == Len(words)
           r == RunRun(words)[n]
           p == Done(Loop(RunWord, Fresh, words))
<1>1. n \in 0 .. n
    BY LenProperties
<1>2. r \in CliRecord(CliWord) /\ p = Done(r)
    BY <1>1, RunTurns, RunEnds
<1> HIDE DEF r, p
<1>3. CliTyped(p) /\ (p = Rejected \/ (p = r /\ r.state = "ok" /\ r.want = Nothing))
    BY <1>2, DoneIs
<1>4. ASSUME IsInjective(words), p.state = "ok"
      PROVE  n = Cardinality(p.flags) + 2 * Cardinality(p.values) + 2 * Len(p.prefixes) + Len(p.operands)
    <2>1. p = r /\ r.state = "ok" /\ r.want = Nothing
        BY <1>3, <1>4, RejectedIs
    <2>2. r \in Scanned(CliWord) /\ (r.state # "error" => Weight(r) = n)
        BY <1>4, RunCounts DEF r
    <2>3. Weight(r) = n
        BY <2>1, <2>2
    <2> QED
        BY <2>1, <2>2, <2>3, WeightCounts
<1>5. Counted(p, words)
    BY <1>4 DEF Counted
<1> QED
    BY <1>3, <1>5 DEF p

LEMMA BenchIs ==
    ASSUME NEW s \in CliRecord(CliItem)
    PROVE  CliTyped(Done(Loop(ProfileWord, Emptied(s), s.operands)))
<1> DEFINE start == Emptied(s)
           items == s.operands
           r == ProfileRun(start, items)[Len(items)]
<1>1. start \in CliRecord(Kept) /\ items \in Seq(CliItem)
    BY EmptiedTyped
<1> HIDE DEF start, items
<1>2. Len(items) \in 0 .. Len(items)
    BY <1>1, LenProperties
<1>3. r \in CliRecord(Kept)
    BY <1>1, <1>2, ProfileTurns
<1>4. Loop(ProfileWord, start, items) = r
    BY ProfileEnds
<1> HIDE DEF r
<1> QED
    BY <1>3, <1>4, DoneIs DEF start, items

LEMMA StatusIs ==
    ASSUME NEW s \in CliRecord(CliItem)
    PROVE  CliTyped(Done(Loop(StatusWord, Emptied(s), s.operands)))
<1> DEFINE start == Emptied(s)
           items == s.operands
           r == StatusRun(start, items)[Len(items)]
<1>1. start \in CliRecord(Kept) /\ items \in Seq(CliItem)
    BY EmptiedTyped
<1> HIDE DEF start, items
<1>2. Len(items) \in 0 .. Len(items)
    BY <1>1, LenProperties
<1>3. r \in CliRecord(Kept)
    BY <1>1, <1>2, StatusTurns
<1>4. Loop(StatusWord, start, items) = r
    BY StatusEnds
<1> HIDE DEF r
<1> QED
    BY <1>3, <1>4, DoneIs DEF start, items

LEMMA AppsIs ==
    ASSUME NEW words \in Seq(CliWord), NEW flags, NEW options, flags \cap options = {}
    PROVE  LET r == Done(Scan(words, flags, options))
           IN  r = Rejected \/ (r \in CliRecord(CliWord) /\ r.state = "ok" /\ r.want = Nothing)
<1> DEFINE n == Len(words)
           k == ScanRun(words, flags, options)[n]
<1>1. n \in 0 .. n
    BY LenProperties
<1>2. k \in CliRecord(CliWord) /\ Scan(words, flags, options) = k
    BY <1>1, ScanTurns, ScanEnds
<1> HIDE DEF k
<1> QED
    BY <1>2, DoneIs

-----------------------------------------------------------------------------
\* The invariant: what was made of the words has its type, and if the
\* subcommand passes nothing over, it counts them all.
CliInv ==
    /\ line \in Lines
    /\ parsed = NotYet \/ CliTyped(parsed)
    /\ line.cmd \notin PassOver => Counted(parsed, line.words)

CliSpec == (\E l \in Lines : CliInit(l)) /\ [][CliNext]_cliVars

LEMMA InitCli ==
    ASSUME LinesAssumption, NEW l \in Lines, CliInit(l) PROVE CliInv
<1>1. NotYet.state # "ok"
    BY DEF NotYet
<1>2. Counted(NotYet, line.words)
    BY <1>1 DEF Counted
<1> QED
    BY <1>2 DEF CliInit, CliInv

LEMMA ParsedIs ==
    ASSUME CliInv, UNCHANGED line, CliTyped(parsed'),
           line.cmd \notin PassOver => Counted(parsed', line.words)
    PROVE  CliInv'
BY DEF CliInv

LEMMA NextCli ==
    ASSUME LinesAssumption, CliInv, [CliNext]_cliVars PROVE CliInv'
<1> DEFINE words == line.words
<1>1. words \in Seq(CliWord) /\ line \in Lines
    BY DEF CliInv, LinesAssumption, CliWord
<1>2. CASE UNCHANGED cliVars
    BY <1>2 DEF cliVars, CliInv
<1>3. ASSUME UNCHANGED line, NEW p, parsed' = p, CliTyped(p), Counted(p, words) PROVE CliInv'
    BY <1>3, ParsedIs
<1>4. ASSUME UNCHANGED line, line.cmd \in PassOver, CliTyped(parsed') PROVE CliInv'
    BY <1>4, ParsedIs
<1> HIDE DEF words
<1>5. CASE ParseList
    <2> DEFINE none == {}
               p == SecondPass(HomeJson(words), none, none, FALSE, 0, FALSE)
    <2>1. UNCHANGED line /\ parsed' = p
        BY <1>5 DEF ParseList, Is, NoRest, words
    <2>2. none \cap none = {}
        OBVIOUS
    <2> HIDE DEF none
    <2>3. CliTyped(p) /\ Counted(p, words)
        BY <1>1, <2>2, SecondPassIs
    <2> QED
        BY <1>3, <2>1, <2>3
<1>6. CASE ParseSysapps
    <2>1. /\ UNCHANGED line /\ line.cmd \in PassOver
          /\ parsed' = FirstItems(words, 1, 2) \/ parsed' = FirstItems(words, 1, 1)
        BY <1>6 DEF ParseSysapps, Is, PassOver, words
    <2>2. CliTyped(FirstItems(words, 1, 2)) /\ CliTyped(FirstItems(words, 1, 1))
        BY <1>1, FirstItemsTyped
    <2> QED
        BY <1>4, <2>1, <2>2
<1>7. CASE ParseInteropGrant
    <2> DEFINE none == {}
               options == {"--token", "--channel"}
               p == SecondPass(HomeJson(words), none, options, TRUE, 0, FALSE)
    <2>1. UNCHANGED line /\ (parsed' = p \/ parsed' = Rejected)
        BY <1>7 DEF ParseInteropGrant, Is, words
    <2>2. none \cap options = {}
        OBVIOUS
    <2> HIDE DEF none, options
    <2>3. CliTyped(p) /\ Counted(p, words)
        BY <1>1, <2>2, SecondPassIs
    <2> HIDE DEF p
    <2> QED
        BY <1>3, <2>1, <2>3, RejectedIs
<1>8. CASE ParseBench
    <2> DEFINE s == HomeJson(words)
    <2>1. /\ UNCHANGED line /\ line.cmd \in PassOver
          /\ parsed' = IF s.state = "error" THEN Rejected
                       ELSE Done(Loop(ProfileWord, Emptied(s), s.operands))
        BY <1>8 DEF ParseBench, Is, PassOver, words
    <2>2. s = Rejected \/ (s \in CliRecord(CliItem) /\ s.state = "ok" /\ s.want = Nothing)
        BY <1>1, HomeJsonIs
    <2> HIDE DEF s
    <2>3. CASE s = Rejected
        BY <1>4, <2>1, <2>3, RejectedIs
    <2>4. CASE s \in CliRecord(CliItem) /\ s.state = "ok"
        <3>1. CliTyped(Done(Loop(ProfileWord, Emptied(s), s.operands)))
            BY <2>4, BenchIs
        <3>2. parsed' = Done(Loop(ProfileWord, Emptied(s), s.operands))
            BY <2>1, <2>4
        <3>3. CliTyped(parsed')
            BY <3>1, <3>2
        <3> QED
            BY <1>4, <2>1, <3>3
    <2> QED
        BY <2>2, <2>3, <2>4
<1>9. CASE ParsePrefixCreate
    <2> DEFINE flags == {"--force"}
               options == {"--arch"}
               p == SecondPass(HomeJson(words), flags, options, FALSE, 1, FALSE)
    <2>1. UNCHANGED line /\ parsed' = NeedsOperands(p, 1)
        BY <1>9 DEF ParsePrefixCreate, Is, words
    <2>2. flags \cap options = {}
        OBVIOUS
    <2> HIDE DEF flags, options
    <2>3. CliTyped(p) /\ Counted(p, words)
        BY <1>1, <2>2, SecondPassIs
    <2> HIDE DEF p
    <2> QED
        BY <1>3, <2>1, <2>3, NeedsTyped
<1>10. CASE ParseRecipes
    <2>1. CASE Is("recipes plan") /\ parsed' = FirstItems(words, 1, 1)
        <3>1. UNCHANGED line /\ line.cmd \in PassOver
            BY <2>1 DEF Is, PassOver
        <3>2. CliTyped(parsed')
            BY <1>1, <2>1, FirstItemsTyped
        <3> QED
            BY <1>4, <3>1, <3>2
    <2> DEFINE none == {}
               p == SecondPass(HomeJson(words), none, none, TRUE, 1, TRUE)
    <2>2. CASE Is("recipes apply") /\ parsed' = IF p.prefixes = << >> THEN Rejected ELSE NeedsOperands(p, 1)
        <3>1. UNCHANGED line /\ (parsed' = Rejected \/ parsed' = NeedsOperands(p, 1))
            BY <2>2 DEF Is
        <3>2. none \cap none = {}
            OBVIOUS
        <3> HIDE DEF none
        <3>3. CliTyped(p) /\ Counted(p, words)
            BY <1>1, <3>2, SecondPassIs
        <3> HIDE DEF p
        <3>4. CliTyped(NeedsOperands(p, 1)) /\ Counted(NeedsOperands(p, 1), words)
            BY <3>3, NeedsTyped
        <3> QED
            BY <1>3, <3>1, <3>4, RejectedIs
    <2> QED
        BY <1>10, <2>1, <2>2 DEF ParseRecipes, words
<1>11. CASE ParseMatrix
    <2> DEFINE s == HomeJson(words)
               r == Done(Loop(StatusWord, Emptied(s), s.operands))
    <2>1. CASE Is("matrix get") /\ parsed' = FirstItems(words, 1, 1)
        <3>1. UNCHANGED line /\ line.cmd \in PassOver
            BY <2>1 DEF Is, PassOver
        <3>2. CliTyped(parsed')
            BY <1>1, <2>1, FirstItemsTyped
        <3> QED
            BY <1>4, <3>1, <3>2
    <2>2. CASE /\ Is("matrix set")
               /\ parsed' = IF s.state = "error" \/ ~HasStatus(r) THEN Rejected ELSE NeedsOperands(r, 1)
        <3>1. UNCHANGED line /\ line.cmd \in PassOver
            BY <2>2 DEF Is, PassOver
        <3>2. s = Rejected \/ (s \in CliRecord(CliItem) /\ s.state = "ok" /\ s.want = Nothing)
            BY <1>1, HomeJsonIs
        <3> HIDE DEF s
        <3>3. CASE s = Rejected
            <4>1. parsed' = Rejected
                BY <2>2, <3>3, RejectedIs
            <4> QED
                BY <1>4, <3>1, <4>1, RejectedIs
        <3>4. CASE s \in CliRecord(CliItem)
            <4>1. CliTyped(r)
                BY <3>4, StatusIs
            <4> HIDE DEF r
            <4>2. parsed' = Rejected \/ parsed' = r
                BY <2>2 DEF NeedsOperands
            <4>3. CliTyped(parsed')
                BY <4>1, <4>2, RejectedIs
            <4> QED
                BY <1>4, <3>1, <4>3
        <3> QED
            BY <3>2, <3>3, <3>4
    <2> QED
        BY <1>11, <2>1, <2>2 DEF ParseMatrix, words
<1>12. CASE ParseEngine \/ ParseDoctor \/ ParseDevices \/ ParseMfp
    <2>1. UNCHANGED line /\ \E known : parsed' = OnlyWords(words, known)
        BY <1>12 DEF ParseEngine, ParseDoctor, ParseDevices, ParseMfp, Is, words
    <2>2. PICK known : parsed' = OnlyWords(words, known)
        BY <2>1
    <2>3. CliTyped(OnlyWords(words, known)) /\ Counted(OnlyWords(words, known), words)
        BY <1>1, OnlyWordsIs
    <2> QED
        BY <1>3, <2>1, <2>2, <2>3
<1>13. CASE ParseOpen
    <2> DEFINE p == Scan(words, {"--install", "--run", "--auto"}, {})
    <2>1. UNCHANGED line /\ (parsed' = Rejected \/ parsed' = p)
        BY <1>13 DEF ParseOpen, Is, words
    <2>2. CliTyped(p) /\ Counted(p, words)
        BY <1>1, OpenIs
    <2> HIDE DEF p
    <2> QED
        BY <1>3, <2>1, <2>2, RejectedIs
<1>14. CASE ParseRun
    <2> DEFINE p == Done(Loop(RunWord, Fresh, words))
    <2>1. UNCHANGED line /\ parsed' = NeedsOperands(p, 1)
        BY <1>14 DEF ParseRun, Is, words
    <2>2. CliTyped(p) /\ Counted(p, words)
        BY <1>1, RunIs
    <2> HIDE DEF p
    <2> QED
        BY <1>3, <2>1, <2>2, NeedsTyped
<1>15. CASE ParseInstall \/ ParseRepair \/ ParseProfile \/ ParseConfig
    <2>1. /\ UNCHANGED line /\ line.cmd \in PassOver
          /\ parsed' = FirstWords(words, 1) \/ parsed' = FirstWords(words, 2)
        BY <1>15 DEF ParseInstall, ParseRepair, ParseProfile, ParseConfig, Is, PassOver, words
    <2>2. CliTyped(parsed')
        BY <2>1, FirstWordsTyped
    <2> QED
        BY <1>4, <2>1, <2>2
<1>16. CASE ParseApps
    <2> DEFINE flags == {"--json"}
               options == {"--home", "--prefix", "--set", "--apply", "--grant", "--revoke"}
               r == Done(Scan(words, flags, options))
               sub == IF r.operands = << >> THEN "list" ELSE r.operands[1]
               used == [r EXCEPT !.values = {v \in @ : v[1] \in Uses(sub)},
                                 !.operands = SubSeq(@, 1, SmallerNat(Len(@), Takes(sub)))]
    <2>1. /\ UNCHANGED line /\ line.cmd \in PassOver
          /\ parsed' = IF r.state = "error" \/ sub \notin AppsSubcommand
                          \/ Len(r.operands) < Needs(sub) THEN Rejected ELSE used
        BY <1>16 DEF ParseApps, Is, PassOver, words
    <2>2. flags \cap options = {}
        OBVIOUS
    <2> HIDE DEF flags, options
    <2>3. r = Rejected \/ (r \in CliRecord(CliWord) /\ r.state = "ok" /\ r.want = Nothing)
        BY <1>1, <2>2, AppsIs
    <2> HIDE DEF r, sub
    <2>4. CASE r = Rejected
        <3>1. parsed' = Rejected
            BY <2>1, <2>4, RejectedIs
        <3> QED
            BY <1>4, <2>1, <3>1, RejectedIs
    <2>5. CASE r \in CliRecord(CliWord) /\ r.state = "ok" /\ r.want = Nothing
        <3>1. used.state = "ok" /\ used.want = Nothing
            BY <2>5 DEF CliRecord
        <3> HIDE DEF used
        <3>2. CliTyped(used)
            BY <3>1 DEF CliTyped
        <3>3. parsed' = Rejected \/ parsed' = used
            BY <2>1
        <3>4. CliTyped(parsed')
            BY <3>2, <3>3, RejectedIs
        <3> QED
            BY <1>4, <2>1, <3>4
    <2> QED
        BY <2>3, <2>4, <2>5
<1>17. ASSUME CliNext PROVE CliInv'
    BY <1>5, <1>6, <1>7, <1>8, <1>9, <1>10, <1>11, <1>12, <1>13, <1>14, <1>15, <1>16, <1>17 DEF CliNext
<1> QED
    BY <1>2, <1>17

\* What the invariant says of a line and its command.
LEMMA CliInvShows ==
    ASSUME CliInv PROVE CliTypeOK /\ NoWordDropped
<1>1. NotYet.state = "none" /\ NotYet.operands = << >> /\ NotYet.values = {} /\ NotYet.want = Nothing
    BY DEF NotYet
<1>2. CliTypeOK
    BY <1>1 DEF CliInv, CliTyped, CliTypeOK
<1>3. NoWordDropped
    BY DEF CliInv, Counted, TookMark, NoWordDropped
<1> QED
    BY <1>2, <1>3

\* cli.rs: no subcommand drops a word or counts it twice, whatever the words
\* are and however many; and what a line becomes is a command or an error.
THEOREM CliCountsWords == CliSpec => [](CliTypeOK /\ NoWordDropped)
<1> USE LinesAssumption
<1>1. (\E l \in Lines : CliInit(l)) => CliInv
    BY InitCli
<1>2. CliInv /\ [CliNext]_cliVars => CliInv'
    BY NextCli
<1>3. CliInv => CliTypeOK /\ NoWordDropped
    BY CliInvShows
<1> QED
    BY <1>1, <1>2, <1>3, PTL DEF CliSpec

-----------------------------------------------------------------------------
(* The shim and its marker.                                                *)

\* What the command under way has done so far.
StepInv ==
    /\ step.at \in {"check", "copy", "override", "line", "marker"} => step.recipe = "crypt32"
    /\ step.at \in {"boot", "check"} => step.installed = {}
    /\ step.at = "winetricks" => step.recipe # "crypt32"
    /\ step.at \in {"copy", "override", "line", "marker"} =>
           \A s \in step.installed : shims[s] # "none"
    /\ step.at \in {"override", "line", "marker"} => step.installed # {}
    /\ step.at \in {"line", "marker"} => "override" \in regFiles
    /\ step.at = "marker" => "line" \in regFiles
    /\ step.at = "record" /\ step.recipe = "crypt32" /\ step.status = "PASS" => marker

RecipesInv == RecipesTypeOK /\ MarkerMeansShim /\ StepInv

LEMMA InitRecipes ==
    ASSUME NEW h \in HasType, NEW v \in Tools, RecipesInit(h, v)
    PROVE  RecipesInv
<1>1. RecipesTypeOK
    BY DEF RecipesInit, RecipesTypeOK, NoStep, NothingApplied, Recipe
<1>2. applied["crypt32"] = "none" /\ ~marker /\ step.at = "idle"
    BY DEF RecipesInit, NoStep, NothingApplied, Recipe
<1> QED
    BY <1>1, <1>2 DEF RecipesInv, MarkerMeansShim, StepInv

\* An error or a kill changes nothing that the invariant is about.
LEMMA Ended ==
    ASSUME RecipesInv, Ends, UNCHANGED <<shims, regFiles, marker, applied, vendored, torn>>,
           has' \in HasType
    PROVE  RecipesInv'
<1>1. step'.at = "idle" /\ RecipesTypeOK'
    BY DEF Ends, NoStep, RecipesInv, RecipesTypeOK, Recipe
<1> QED
    BY <1>1 DEF RecipesInv, MarkerMeansShim, StepInv

LEMMA NextRecipes == RecipesInv /\ [RecipesNext]_recipeVars => RecipesInv'
<1> SUFFICES ASSUME RecipesInv, [RecipesNext]_recipeVars PROVE RecipesInv'
    OBVIOUS
<1> USE DEF RecipesInv
<1>1. ASSUME NEW r \in Recipe, ApplyRecipe(r) PROVE RecipesInv'
    <2>1. /\ step' \in [at : {"boot", "check", "winetricks"}, recipe : {r},
                        installed : {{}}, status : {"none"}]
          /\ step'.at = "check" => r = "crypt32"
          /\ step'.at = "winetricks" => r # "crypt32"
        BY <1>1 DEF ApplyRecipe, NoStep
    <2>2. UNCHANGED <<has, shims, regFiles, marker, applied, torn, vendored>>
        BY <1>1 DEF ApplyRecipe
    <2> QED
        BY <2>1, <2>2 DEF RecipesTypeOK, MarkerMeansShim, StepInv
<1>2. ASSUME NEW ok \in BOOLEAN, Wineboot(ok) PROVE RecipesInv'
    <2>1. CASE ok
        <3>1. \/ step.recipe = "crypt32" /\ step' = [step EXCEPT !.at = "check"]
              \/ step.recipe # "crypt32" /\ step' = [step EXCEPT !.at = "winetricks"]
            BY <1>2, <2>1 DEF Wineboot, Then
        <3>2. has' = [filled |-> "booted", sys32 |-> TRUE, wow64 |-> TRUE] /\ step.at = "boot"
            BY <1>2, <2>1 DEF Wineboot, Now
        <3>3. has' \in HasType
            BY <3>2 DEF HasType
        <3>4. UNCHANGED <<shims, regFiles, marker, applied, torn, vendored>>
            BY <1>2 DEF Wineboot
        <3> QED
            BY <3>1, <3>2, <3>3, <3>4 DEF RecipesTypeOK, MarkerMeansShim, StepInv
    <2>2. CASE ~ok
        <3>1. Ends /\ has' \in HasType
              /\ UNCHANGED <<shims, regFiles, marker, applied, torn, vendored>>
            BY <1>2, <2>2 DEF Wineboot, HasType, RecipesTypeOK
        <3> QED
            BY <3>1, Ended
    <2> QED
        BY <2>1, <2>2
<1>3. CASE CheckShim \/ Copied \/ WriteMarker
    <2>1. /\ UNCHANGED <<has, shims, regFiles, applied, torn, vendored>>
          /\ marker' \in BOOLEAN /\ (marker => marker')
        BY <1>3 DEF CheckShim, Copied, WriteMarker, RecipesTypeOK
    <2>2. CASE CheckShim
        <3>1. /\ UNCHANGED marker /\ step.at = "check"
              /\ \/ step' = [step EXCEPT !.at = "record", !.status = "FAIL"]
                 \/ step' = [step EXCEPT !.at = "copy"]
            BY <2>2 DEF CheckShim, Now, Then, Records
        <3>2. RecipesTypeOK' /\ MarkerMeansShim'
            BY <2>1, <3>1 DEF RecipesTypeOK, MarkerMeansShim
        <3>3. StepInv'
            BY <2>1, <3>1 DEF StepInv, RecipesTypeOK
        <3> QED
            BY <3>2, <3>3
    <2>3. CASE Copied
        <3>1. /\ UNCHANGED marker /\ step.at = "copy"
              /\ \/ step' = [step EXCEPT !.at = "record", !.status = "FAIL"]
                 \/ step.installed # {} /\ step' = [step EXCEPT !.at = "override"]
            BY <2>3 DEF Copied, Now, Then, Records
        <3>2. RecipesTypeOK' /\ MarkerMeansShim'
            BY <2>1, <3>1 DEF RecipesTypeOK, MarkerMeansShim
        <3>3. StepInv'
            <4>1. CASE step' = [step EXCEPT !.at = "record", !.status = "FAIL"]
                <5>1. step'.at = "record" /\ step'.status = "FAIL"
                    BY <4>1 DEF RecipesTypeOK
                <5> QED
                    BY <5>1 DEF StepInv
            <4>2. CASE step.installed # {} /\ step' = [step EXCEPT !.at = "override"]
                <5>1. /\ step'.at = "override" /\ step'.recipe = step.recipe
                      /\ step'.installed = step.installed /\ step.installed # {}
                    BY <4>2 DEF RecipesTypeOK
                <5> QED
                    BY <5>1, <2>1, <3>1 DEF StepInv
            <4> QED
                BY <3>1, <4>1, <4>2
        <3> QED
            BY <3>2, <3>3
    <2>4. CASE WriteMarker
        <3>1. "override" \in regFiles /\ "line" \in regFiles /\ \E s \in Shim : shims[s] # "none"
            BY <2>4 DEF WriteMarker, Now, RecipesTypeOK, StepInv
        <3>2. marker' = TRUE /\ step' = [step EXCEPT !.at = "record", !.status = "PASS"]
            BY <2>4 DEF WriteMarker, Records
        <3>3. MarkerMeansShim'
            <4>1. regFiles \subseteq {"override", "line"}
                BY DEF RecipesTypeOK
            <4>2. regFiles = {"override", "line"}
                BY <3>1, <4>1
            <4> QED
                BY <2>1, <3>1, <3>2, <4>2 DEF MarkerMeansShim
        <3> QED
            BY <2>1, <3>2, <3>3 DEF RecipesTypeOK, StepInv
    <2> QED
        BY <1>3, <2>2, <2>3, <2>4
<1>4. ASSUME NEW s \in Shim, NEW whole \in BOOLEAN, CopyShim(s, whole) PROVE RecipesInv'
    <2>1. /\ shims' \in [Shim -> {"none", "cut", "whole"}] /\ shims'[s] # "none"
          /\ \A t \in Shim : shims[t] # "none" => shims'[t] # "none"
          /\ UNCHANGED <<has, regFiles, marker, applied, torn, vendored>> /\ step.at = "copy"
        BY <1>4 DEF CopyShim, Now, RecipesTypeOK
    <2>2. \/ step' = [step EXCEPT !.installed = @ \union {s}]
          \/ step' = NoStep
        BY <1>4 DEF CopyShim, Ends
    <2>3. CASE step' = NoStep
        BY <2>1, <2>3 DEF NoStep, RecipesTypeOK, Recipe, MarkerMeansShim, StepInv
    <2>4. CASE step' = [step EXCEPT !.installed = @ \union {s}]
        BY <2>1, <2>4 DEF RecipesTypeOK, MarkerMeansShim, StepInv
    <2> QED
        BY <2>2, <2>3, <2>4
<1>5. ASSUME NEW f \in {"override", "line"}, NEW next \in {"line", "marker"},
             Import(f, next), next = "marker" <=> f = "line"
      PROVE  RecipesInv'
    <2>1. /\ regFiles' = regFiles \union {f} /\ step.at = f
          /\ UNCHANGED <<has, shims, marker, applied, torn, vendored>>
          /\ step' = [step EXCEPT !.at = next] \/ step' = NoStep
        BY <1>5 DEF Import, Now, Then, Ends
    <2>2. CASE step' = NoStep
        BY <2>1, <2>2 DEF NoStep, RecipesTypeOK, Recipe, MarkerMeansShim, StepInv
    <2>3. CASE step' = [step EXCEPT !.at = next]
        BY <1>5, <2>1, <2>3 DEF RecipesTypeOK, MarkerMeansShim, StepInv
    <2> QED
        BY <2>1, <2>2, <2>3
<1>6. CASE Winetricks
    <2>1. /\ UNCHANGED <<has, shims, regFiles, marker, applied, torn, vendored>>
          /\ step.recipe # "crypt32"
        BY <1>6 DEF Winetricks, Now, StepInv
    <2>2. \/ \E status \in {"PASS", "FAIL", "PARTIAL"} : Records(status)
          \/ Ends
        BY <1>6 DEF Winetricks
    <2>3. CASE Ends
        BY <2>1, <2>3, Ended DEF RecipesTypeOK
    <2>4. ASSUME NEW status \in {"PASS", "FAIL", "PARTIAL"}, Records(status) PROVE RecipesInv'
        BY <2>1, <2>4 DEF Records, RecipesTypeOK, MarkerMeansShim, StepInv
    <2> QED
        BY <2>2, <2>3, <2>4
<1>7. ASSUME NEW whole \in BOOLEAN, Record(whole) PROVE RecipesInv'
    <2>1. /\ step' = NoStep /\ step.at = "record" /\ torn' \in BOOLEAN
          /\ UNCHANGED <<has, shims, regFiles, marker, vendored>>
          /\ \/ applied' = [applied EXCEPT ![step.recipe] = step.status]
             \/ applied' = NothingApplied
        BY <1>7 DEF Record, Now, Ends
    <2>2. applied'["crypt32"] = "PASS" => marker
        BY <2>1 DEF NothingApplied, RecipesTypeOK, MarkerMeansShim, StepInv, Recipe
    <2>3. applied' \in [Recipe -> {"none", "PASS", "PARTIAL", "FAIL"}]
        BY <2>1 DEF NothingApplied, RecipesTypeOK
    <2> QED
        BY <2>1, <2>2, <2>3 DEF NoStep, RecipesTypeOK, Recipe, MarkerMeansShim, StepInv
<1>8. CASE Stopped
    BY <1>8, Ended DEF Stopped, RecipesTypeOK
<1>9. CASE Recreated
    <2>1. ~marker' /\ applied' = NothingApplied /\ step' = step /\ step.at = "idle"
        BY <1>9 DEF Recreated, Now
    <2>2. RecipesTypeOK'
        BY <1>9 DEF Recreated, RecipesTypeOK, HasType, NothingApplied
    <2> QED
        BY <2>1, <2>2 DEF NothingApplied, Recipe, MarkerMeansShim, StepInv
<1>10. ASSUME NEW v \in Tools, ToolsChange(v) PROVE RecipesInv'
    BY <1>10 DEF ToolsChange, RecipesTypeOK, MarkerMeansShim, StepInv
<1>11. CASE UNCHANGED recipeVars
    BY <1>11 DEF recipeVars, RecipesTypeOK, MarkerMeansShim, StepInv
<1>12. ASSUME RecipesNext PROVE RecipesInv'
    BY <1>1, <1>2, <1>3, <1>4, <1>5, <1>6, <1>7, <1>8, <1>9, <1>10, <1>12 DEF RecipesNext
<1> QED
    BY <1>11, <1>12

\* Whichever writes fail, and wherever commands are killed, in a prefix of any
\* state: the marker is there only with a DLL of the shim and both .reg files,
\* and a PASS of the recipe is recorded only with the marker.
THEOREM MarkersTell == RecipesSpec => []MarkerMeansShim
<1>1. RecipesInv => MarkerMeansShim
    BY DEF RecipesInv
<1>2. (\E h \in HasType, v \in Tools : RecipesInit(h, v)) => RecipesInv
    BY InitRecipes
<1> QED
    BY <1>1, <1>2, NextRecipes, PTL DEF RecipesSpec

-----------------------------------------------------------------------------
(* Programs and the entry of the app.                                      *)

\* What the command under way has done so far, and where the program of a saved
\* entry can be.
DeedInv ==
    /\ deed.at # "idle" => deed.bottle \in Bottle /\ deed.what # "none"
    /\ deed.at \in {"recipe", "stage", "copy"} => deed.what \in {"catalog", "path"}
    /\ deed.at = "copy" => filling[deed.bottle] # "none"
    /\ deed.at = "save" /\ deed.what = "catalog" => program[deed.bottle][deed.exe] # "none"
    /\ app.state # "none" => app.home \in Bottle

ProgramsInv == ProgramsTypeOK /\ CatalogEntryHasPe /\ DeedInv

\* What LooksInitialized means.
LEMMA Looks ==
    CatalogEntryHasPe <=>
        /\ Listed /\ app.source = "catalog" /\ ~removed => program[app.home][app.exe] # "none"
        /\ \A b \in Bottle : program[b] # NoFiles => filling[b] # "none"
  BY DEF CatalogEntryHasPe, LooksInitialized

LEMMA InitPrograms == ProgramsInit => ProgramsInv
<1> SUFFICES ASSUME ProgramsInit PROVE ProgramsInv
    OBVIOUS
<1>1. NoFiles \in [Exe -> Copy]
    BY DEF NoFiles, Copy
<1>2. ProgramsTypeOK
    BY <1>1 DEF ProgramsInit, ProgramsTypeOK, NotInstalled, NoDeed, Exe
<1>3. CatalogEntryHasPe
    BY DEF ProgramsInit, CatalogEntryHasPe, Listed, NotInstalled
<1> QED
    BY <1>2, <1>3 DEF ProgramsInv, DeedInv, ProgramsInit, NotInstalled, NoDeed

\* Where a command goes on to.
Advances ==
    \/ Over
    \/ deed.what = "catalog" /\ deed' = [deed EXCEPT !.at = "recipe"]
    \/ deed.what \in {"catalog", "path"} /\ deed' = [deed EXCEPT !.at = "stage"]
    \/ /\ deed.what \in {"catalog", "path"} /\ filling'[deed.bottle] # "none"
       /\ deed' = [deed EXCEPT !.at = "copy"]
    \/ deed.what # "catalog" /\ deed' = [deed EXCEPT !.at = "save"]
    \/ deed' = [deed EXCEPT !.at = "mirror"]
    \/ deed' = deed

Deed ==
    [at : {"idle", "create", "recipe", "stage", "copy", "save", "mirror"},
     what : {"none", "catalog", "path", "prefix", "force"},
     bottle : Bottle \union {NoBottle}, exe : Exe]

LEMMA DeedType ==
    ASSUME ProgramsTypeOK, Advances PROVE deed' \in Deed
<1>1. deed \in Deed
    BY DEF ProgramsTypeOK, Deed
<1>2. NoDeed \in Deed
    BY DEF NoDeed, Deed, Exe
<1> QED
    BY <1>1, <1>2 DEF Advances, Over, Deed

\* The steps that leave program and entry alone and empty no prefix.
LEMMA DeedStep ==
    ASSUME ProgramsInv, UNCHANGED <<program, app, removed>>, mirrored' \in BOOLEAN,
           filling' \in [Bottle -> {"none", "looks", "booted"}],
           \A b \in Bottle : filling[b] # "none" => filling'[b] # "none",
           deed.at # "idle" \/ deed' = deed, Advances
    PROVE  ProgramsInv'
<1>1. ProgramsTypeOK'
    BY DeedType DEF ProgramsInv, ProgramsTypeOK, Deed
<1>2. DeedInv'
    BY DEF ProgramsInv, ProgramsTypeOK, DeedInv, Advances, Over, NoDeed
<1>3. CatalogEntryHasPe'
    BY DEF ProgramsInv, CatalogEntryHasPe, Listed, LooksInitialized
<1> QED
    BY <1>1, <1>2, <1>3 DEF ProgramsInv

\* The commands of create_prefix go on to a recipe, to the staging or to the end.
LEMMA GoesOnAdvances ==
    ASSUME ProgramsInv, deed.at # "idle", GoesOn
    PROVE  Advances /\ deed'.at # "copy" /\ (deed'.at = "save" => deed'.what # "catalog")
<1>1. deed \in Deed /\ deed.what # "none"
    BY DEF ProgramsInv, ProgramsTypeOK, DeedInv, Deed
<1>2. \/ deed.what = "catalog" /\ deed' = [deed EXCEPT !.at = "recipe"]
      \/ deed.what = "path" /\ deed' = [deed EXCEPT !.at = "stage"]
      \/ deed.what = "prefix" /\ deed' = [deed EXCEPT !.at = "save"]
      \/ deed.what = "force" /\ deed' = NoDeed
    BY <1>1 DEF GoesOn, Proceeds, Over, Deed
<1> QED
    BY <1>1, <1>2 DEF Advances, Over, NoDeed, Deed

\* The steps in a prefix that leave what the program's directory holds, or add
\* a file to it.
LEMMA CopyStep ==
    ASSUME ProgramsInv, NEW how \in Copy, deed.at = "copy", CopyResult(how),
           UNCHANGED <<filling, app, mirrored, removed>>,
           \/ Over
           \/ /\ deed' = [deed EXCEPT !.at = "save"]
              /\ how # "none" \/ deed.what # "catalog"
    PROVE  ProgramsInv'
<1> DEFINE b == deed.bottle
           row == [program[b] EXCEPT ![deed.exe] = IF how = "none" THEN @ ELSE how]
<1>1. b \in Bottle /\ deed.exe \in Exe /\ program \in [Bottle -> [Exe -> Copy]]
    BY DEF ProgramsInv, ProgramsTypeOK, DeedInv
<1>2. program' = [program EXCEPT ![b] = row]
    BY DEF CopyResult
<1>3. /\ row \in [Exe -> Copy]
      /\ \A x \in Exe : program[b][x] # "none" => row[x] # "none"
      /\ how # "none" => row[deed.exe] # "none"
    BY <1>1 DEF Copy
<1> HIDE DEF row
<1>4. /\ program' \in [Bottle -> [Exe -> Copy]] /\ program'[b] = row
      /\ \A c \in Bottle \ {b} : program'[c] = program[c]
    BY <1>1, <1>2, <1>3
<1>5. ProgramsTypeOK'
    <2>1. deed' \in Deed
        BY DEF ProgramsInv, ProgramsTypeOK, Over, NoDeed, Deed, Exe
    <2> QED
        BY <2>1, <1>4 DEF ProgramsInv, ProgramsTypeOK, Deed
<1>6. DeedInv'
    BY <1>1, <1>3, <1>4 DEF ProgramsInv, ProgramsTypeOK, DeedInv, Over, NoDeed
<1>7. filling[b] # "none"
    BY DEF ProgramsInv, DeedInv
<1>8. CatalogEntryHasPe'
    <2>1. \A c \in Bottle : program'[c] # NoFiles => filling'[c] # "none"
        BY <1>4, <1>7 DEF ProgramsInv, CatalogEntryHasPe, LooksInitialized
    <2>2. (Listed /\ app.source = "catalog" /\ ~removed)' => program'[app'.home][app'.exe] # "none"
        <3> SUFFICES ASSUME Listed, app.source = "catalog", ~removed
                     PROVE  program'[app.home][app.exe] # "none"
            BY DEF Listed
        <3>1. app.home \in Bottle /\ app.exe \in Exe /\ program[app.home][app.exe] # "none"
            BY DEF ProgramsInv, ProgramsTypeOK, DeedInv, CatalogEntryHasPe, Listed
        <3> QED
            BY <3>1, <1>3, <1>4
    <2> QED
        BY <2>1, <2>2 DEF CatalogEntryHasPe, LooksInitialized
<1> QED
    BY <1>5, <1>6, <1>8 DEF ProgramsInv

\* A prefix that is cloned from the template is emptied first.
LEMMA CloneStep ==
    ASSUME ProgramsInv, NEW how \in {"none", "looks", "booted"}, CreateByClone(how)
    PROVE  ProgramsInv'
<1> DEFINE b == deed.bottle
<1>1. /\ b \in Bottle /\ deed.at = "create"
      /\ filling' = [filling EXCEPT ![b] = how] /\ program' = [program EXCEPT ![b] = NoFiles]
      /\ removed' = (removed \/ app.home = b) /\ UNCHANGED <<app, mirrored>>
    BY DEF CreateByClone, Fills, Does, ProgramsInv, DeedInv
<1>2. Advances /\ deed'.at # "copy" /\ (deed'.at = "save" => deed'.what # "catalog")
    <2>1. CASE Over
        BY <2>1 DEF Over, NoDeed, Advances
    <2>2. CASE GoesOn
        BY <1>1, <2>2, GoesOnAdvances
    <2> QED
        BY <2>1, <2>2 DEF CreateByClone
<1>3. ProgramsTypeOK'
    <2>1. NoFiles \in [Exe -> Copy]
        BY DEF NoFiles, Copy
    <2>2. removed' \in BOOLEAN
        BY <1>1
    <2> QED
        BY <1>1, <1>2, <2>1, <2>2, DeedType DEF ProgramsInv, ProgramsTypeOK, Deed
<1>4. DeedInv'
    BY <1>1, <1>2 DEF ProgramsInv, ProgramsTypeOK, DeedInv, Advances, Over, NoDeed
<1>5. CatalogEntryHasPe'
    <2>1. \A c \in Bottle : program'[c] # NoFiles => filling'[c] # "none"
        BY <1>1 DEF ProgramsInv, ProgramsTypeOK, CatalogEntryHasPe, LooksInitialized
    <2>2. (Listed /\ app.source = "catalog" /\ ~removed)' => program'[app'.home][app'.exe] # "none"
        <3> SUFFICES ASSUME Listed, app.source = "catalog", ~removed'
                     PROVE  program'[app.home][app.exe] # "none"
            BY <1>1 DEF Listed
        <3>1. ~removed /\ app.home # b
            BY <1>1
        <3>2. app.home \in Bottle /\ program[app.home][app.exe] # "none"
            BY <3>1 DEF ProgramsInv, DeedInv, CatalogEntryHasPe, Listed
        <3> QED
            BY <1>1, <3>1, <3>2 DEF ProgramsInv, ProgramsTypeOK
    <2> QED
        BY <2>1, <2>2 DEF CatalogEntryHasPe, LooksInitialized
<1> QED
    BY <1>3, <1>4, <1>5 DEF ProgramsInv

LEMMA NextPrograms == ProgramsInv /\ [ProgramsNext]_programVars => ProgramsInv'
<1> SUFFICES ASSUME ProgramsInv, [ProgramsNext]_programVars PROVE ProgramsInv'
    OBVIOUS
<1> USE DEF ProgramsInv
<1>1. ASSUME NEW what \in {"catalog", "path", "prefix", "force"}, NEW b \in Bottle, NEW x \in Exe,
             StartDeed(what, b, x)
      PROVE  ProgramsInv'
    <2>1. /\ deed' = [at |-> "create", what |-> what, bottle |-> b, exe |-> x]
          /\ UNCHANGED <<filling, program, app, mirrored, removed>>
        BY <1>1 DEF StartDeed
    <2> QED
        BY <2>1 DEF ProgramsTypeOK, DeedInv, CatalogEntryHasPe, Listed, LooksInitialized
<1>2. ASSUME NEW b \in Bottle,
             \/ InstallCatalog(b) \/ SetPrefix(b) \/ ForceCreate(b)
             \/ \E x \in Exe : InstallPath(b, x)
      PROVE  ProgramsInv'
    <2>1. CatalogExe \in Exe
        BY DEF Exe
    <2> QED
        BY <1>1, <1>2, <2>1 DEF InstallCatalog, SetPrefix, ForceCreate, InstallPath
<1>3. CASE UseCreated
    BY <1>3, DeedStep, GoesOnAdvances DEF UseCreated, Does, ProgramsTypeOK
<1>4. ASSUME NEW how \in {"none", "looks", "booted"}, CreateByClone(how) PROVE ProgramsInv'
    BY <1>4, CloneStep
<1>5. ASSUME NEW how \in {"same", "looks", "booted"}, NEW passes \in BOOLEAN,
             CreateByWineboot(how, passes)
      PROVE  ProgramsInv'
    <2>1. /\ deed.at = "create" /\ deed.bottle \in Bottle
          /\ filling' = filling \/ filling' = [filling EXCEPT ![deed.bottle] = how]
          /\ how = "same" => filling' = filling
          /\ UNCHANGED <<program, app, mirrored, removed>>
        BY <1>5 DEF CreateByWineboot, Does, Fills, DeedInv
    <2>2. Advances
        BY <1>5, <2>1, GoesOnAdvances DEF CreateByWineboot, Advances
    <2>3. /\ filling' \in [Bottle -> {"none", "looks", "booted"}]
          /\ \A b \in Bottle : filling[b] # "none" => filling'[b] # "none"
        BY <2>1 DEF ProgramsTypeOK
    <2> QED
        BY <2>1, <2>2, <2>3, DeedStep DEF ProgramsTypeOK
<1>6. CASE RecommendedRecipe
    <2>1. /\ deed.at = "recipe" /\ deed.bottle \in Bottle /\ deed.what \in {"catalog", "path"}
          /\ deed' = [deed EXCEPT !.at = "stage"]
          /\ UNCHANGED <<program, app, mirrored, removed>>
          /\ \/ filling' = filling
             \/ \E how \in {"looks", "booted"} : filling' = [filling EXCEPT ![deed.bottle] = how]
        BY <1>6 DEF RecommendedRecipe, Does, Proceeds, Fills, DeedInv
    <2>2. /\ filling' \in [Bottle -> {"none", "looks", "booted"}]
          /\ \A b \in Bottle : filling[b] # "none" => filling'[b] # "none"
        BY <2>1 DEF ProgramsTypeOK
    <2> QED
        BY <2>1, <2>2, DeedStep DEF Advances, ProgramsTypeOK
<1>7. CASE StageDir
    <2>1. /\ deed.at = "stage" /\ deed.bottle \in Bottle /\ deed.what \in {"catalog", "path"}
          /\ deed' = [deed EXCEPT !.at = "copy"]
          /\ UNCHANGED <<program, app, mirrored, removed>>
          /\ filling' = [filling EXCEPT ![deed.bottle] =
                             IF LooksInitialized(deed.bottle) THEN @ ELSE "looks"]
        BY <1>7 DEF StageDir, Does, Proceeds, DeedInv
    <2>2. /\ filling' \in [Bottle -> {"none", "looks", "booted"}]
          /\ \A b \in Bottle : filling[b] # "none" => filling'[b] # "none"
          /\ filling'[deed.bottle] # "none"
        BY <2>1 DEF ProgramsTypeOK, LooksInitialized
    <2> QED
        BY <2>1, <2>2, DeedStep DEF Advances, ProgramsTypeOK
<1>8. ASSUME NEW how \in Copy, StagePe(how) PROVE ProgramsInv'
    BY <1>8, CopyStep DEF StagePe, Does, Proceeds
<1>9. ASSUME NEW how \in Copy, StageOwn(how) PROVE ProgramsInv'
    BY <1>9, CopyStep DEF StageOwn, Does, Proceeds
<1>10. CASE SaveEntry
    <2>1. /\ deed.at = "save" /\ deed.what \in {"catalog", "path"} /\ deed.bottle \in Bottle
          /\ app' = [state |-> "installed", source |-> deed.what, bottle |-> deed.bottle,
                     home |-> deed.bottle, exe |-> deed.exe]
          /\ removed' = FALSE /\ deed' = [deed EXCEPT !.at = "mirror"]
          /\ UNCHANGED <<filling, program, mirrored>>
        BY <1>10 DEF SaveEntry, Does, Proceeds, DeedInv
    <2>2. ProgramsTypeOK'
        BY <2>1 DEF ProgramsTypeOK
    <2>3. DeedInv'
        BY <2>1 DEF ProgramsTypeOK, DeedInv
    <2>4. CatalogEntryHasPe'
        BY <2>1 DEF DeedInv, CatalogEntryHasPe, LooksInitialized
    <2> QED
        BY <2>2, <2>3, <2>4
<1>11. CASE SavePrefix
    <2>1. /\ deed.at = "save" /\ deed.bottle \in Bottle
          /\ app' = [app EXCEPT !.bottle = deed.bottle] /\ deed' = NoDeed
          /\ UNCHANGED <<filling, program, mirrored, removed>>
        BY <1>11 DEF SavePrefix, Does, Over, DeedInv
    <2>2. /\ app'.state = app.state /\ app'.source = app.source
          /\ app'.home = app.home /\ app'.exe = app.exe
        BY <2>1 DEF ProgramsTypeOK
    <2>3. ProgramsTypeOK'
        BY <2>1 DEF ProgramsTypeOK, NoDeed, Exe
    <2> QED
        BY <2>1, <2>2, <2>3
        DEF DeedInv, NoDeed, CatalogEntryHasPe, Listed, LooksInitialized
<1>12. CASE Mirror \/ DeedStops
    <2>1. /\ UNCHANGED <<filling, program, app, removed>> /\ mirrored' \in BOOLEAN
          /\ deed.at # "idle" /\ Over
        BY <1>12 DEF Mirror, DeedStops, Does, ProgramsTypeOK
    <2> QED
        BY <2>1, DeedStep DEF Advances, ProgramsTypeOK
<1>13. CASE UninstallApp
    <2>1. /\ app' = [app EXCEPT !.state = "removed"] /\ app.state # "none"
          /\ UNCHANGED <<filling, program, mirrored, deed, removed>>
        BY <1>13 DEF UninstallApp
    <2>2. app'.state = "removed" /\ app'.home = app.home
        BY <2>1 DEF ProgramsTypeOK
    <2>3. ProgramsTypeOK'
        BY <2>1 DEF ProgramsTypeOK
    <2> QED
        BY <2>1, <2>2, <2>3 DEF DeedInv, CatalogEntryHasPe, Listed, LooksInitialized
<1>14. CASE LaunchApp
    <2>1. /\ filling' = [filling EXCEPT ![app.bottle] = "booted"]
          /\ UNCHANGED <<program, app, mirrored, deed, removed>>
        BY <1>14 DEF LaunchApp, Fills
    <2>2. /\ filling' \in [Bottle -> {"none", "looks", "booted"}]
          /\ \A b \in Bottle : filling[b] # "none" => filling'[b] # "none"
        BY <2>1 DEF ProgramsTypeOK
    <2> QED
        BY <2>1, <2>2, DeedStep DEF Advances, ProgramsTypeOK
<1>15. CASE UNCHANGED programVars
    BY <1>15
    DEF programVars, ProgramsTypeOK, DeedInv, CatalogEntryHasPe, Listed, LooksInitialized
<1>16. ASSUME ProgramsNext PROVE ProgramsInv'
    BY <1>2, <1>3, <1>4, <1>5, <1>6, <1>7, <1>8, <1>9, <1>10, <1>11, <1>12, <1>13, <1>14,
       <1>16
    DEF ProgramsNext
<1> QED
    BY <1>15, <1>16

\* An app installed from the catalog has its program where its entry says, and a
\* prefix that holds a program looks initialized, whichever of its steps an
\* install, a change of prefix or a forced creation fails or is killed at, for
\* any number of prefixes.
THEOREM EntriesHavePrograms == ProgramsSpec => []CatalogEntryHasPe
<1>1. ProgramsInv => CatalogEntryHasPe
    BY DEF ProgramsInv
<1> QED
    BY <1>1, InitPrograms, NextPrograms, PTL DEF ProgramsSpec

-----------------------------------------------------------------------------
(* The parts together.  The invariant of the whole is the invariants of its    *)
(* parts: a step of one part leaves the variables of the others alone.         *)

WholeInv ==
    /\ part \in Parts /\ InstallInv /\ CliInv /\ RunInv /\ CommandInv
    /\ ProgramsInv /\ RecipesInv /\ SystemInv

\* The initial states of a part are among those that its own theorem starts from.
LEMMA InitWhole == MCInit => WholeInv
<1> SUFFICES ASSUME MCInit PROVE WholeInv
    OBVIOUS
<1>1. /\ MCFile \in MCFiles /\ MCFiles \subseteq FileType
      /\ MCEnv \in MCEnvs /\ MCEnvs \subseteq EnvType
    BY MCAssumption DEF MCFile, MCFiles, MCEnv, MCEnvs, FileType, EnvType, MCContents, MCNames
<1>2. /\ MCEmpty \in MCPrefixes /\ MCPrefixes \subseteq HasType /\ MCTools \in Tools
    <2> DEFINE F == {"empty", "looks initialized", "booted"}
               looks == "looks initialized"
               HT == [filled : F, sys32 : BOOLEAN, wow64 : BOOLEAN]
    <2>1. "empty" \in F /\ looks \in F /\ "booted" \in F /\ HasType = HT
        BY DEF HasType
    <2> DEFINE a == [MCEmpty EXCEPT !.filled = looks]
               b == [filled |-> "booted", sys32 |-> TRUE, wow64 |-> FALSE]
               PS == {MCEmpty, a, b}
    <2>2. MCPrefixes = PS
        BY DEF MCPrefixes
    <2> HIDE DEF F, looks
    <2>3. MCEmpty \in HT /\ a \in HT /\ b \in HT
        BY <2>1 DEF MCEmpty
    <2> HIDE DEF HT, a, b
    <2>4. MCEmpty \in PS /\ PS \subseteq HT
        BY <2>3
    <2>5. MCTools \in Tools
        BY DEF MCTools, Tools
    <2> QED
        BY <2>1, <2>2, <2>4, <2>5
<1>3. /\ MCWorld \in Worlds /\ MCWorlds \subseteq Worlds /\ "settings" \in Roles
    BY DEF MCWorld, MCWorlds, Worlds, Roles
<1>4. InstallInv
    BY InitInstall DEF MCInit
<1>5. CliInv
    BY MCAssumption, LinesAssumption, InitCli DEF MCInit
<1>6. RunInv
    BY <1>1, InitRun DEF MCInit
<1>7. CommandInv
    BY MCAssumption, InitCommands DEF MCInit
<1>8. ProgramsInv
    BY InitPrograms DEF MCInit
<1>9. RecipesInv
    BY <1>2, InitRecipes DEF MCInit
<1>10. SystemInv
    BY <1>3, InitSystem DEF MCInit
<1> QED
    BY <1>4, <1>5, <1>6, <1>7, <1>8, <1>9, <1>10 DEF WholeInv, MCInit

\* A step of a part is a step of its own specification, and to every other part
\* a stutter.
LEMMA NextWhole == WholeInv /\ [MCNext]_mcVars => WholeInv'
<1> SUFFICES ASSUME WholeInv, [MCNext]_mcVars PROVE WholeInv'
    OBVIOUS
<1>1. /\ [Next]_vars /\ [CliNext]_cliVars /\ [LauncherNext]_launcherVars
      /\ [CommandNext]_commandVars /\ [ProgramsNext]_programVars
      /\ [RecipesNext]_recipeVars /\ [SystemNext]_systemVars /\ UNCHANGED part
    BY DEF MCNext, mcVars, DiskMoves, CliMoves, RunMoves, CommandsMove, ProgramsMove,
       RecipesMove, SystemMoves
<1>2. InstallInv' /\ RunInv' /\ ProgramsInv' /\ RecipesInv'
    BY <1>1, NextInstall, NextRun, NextPrograms, NextRecipes DEF WholeInv
<1>3. CliInv'
    BY <1>1, LinesAssumption, NextCli DEF WholeInv
<1>4. CommandInv' /\ SystemInv'
    BY <1>1, NextCommands, NextSystem DEF WholeInv
<1> QED
    BY <1>1, <1>2, <1>3, <1>4 DEF WholeInv

\* Whatever part of what a user starts the system with moves, every part keeps
\* its types and what the runs check of it: registry and disk agree, no word of
\* a command line is dropped, exit codes tell, catalog entries have their
\* program, and a marker means the shim.
THEOREM WholeKept ==
    MCSpec => [](/\ PartsTypeOK /\ RegistryMatchesDisk /\ NoWordDropped /\ ExitCodeTells
                 /\ CatalogEntryHasPe /\ MarkerMeansShim)
<1>1. WholeInv => PartsTypeOK
    BY CliInvShows DEF WholeInv, PartsTypeOK, InstallInv, RunInv, CommandInv, ProgramsInv,
       RecipesInv, SystemInv
<1>2. WholeInv => RegistryMatchesDisk /\ NoWordDropped
    BY InstallShows, CliInvShows DEF WholeInv
<1>3. SystemInv => LaunchTells
    BY DEF SystemInv, Answered, Reached, LaunchTells
<1>4. WholeInv => ExitCodeTells /\ CatalogEntryHasPe /\ MarkerMeansShim
    BY <1>3 DEF WholeInv, ExitCodeTells, RunInv, CommandInv, ProgramsInv, RecipesInv
<1> QED
    BY <1>1, <1>2, <1>4, InitWhole, NextWhole, PTL DEF MCSpec
=============================================================================
