------------------------------ MODULE AppRegistry ------------------------------
(***************************************************************************)
(* RegistryStore of strawwu-app-registry (registry.rs): the writers of     *)
(* app-registry.json (launcher, registry CLI, App Manager mirror, package  *)
(* hooks) are processes that share nothing but the file system.            *)
(*                                                                         *)
(* A session opens the lock file and polls flock until a deadline, reads   *)
(* the whole file, changes its copy request by request, writing the whole  *)
(* copy back after each one through a temporary file and rename(2), and    *)
(* releases the lock when the store is dropped.  A process may be killed   *)
(* between any two of these steps.  A process that cannot open the lock    *)
(* file goes on without it (RegistryLock::Bypassed).                       *)
(***************************************************************************)
EXTENDS RegistryFile, Sequences

CONSTANTS Proc,          \* process slots; a slot runs one session at a time
          Nobody,        \* the lock is free
          Torn,          \* a file that is not complete JSON
          Jobs,          \* the sessions programs run: sequences of requests
          Unprivileged,  \* processes that cannot open the lock file for writing
          BypassWrites   \* can those create and rename files in its directory?

ASSUME JobsAssumption == Jobs \subseteq Seq(Request)
ASSUME NobodyAssumption == Nobody \notin Proc
ASSUME TornAssumption == Torn \notin File
ASSUME PrivilegeAssumption == Unprivileged \subseteq Proc /\ BypassWrites \in BOOLEAN

VARIABLES disk,   \* app-registry.json (an absent file reads as EmptyFile)
          tmp,    \* tmp[p]: p's temporary file: "none", "torn" or "whole" (a copy of mem[p])
          lock,   \* holder of the flock on app-registry.json.lock, or Nobody
          pc,     \* pc[p]: where p is in its session
          mem,    \* mem[p]: RegistryStore.data of p
          job     \* job[p]: the requests p has not finished, the current one first

vars == <<disk, tmp, lock, pc, mem, job>>

OpenStates == {"opening", "ready", "creating", "writing", "renaming"}
PcStates   == {"idle", "locking", "waiting"} \union OpenStates

Init ==
    /\ disk = EmptyFile
    /\ tmp  = [p \in Proc |-> "none"]
    /\ lock = Nobody
    /\ pc   = [p \in Proc |-> "idle"]
    /\ mem  = [p \in Proc |-> EmptyFile]
    /\ job  = [p \in Proc |-> <<>>]

Go(p, from, to) == pc[p] = from /\ pc' = [pc EXCEPT ![p] = to]

\* A program starts: it knows what it will ask before it opens the store.
Begin(p) ==
    /\ Go(p, "idle", "locking")
    /\ \E j \in Jobs : job' = [job EXCEPT ![p] = j]
    /\ UNCHANGED <<disk, tmp, lock, mem>>

\* RegistryLock::acquire cannot create or open the lock file: no lock.
Bypass(p) ==
    /\ p \in Unprivileged
    /\ Go(p, "locking", "opening")
    /\ UNCHANGED <<disk, tmp, lock, mem, job>>

\* Mutation: the result of flock is not looked at.
AcquireAlways(p) ==
    /\ p \notin Unprivileged
    /\ Go(p, "locking", "opening") \/ Go(p, "waiting", "opening")
    /\ lock' = p
    /\ UNCHANGED <<disk, tmp, mem, job>>

\* flock(LOCK_EX | LOCK_NB) succeeds, at the first attempt or after a sleep.
Acquire(p) ==
    /\ p \notin Unprivileged
    /\ lock = Nobody
    /\ Go(p, "locking", "opening") \/ Go(p, "waiting", "opening")
    /\ lock' = p
    /\ UNCHANGED <<disk, tmp, mem, job>>

\* flock fails with EWOULDBLOCK: sleep 25 ms and try again.
Busy(p) ==
    /\ p \notin Unprivileged
    /\ lock # Nobody
    /\ Go(p, "locking", "waiting")
    /\ UNCHANGED <<disk, tmp, lock, mem, job>>

\* Mutation: after the deadline the session goes on without the lock.
TimeoutGoesOn(p) ==
    /\ Go(p, "waiting", "opening")
    /\ UNCHANGED <<disk, tmp, lock, mem, job>>

\* Mutation: there is no deadline.
TimeoutNever(p) == FALSE

\* The deadline has passed when an attempt has failed: open_at fails, even
\* if the lock was released since that attempt.
Timeout(p) ==
    /\ Go(p, "waiting", "idle")
    /\ job' = [job EXCEPT ![p] = <<>>]
    /\ UNCHANGED <<disk, tmp, lock, mem>>

\* open_at reads, parses and validates the file; a torn one is an error.
Read(p) ==
    /\ Go(p, "opening", "ready")
    /\ IF disk = Torn
       THEN job' = [job EXCEPT ![p] = <<>>] /\ UNCHANGED mem
       ELSE mem' = [mem EXCEPT ![p] = disk] /\ UNCHANGED job
    /\ UNCHANGED <<disk, tmp, lock>>

\* The current request changes the copy in memory; flush() follows.
Mutate(p) ==
    /\ job[p] # <<>>
    /\ Go(p, "ready", "creating")
    /\ \E f \in Effects(mem[p], Head(job[p])) : mem' = [mem EXCEPT ![p] = f]
    /\ UNCHANGED <<disk, tmp, lock, job>>

\* The current request writes nothing: an error ends a one-request session,
\* a skipped scan entry or an exhausted sync goes on to the next request.
Pass(p) ==
    /\ pc[p] = "ready"
    /\ job[p] # <<>>
    /\ Effects(mem[p], Head(job[p])) = {}
    /\ job' = [job EXCEPT ![p] = Tail(@)]
    /\ UNCHANGED <<disk, tmp, lock, pc, mem>>

\* Mutation: the file is renamed before it is written.
CreateTmpOnly(p) ==
    /\ p \in Unprivileged => BypassWrites
    /\ Go(p, "creating", "renaming")
    /\ tmp' = [tmp EXCEPT ![p] = "torn"]
    /\ UNCHANGED <<disk, lock, mem, job>>

\* flush: File::create(tmp) needs only the right to write the directory.
CreateTmp(p) ==
    /\ p \in Unprivileged => BypassWrites
    /\ Go(p, "creating", "writing")
    /\ tmp' = [tmp EXCEPT ![p] = "torn"]
    /\ UNCHANGED <<disk, lock, mem, job>>

\* flush: write_all and sync_all: all of the copy is on the medium.
WriteTmp(p) ==
    /\ Go(p, "writing", "renaming")
    /\ tmp' = [tmp EXCEPT ![p] = "whole"]
    /\ UNCHANGED <<disk, lock, mem, job>>

\* Mutation: a sync returns after its first removal.
RenameOnce(p) ==
    /\ Go(p, "renaming", "ready")
    /\ disk' = IF tmp[p] = "whole" THEN mem[p] ELSE Torn
    /\ tmp' = [tmp EXCEPT ![p] = "none"]
    /\ job' = [job EXCEPT ![p] = Tail(@)]
    /\ UNCHANGED <<lock, mem>>

\* flush: rename(2) replaces the file; the request is done.  A sync goes on
\* until it has no candidate left.
Rename(p) ==
    /\ Go(p, "renaming", "ready")
    /\ disk' = IF tmp[p] = "whole" THEN mem[p] ELSE Torn
    /\ tmp' = [tmp EXCEPT ![p] = "none"]
    /\ job' = [job EXCEPT ![p] = IF Head(@).cmd = "sync" THEN @ ELSE Tail(@)]
    /\ UNCHANGED <<lock, mem>>

\* Mutation: a scan takes a failed flush for a skipped entry and goes on.
FlushFailGoesOn(p) ==
    /\ \E from \in {"creating", "writing", "renaming"} : Go(p, from, "ready")
    /\ tmp' = IF pc[p] = "renaming" THEN [tmp EXCEPT ![p] = "none"] ELSE tmp
    /\ job' = [job EXCEPT ![p] = Tail(@)]
    /\ UNCHANGED <<disk, lock, mem>>

\* A step of flush fails and the program gives up.  Only a failed rename
\* removes the temporary file.
FlushFail(p) ==
    /\ \E from \in {"creating", "writing", "renaming"} : Go(p, from, "ready")
    /\ tmp' = IF pc[p] = "renaming" THEN [tmp EXCEPT ![p] = "none"] ELSE tmp
    /\ job' = [job EXCEPT ![p] = <<>>]
    /\ UNCHANGED <<disk, lock, mem>>

Release(p) == lock' = IF lock = p THEN Nobody ELSE lock

\* Mutation: the lock is not a part of the store and stays when it is dropped.
LeaveKeepsLock(p) ==
    /\ job[p] = <<>>
    /\ Go(p, "ready", "idle")
    /\ mem' = [mem EXCEPT ![p] = EmptyFile]
    /\ UNCHANGED <<disk, tmp, lock, job>>

\* The store is dropped, and with it the lock file's handle.
Leave(p) ==
    /\ job[p] = <<>>
    /\ Go(p, "ready", "idle")
    /\ mem' = [mem EXCEPT ![p] = EmptyFile]
    /\ Release(p)
    /\ UNCHANGED <<disk, tmp, job>>

\* The process is killed: the kernel releases its flock, its temporary file
\* stays, and no other process reads it.
Crash(p) ==
    /\ pc[p] # "idle"
    /\ pc'  = [pc EXCEPT ![p] = "idle"]
    /\ mem' = [mem EXCEPT ![p] = EmptyFile]
    /\ job' = [job EXCEPT ![p] = <<>>]
    /\ Release(p)
    /\ UNCHANGED <<disk, tmp>>

Step(p) ==
    \/ Bypass(p) \/ Acquire(p) \/ Busy(p) \/ Timeout(p) \/ Read(p)
    \/ Mutate(p) \/ Pass(p) \/ CreateTmp(p) \/ WriteTmp(p) \/ Rename(p)
    \/ FlushFail(p) \/ Leave(p)

Next == \E p \in Proc : Begin(p) \/ Step(p) \/ Crash(p)

Spec == Init /\ [][Next]_vars

\* A running process is scheduled; the deadline bounds its wait for the lock.
\* Nobody has to start a session or to be killed.
FairSpec == Spec /\ \A p \in Proc : WF_vars(Step(p))
--------------------------------------------------------------------------------
TypeOK ==
    /\ disk \in File \union {Torn}
    /\ tmp  \in [Proc -> {"none", "torn", "whole"}]
    /\ lock \in Proc \union {Nobody}
    /\ pc   \in [Proc -> PcStates]
    /\ mem  \in [Proc -> File]
    /\ job  \in [Proc -> Seq(Request)]

\* Two processes that went through the lock never have the store open at the
\* same time (the Held stores of RegistryLock are exclusive).
Exclusive ==
    \A p, q \in Proc \ Unprivileged :
        pc[p] \in OpenStates /\ pc[q] \in OpenStates => p = q

\* open_at always finds a complete file: a process killed anywhere in flush
\* never leaves a truncated one (the comment in flush, registry.rs:590).
NeverTorn == disk # Torn

\* What the lock is for: while a process holds it, the copy in its memory is
\* the file on disk, or that file after the one request being flushed.
HolderIsCurrent ==
    \A p \in Proc : lock = p =>
        /\ pc[p] = "ready" /\ job[p] # <<>> => mem[p] = disk
        /\ pc[p] \in {"creating", "writing", "renaming"} =>
              job[p] # <<>> /\ mem[p] \in Effects(disk, Head(job[p]))

\* The strengthening that makes the invariants inductive: the lock is held
\* exactly by the process that has the store open, the file is complete and
\* will be replaced by a complete one only.
LockInv ==
    /\ TypeOK
    /\ disk \in File
    /\ \A p \in Proc :
          /\ lock = p => pc[p] \in OpenStates /\ p \notin Unprivileged
          /\ pc[p] \in OpenStates /\ p \notin Unprivileged => lock = p
          /\ pc[p] = "renaming" => tmp[p] = "whole"
          /\ pc[p] \in {"creating", "writing", "renaming"} => job[p] # <<>>
          /\ pc[p] = "idle" => job[p] = <<>>

\* With BypassWrites FALSE a process that works without the lock never gets
\* past creating its temporary file.
BypassInv ==
    \A p \in Unprivileged : pc[p] \notin {"writing", "renaming"}

\* No writer clobbers another one: every change of the file is one request
\* applied to the content that is replaced.
NoClobber ==
    [][disk' # disk => \E p \in Proc :
          job[p] # <<>> /\ disk' \in Effects(disk, Head(job[p]))]_vars

\* A protected app is never marked removed and no entry ever disappears from
\* the file, by whatever mix of sessions and crashes (remove refuses protected
\* apps; removed apps stay as tombstones).
ProtectedStays == [][{disk, disk'} \subseteq File => Keeps(disk, disk')]_vars

\* The sessions that use the lock are atomic request by request.  A bypassed
\* session does not count: with BypassWrites FALSE it changes nothing.
lockedJob == [p \in Proc |-> IF p \in Unprivileged THEN <<>> ELSE job[p]]
Atomic == INSTANCE RegistryAbs WITH reg <- disk, job <- lockedJob
RefinesAtomic == Atomic!AbsSpec

\* Every session ends: with its requests done, an error or a lock timeout.
SessionEnds == \A p \in Proc : pc[p] # "idle" ~> pc[p] = "idle"

\* No process keeps the lock: not when it fails, not when it is killed.
LockReleased == \A p \in Proc : lock = p ~> lock # p
================================================================================
