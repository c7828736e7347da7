------------------------------ MODULE RegistryAbs ------------------------------
(***************************************************************************)
(* What the registry promises its writers (the comment on RegistryLock,    *)
(* registry.rs): their sessions do not clobber each other.  Each request   *)
(* of a session is applied whole to the current content of the file, in    *)
(* the session's order; a session may also stop early (an error, a lock    *)
(* timeout, a crash), leaving the requests it had already applied.         *)
(* AppRegistry, with its lock, its in-memory copies and its temporary      *)
(* files, implements this (RefinesAtomic there).                           *)
(***************************************************************************)
EXTENDS RegistryFile, Sequences

CONSTANTS Proc, Jobs

VARIABLES reg,      \* the registry
          job       \* job[p]: the requests p's session still has to make

absVars == <<reg, job>>

AbsInit == reg = EmptyFile /\ job = [p \in Proc |-> <<>>]

Open(p) ==
    /\ job[p] = <<>>
    /\ \E j \in Jobs : job' = [job EXCEPT ![p] = j]
    /\ UNCHANGED reg

Apply(p) ==
    /\ job[p] # <<>>
    /\ reg' \in Effects(reg, Head(job[p]))
    /\ job' = [job EXCEPT ![p] = IF Head(@).cmd = "sync" THEN @ ELSE Tail(@)]

Skip(p) ==
    /\ job[p] # <<>>
    /\ Effects(reg, Head(job[p])) = {}
    /\ job' = [job EXCEPT ![p] = Tail(@)]
    /\ UNCHANGED reg

Stop(p) ==
    /\ job' = [job EXCEPT ![p] = <<>>]
    /\ UNCHANGED reg

AbsNext == \E p \in Proc : Open(p) \/ Apply(p) \/ Skip(p) \/ Stop(p)

AbsSpec == AbsInit /\ [][AbsNext]_absVars
================================================================================
