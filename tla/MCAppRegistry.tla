----------------------------- MODULE MCAppRegistry -----------------------------
(***************************************************************************)
(* Instances of AppRegistry for TLC: two application ids, one install      *)
(* directory and the sessions the programs of the repository run.          *)
(***************************************************************************)
EXTENDS AppRegistry, TLC

CONSTANTS i1, i2, d1,   \* model values: ids and a directory
          p1, p2, u     \* writers that open the lock file, and one that cannot

MCIds  == {i1, i2}
MCDirs == {d1}

Ask(cmd, id, kind, source, protected, dir, found) ==
    [cmd |-> cmd, id |-> id, kind |-> kind, source |-> source,
     protected |-> protected, dir |-> dir, found |-> found]

Seeded(i)    == Ask("register", i, "native", "seed", TRUE, NoDir, {})
Launched(i)  == Ask("launch", i, "win32", "launcher", FALSE, d1, {})
Started(i)   == Ask("pending", i, "win32", "installer", FALSE, d1, {})
Finished(i)  == Ask("finalize", i, "win32", "installer", FALSE, d1, {})
Removal(i)   == Ask("remove", i, "win32", "installer", FALSE, NoDir, {})
Found(i)     == Ask("upsert", i, "linux", "manual", FALSE, NoDir, {})
Sync(found)  == Ask("sync", i1, "linux", "manual", FALSE, NoDir, found)

\* The scan that discovers the ids of s, in the order of their ids.
Scan(s) == (IF i1 \in s THEN <<Found(i1)>> ELSE <<>>)
           \o (IF i2 \in s THEN <<Found(i2)>> ELSE <<>>) \o <<Sync(s)>>

MCJobs == {<<Seeded(i1)>>, <<Launched(i1)>>, <<Started(i2)>>, <<Finished(i2)>>,
           <<Removal(i1)>>, <<Removal(i2)>>, Scan({i1, i2}), Scan({})}

\* Fewer sessions, for three processes and for liveness.
FewJobs == {<<Removal(i1)>>, <<Found(i1), Sync({})>>}

\* A launch and the end of an install: two programs with different entries.
TwoEntries == {<<Launched(i1)>>, <<Finished(i2)>>}

Symmetry == Permutations({p1, p2})
================================================================================
