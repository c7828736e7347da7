\* Two writers and a process that can open neither the lock file nor write its
\* directory: every session ends and the lock is given back.
SPECIFICATION FairSpec
CONSTANTS
  Proc = {p1, p2, u}
  p1 = p1
  p2 = p2
  u = u
  Nobody = Nobody
  Torn = Torn
  Absent = Absent
  NoDir = NoDir
  i1 = i1
  i2 = i2
  d1 = d1
  Ids <- MCIds
  Dirs <- MCDirs
  Jobs <- FewJobs
  Unprivileged = {u}
  BypassWrites = FALSE
PROPERTIES SessionEnds LockReleased
