\* The lock file cannot be opened by u, but its directory can be written.
SPECIFICATION Spec
CONSTANTS
  Proc = {p1, u}
  p1 = p1
  p2 = p2
  u = u
  Nobody = Nobody
  Torn = Torn
  Absent = Absent
  NoDir = NoDir
  i1 = i1
  i2 = i2
  d1 = d1
  Ids <- MCIds
  Dirs <- MCDirs
  Jobs <- TwoEntries
  Unprivileged = {u}
  BypassWrites = TRUE
PROPERTY NoClobber
