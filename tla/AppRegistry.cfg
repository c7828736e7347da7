\* Two writers, every kind of session, crashes anywhere.
SPECIFICATION Spec
CONSTANTS
  Proc = {p1, p2}
  p1 = p1
  p2 = p2
  u = u
  Nobody = Nobody
  Torn = Torn
  Absent = Absent
  NoDir = NoDir
  i1 = i1
  i2 = i2
  d1 = d1
  Ids <- MCIds
  Dirs <- MCDirs
  Jobs <- MCJobs
  Unprivileged = {}
  BypassWrites = FALSE
SYMMETRY Symmetry
INVARIANTS Exclusive NeverTorn HolderIsCurrent
PROPERTIES NoClobber ProtectedStays RefinesAtomic
