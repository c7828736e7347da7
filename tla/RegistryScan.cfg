\* Scans of all kinds, deep removals and other sessions of two processes.
SPECIFICATION Spec
CONSTANTS
  Proc = {p1, p2}
  Nobody = Nobody
  Absent = Absent
  NoDir = NoDir
  lin = lin
  flat = flat
  d1 = d1
  Ids <- MCIds
  Dirs <- MCDirs
  Class <- MCClass
  ScanModes <- AllScans
  Others <- MCOthers
SYMMETRY Symmetry
INVARIANT ScanReconciles
PROPERTY SyncExplained
