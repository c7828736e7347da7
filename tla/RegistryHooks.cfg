\* The scans of the package hooks: one class of applications at a time.
SPECIFICATION Spec
CONSTANTS
  Proc = {p1, p2}
  Nobody = Nobody
  Absent = Absent
  NoDir = NoDir
  lin = lin
  flat = flat
  d1 = d1
  Ids <- MCIds
  Dirs <- MCDirs
  Class <- MCClass
  ScanModes <- HookScans
  Others <- MCOthers
PROPERTY SyncJustified
