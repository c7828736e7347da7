\* Every command, one at a time, killed anywhere.
SPECIFICATION Spec
CONSTANTS
  Proc = {p1}
  Absent = Absent
  sys = sys
  app = app
  ipc = ipc
  Ids <- MCIds
  Sys <- MCSys
  Caps <- MCCaps
  Commands <- AllCommands
INVARIANTS DefaultDeny FilesAgree
PROPERTIES DamageKept
