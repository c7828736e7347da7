\* Two commands at a time.
SPECIFICATION Spec
CONSTANTS
  Proc = {p1, p2}
  Absent = Absent
  sys = sys
  app = app
  ipc = ipc
  Ids <- MCIds
  Sys <- MCSys
  Caps <- MCCaps
  Commands <- ListAndGrant
INVARIANTS DefaultDeny
