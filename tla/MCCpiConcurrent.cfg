\* Two calls at a time, never two on one VM or disk; a process dies, or the machine restarts.
CONSTANTS
  s0 = s0
  c1 = c1
  c2 = c2
  c3 = c3
  c4 = c4
  c5 = c5
  Cid = {s0, c1, c2, c3, c4}
  Imported = {s0}
  Nets = {n1}
  Macs = {m1, m2}
  Slots = {1, 2}
  NoDisk = NoDisk
  NoFile = NoFile
  Empty = Empty
  Torn = Torn
  Ops = {"create_vm", "create_disk", "attach_disk", "detach_disk", "delete_vm", "delete_disk"}
  MaxRunning = 2
  Exclusive = TRUE
  Faults = {"kill", "reboot"}
SPECIFICATION Spec
SYMMETRY CallSymmetry
CONSTRAINT AtMostOneFails
INVARIANTS
  TypeOK
  IsosAreOneVMs
PROPERTIES
  IsoUntouchedWhileMounted
  EnvGivenUpForNew
