\* Two VMs one after the other, two disks; calls fail halfway and are tried again.
CONSTANTS
  VMs = {v1, v2}
  Disks = {d1, d2}
  Nowhere = Nowhere
  NoChild = NoChild
  Units = {2, 3, 4}
  MaxAttached = 1
  MaxWrites = 2
  MayFail = TRUE
SPECIFICATION Spec
SYMMETRY CidSymmetry
INVARIANTS
  TypeOK
  AgentHasItsDisk
  ParentsKept
PROPERTIES
  WrittenFilesKept
CHECK_DEADLOCK FALSE
