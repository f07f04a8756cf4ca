\* One call at a time, any command may fail or lose its reply: one or two VMs, disks attached, detached and tried again.
CONSTANTS
  s0 = s0
  c1 = c1
  c2 = c2
  c3 = c3
  c4 = c4
  c5 = c5
  Cid = {s0, c1, c2, c3, c4, c5}
  Imported = {s0}
  Nets = {n1}
  Macs = {m1}
  Slots = {1, 2}
  NoDisk = NoDisk
  NoFile = NoFile
  Empty = Empty
  Torn = Torn
  Ops = {"create_vm", "create_disk", "attach_disk", "detach_disk"}
  MaxRunning = 1
  Exclusive = TRUE
  Faults = {"host"}
SPECIFICATION Spec
SYMMETRY CallSymmetry
CONSTRAINT AtMostTwoFail
INVARIANTS
  EnvStaysMounted
  ListedDisksAreAttached
PROPERTIES
  DiskCallsTellTheAgent
