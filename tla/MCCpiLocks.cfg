\* Two calls at a time, never two on one VM or disk, a process dies: two VMs, or a VM and two disks, or a disk attached again.
CONSTANTS
  s0 = s0
  c1 = c1
  c2 = c2
  c3 = c3
  c4 = c4
  c5 = c5
  Cid = {s0, c1, c2, c3, c4, c5}
  Imported = {s0}
  Nets = {n1}
  Macs = {m1}
  Slots = {1, 2}
  NoDisk = NoDisk
  NoFile = NoFile
  Empty = Empty
  Torn = Torn
  Ops = {"create_vm", "create_disk", "attach_disk", "detach_disk"}
  MaxRunning = 2
  Exclusive = TRUE
  Faults = {"kill"}
SPECIFICATION Spec
SYMMETRY CallSymmetry
CONSTRAINT AtMostOneFails
PROPERTY DetachRemovesItsDisk
