\* Every create and delete method and has_vm; calls overlap freely, even on one VM;
\* commands and power-on tasks fail, processes die.
CONSTANTS
  s0 = s0
  c1 = c1
  c2 = c2
  c3 = c3
  c4 = c4
  c5 = c5
  Cid = {s0, c1, c2, c3}
  Imported = {s0}
  Nets = {n1}
  Macs = {m1}
  Slots = {1}
  NoDisk = NoDisk
  NoFile = NoFile
  Empty = Empty
  Torn = Torn
  Ops = {"create_stemcell", "delete_stemcell", "create_vm", "delete_vm", "has_vm", "create_disk", "delete_disk"}
  MaxRunning = 3
  Exclusive = FALSE
  Faults = {"host", "poweron", "kill"}
SPECIFICATION Spec
SYMMETRY CallSymmetry
CONSTRAINT AtMostOneFails
INVARIANTS
  DeletedIsGone
PROPERTIES
  KeepsContract
  HasVMAgrees
  StartsAreHandshakes
