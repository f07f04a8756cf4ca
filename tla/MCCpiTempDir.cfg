\* create_stemcell without faults.
CONSTANTS
  s0 = s0
  c1 = c1
  c2 = c2
  c3 = c3
  c4 = c4
  c5 = c5
  Cid = {c1}
  Imported = {}
  Nets = {n1}
  Macs = {m1}
  Slots = {1}
  NoDisk = NoDisk
  NoFile = NoFile
  Empty = Empty
  Torn = Torn
  Ops = {"create_stemcell"}
  MaxRunning = 1
  Exclusive = TRUE
  Faults = {}
SPECIFICATION Spec
INVARIANTS
  StemcellTempDirRemoved
