\* A power-on task fails.
CONSTANTS
  s0 = s0
  c1 = c1
  c2 = c2
  c3 = c3
  c4 = c4
  c5 = c5
  Cid = {s0, c1}
  Imported = {s0}
  Nets = {n1}
  Macs = {m1}
  Slots = {1}
  NoDisk = NoDisk
  NoFile = NoFile
  Empty = Empty
  Torn = Torn
  Ops = {"create_vm"}
  MaxRunning = 1
  Exclusive = TRUE
  Faults = {"poweron"}
SPECIFICATION FairSpec
PROPERTIES
  EveryCallReturns
