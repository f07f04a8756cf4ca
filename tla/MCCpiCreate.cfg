\* Two create_vm calls with two networks each, overlapping; the env.json write fails silently, power-on fails.
CONSTANTS
  s0 = s0
  c1 = c1
  c2 = c2
  c3 = c3
  c4 = c4
  c5 = c5
  Cid = {s0, c1, c2}
  Imported = {s0}
  Nets = {n1, n2}
  Macs = {m1, m2}
  Slots = {1}
  NoDisk = NoDisk
  NoFile = NoFile
  Empty = Empty
  Torn = Torn
  Ops = {"create_vm"}
  MaxRunning = 2
  Exclusive = TRUE
  Faults = {"write", "poweron"}
SPECIFICATION Spec
INVARIANTS
  StartsWithOwnEnv
