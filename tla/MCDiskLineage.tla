--------------------------- MODULE MCDiskLineage ---------------------------
(* Finite instances of DiskLineage: the configurations give the constants. *)
EXTENDS DiskLineage, TLC

CidSymmetry == Permutations(VMs) \cup Permutations(Disks)
=============================================================================
