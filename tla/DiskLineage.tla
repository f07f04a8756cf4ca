---------------------------- MODULE DiskLineage ----------------------------
(***************************************************************************)
(* Where the data of persistent disks is.  attach_disk does not give a VM  *)
(* the disk <disk>.vmdk itself but a new child of it, a file in the VM's   *)
(* directory that takes all writes; detach_disk removes the device and     *)
(* keeps the file; delete_vm removes the directory.  And the agent looks   *)
(* for every persistent disk where the hint points, which is the same for  *)
(* all of them.                                                            *)
(*                                                                         *)
(* A call is one step here, and the places where it may fail are its       *)
(* outcomes; how the steps of calls interleave is the matter of Cpi.  A    *)
(* call that fails before it has changed anything is left out.             *)
(***************************************************************************)
EXTENDS Naturals, FiniteSets

CONSTANTS VMs, Disks,   \* cids
          Nowhere,      \* where a disk is that is not attached
          NoChild,      \* what a unit of the SCSI controller without device has
          Units,        \* the units after those of the system and ephemeral disk
          MaxAttached,  \* disks that the director attaches to a VM at a time
          MaxWrites,    \* bound on the writes of agents
          MayFail       \* calls may fail halfway

\* "/dev/sdc", volume "2": the first unit after the two other disks.
Hint == 2

Child == [parent : Disks, data : 0..MaxWrites]

ASSUME LineageAssumption ==
  /\ Nowhere \notin VMs /\ NoChild \notin Child
  /\ IsFiniteSet(Disks)
  /\ Units \subseteq Nat /\ Hint \in Units /\ \A u \in Units : Hint <= u
  /\ MaxAttached \in Nat /\ MaxWrites \in Nat
  /\ MayFail \in BOOLEAN

VARIABLES vm,       \* "none", "up", "torn" (destroyed, the directory is left), "gone"
          disks,    \* <disk>.vmdk files, all of them as blank as created
          dev,      \* per VM and unit: the child behind the device
          left,     \* per VM: children in its directory without a device
          iso,      \* per VM: the disks that its agent's environment names
          envJson,  \* the disks in /tmp/env.json
          where,    \* per disk: the VM the director may have it attached to
          attaches, \* per disk: how often attached, up to twice
          last,     \* per disk: what an agent wrote to it last; 0 is nothing
          written,  \* number of writes
          unsure    \* VMs with a call that has failed halfway

host == <<dev, left>>
agent == <<last, written>>
vars == <<vm, disks, host, iso, envJson, where, attaches, agent, unsure>>

NoDevices == [u \in Units |-> NoChild]

TypeOK ==
  /\ vm \in [VMs -> {"none", "up", "torn", "gone"}]
  /\ disks \subseteq Disks
  /\ dev \in [VMs -> [Units -> Child \cup {NoChild}]]
  /\ left \in [VMs -> SUBSET Child]
  /\ iso \in [VMs -> SUBSET Disks]
  /\ envJson \subseteq Disks
  /\ where \in [Disks -> VMs \cup {Nowhere}]
  /\ attaches \in [Disks -> 0..2]
  /\ last \in [Disks -> 0..written]
  /\ written \in 0..MaxWrites
  /\ unsure \subseteq VMs
  /\ \A v \in VMs : /\ vm[v] # "up" => dev[v] = NoDevices
                    /\ vm[v] \in {"none", "gone"} => left[v] = {}

Init ==
  /\ vm = [v \in VMs |-> "none"]
  /\ disks = {}
  /\ dev = [v \in VMs |-> NoDevices] /\ left = [v \in VMs |-> {}]
  /\ iso = [v \in VMs |-> {}] /\ envJson = {}
  /\ where = [d \in Disks |-> Nowhere] /\ attaches = [d \in Disks |-> 0]
  /\ last = [d \in Disks |-> 0] /\ written = 0
  /\ unsure = {}

-----------------------------------------------------------------------------
\* /tmp/env.json serves one VM: the director has one at a time.
CreateVM(v) ==
  /\ vm[v] = "none" /\ \A w \in VMs : vm[w] # "up"
  /\ vm' = [vm EXCEPT ![v] = "up"]
  /\ envJson' = {}
  /\ UNCHANGED <<disks, host, iso, where, attaches, agent, unsure>>

\* A cid is never used again.
CreateDisk(d) ==
  /\ d \notin disks /\ attaches[d] = 0
  /\ disks' = disks \cup {d}
  /\ UNCHANGED <<vm, host, iso, envJson, where, attaches, agent, unsure>>

\* The environment of the agent gets the disks ds and the call succeeds: the
\* director has disk d at w.  Or it fails before or after env.json is written.
NewEnv(v, ds, d, w) ==
  \/ /\ envJson' = ds
     /\ iso' = [iso EXCEPT ![v] = ds]
     /\ where' = [where EXCEPT ![d] = w]
     /\ UNCHANGED unsure
  \/ /\ MayFail
     /\ envJson' \in {envJson, ds}
     /\ where' = [where EXCEPT ![d] = v]
     /\ unsure' = unsure \cup {v}
     /\ UNCHANGED iso

FreeUnits(v) == {u \in Units : dev[v][u] = NoChild}
AttachedTo(v) == {d \in Disks : where[d] = v}

\* newUnitNumber: the lowest.
IsNewUnit(v, u) == u \in FreeUnits(v) /\ \A w \in FreeUnits(v) : u <= w

NewChild(d) == [parent |-> d, data |-> 0]

\* Mutant of AttachDisk: the device goes to the highest free unit.
AttachDiskHigh(v, d) ==
  /\ vm[v] = "up" /\ d \in disks
  /\ where[d] = Nowhere /\ Cardinality(AttachedTo(v)) < MaxAttached
  /\ \E u \in FreeUnits(v) : /\ \A w \in FreeUnits(v) : w <= u
                             /\ dev' = [dev EXCEPT ![v][u] = NewChild(d)]
  /\ attaches' = [attaches EXCEPT ![d] = IF @ = 0 THEN 1 ELSE 2]
  /\ NewEnv(v, envJson \cup {d}, d, v)
  /\ UNCHANGED <<vm, disks, left, agent>>

\* vm.disk.attach with link=true, then the environment.  The director tries an
\* attachment again that has failed.
AttachDisk(v, d) ==
  /\ vm[v] = "up" /\ d \in disks
  /\ \/ where[d] = Nowhere /\ Cardinality(AttachedTo(v)) < MaxAttached
     \/ where[d] = v /\ v \in unsure
  /\ \E u \in Units : /\ IsNewUnit(v, u)
                      /\ dev' = [dev EXCEPT ![v][u] = NewChild(d)]
  /\ attaches' = [attaches EXCEPT ![d] = IF @ = 0 THEN 1 ELSE 2]
  /\ NewEnv(v, envJson \cup {d}, d, v)
  /\ UNCHANGED <<vm, disks, left, agent>>

\* getVMDiskName: of the devices with that parent, the last.
Matching(v, d) == {u \in Units : dev[v][u] # NoChild /\ dev[v][u].parent = d}
IsDiskDevice(v, d, u) == u \in Matching(v, d) /\ \A w \in Matching(v, d) : w <= u

\* Mutant of DetachDisk: device.remove without keep=true.
DetachDiskNoKeep(v, d) ==
  /\ vm[v] = "up" /\ where[d] = v
  /\ \E u \in Units : /\ IsDiskDevice(v, d, u)
                      /\ dev' = [dev EXCEPT ![v][u] = NoChild]
  /\ NewEnv(v, envJson \ {d}, d, Nowhere)
  /\ UNCHANGED <<vm, disks, left, attaches, agent>>

\* Mutant of DetachDisk: an error of device.remove is ignored.
DetachDiskEnvOnly(v, d) ==
  /\ vm[v] = "up" /\ where[d] = v /\ Matching(v, d) # {}
  /\ NewEnv(v, envJson \ {d}, d, Nowhere)
  /\ UNCHANGED <<vm, disks, host, attaches, agent>>

\* device.remove with keep=true, then the environment.
DetachDisk(v, d) ==
  /\ vm[v] = "up" /\ where[d] = v
  /\ \E u \in Units : /\ IsDiskDevice(v, d, u)
                      /\ dev' = [dev EXCEPT ![v][u] = NoChild]
                      /\ left' = [left EXCEPT ![v] = @ \cup {dev[v][u]}]
  /\ NewEnv(v, envJson \ {d}, d, Nowhere)
  /\ UNCHANGED <<vm, disks, attaches, agent>>

\* The director deletes disks that it has detached; the CPI does not look
\* whether a child of the disk is left.
DeleteDisk(d) ==
  /\ d \in disks /\ where[d] = Nowhere
  /\ disks' = disks \ {d}
  /\ UNCHANGED <<vm, host, iso, envJson, where, attaches, agent, unsure>>

Loose(v) == where' = [d \in Disks |-> IF where[d] = v THEN Nowhere ELSE where[d]]

\* Mutant of DeleteVM: the datastore directory is not removed.
DeleteVMNotDir(v) ==
  /\ vm[v] \in {"up", "torn"}
  /\ vm' = [vm EXCEPT ![v] = "gone"]
  /\ dev' = [dev EXCEPT ![v] = NoDevices]
  /\ Loose(v)
  /\ UNCHANGED <<disks, left, iso, envJson, attaches, agent, unsure>>

\* vm.destroy takes the VM's devices with their files, then the directory goes,
\* unless the call fails in between; the next delete_vm then removes it.
DeleteVM(v) ==
  /\ vm[v] \in {"up", "torn"}
  /\ dev' = [dev EXCEPT ![v] = NoDevices]
  /\ Loose(v)
  /\ \/ /\ vm' = [vm EXCEPT ![v] = "gone"]
        /\ left' = [left EXCEPT ![v] = {}]
     \/ /\ MayFail
        /\ vm' = [vm EXCEPT ![v] = "torn"]
        /\ UNCHANGED left
  /\ UNCHANGED <<disks, iso, envJson, attaches, agent, unsure>>

\* The agent takes what is at the hint for the disk its environment names.
AgentWrite(v, d) ==
  /\ vm[v] = "up" /\ d \in iso[v]
  /\ written < MaxWrites
  /\ dev[v][Hint] # NoChild
  /\ written' = written + 1
  /\ dev' = [dev EXCEPT ![v][Hint].data = written + 1]
  /\ last' = [last EXCEPT ![d] = written + 1]
  /\ UNCHANGED <<vm, disks, left, iso, envJson, where, attaches, unsure>>

Next ==
  \/ \E v \in VMs : CreateVM(v) \/ DeleteVM(v)
  \/ \E d \in Disks : CreateDisk(d) \/ DeleteDisk(d)
  \/ \E v \in VMs, d \in Disks :
       AttachDisk(v, d) \/ DetachDisk(v, d) \/ AgentWrite(v, d)

Spec == Init /\ [][Next]_vars

-----------------------------------------------------------------------------
Sound(v) == vm[v] = "up" /\ v \notin unsure

(* As long as the director has one disk at a VM at a time and no call on   *)
(* the VM has failed halfway, the fixed hint leads the agent to the disk   *)
(* that its environment names, and a disk in its first attachment shows    *)
(* what was written last.                                                  *)
AgentHasItsDisk ==
  \A v \in VMs : \A d \in iso[v] : Sound(v) =>
    /\ dev[v][Hint] # NoChild
    /\ dev[v][Hint].parent = d
    /\ attaches[d] = 1 => dev[v][Hint].data = last[d]

(* delete_disk does not look for users of the disk: that it takes no disk  *)
(* from under a child in use follows from where detach_disk reports        *)
(* success, and from nothing else.                                         *)
ParentsKept ==
  \A v \in VMs, u \in Units : Sound(v) /\ dev[v][u] # NoChild =>
    dev[v][u].parent \in disks

Files(v) == left[v] \cup ({dev[v][u] : u \in Units} \ {NoChild})

(* What an agent has written stays in a file of its VM until it is written *)
(* over or the VM is deleted, whatever fails: detach_disk loses the data   *)
(* only for the CPI, which never looks at that file again.                 *)
WrittenFilesKept ==
  [][\A v \in VMs : vm'[v] = "up" /\ written' = written =>
       {f \in Files(v) : f.data # 0} \subseteq Files(v)']_vars
=============================================================================
