------------------------------ MODULE EsxiHost ------------------------------
(***************************************************************************)
(* The ESXi host as the CPI sees it: the VM inventory, the datastore and   *)
(* the effect that each govc command of govc_client.go has on them.  The   *)
(* CPI never keeps host state of its own; every call reads it back through *)
(* govc, so this module is the memory that CPI processes share.            *)
(*                                                                         *)
(* A stemcell "cs-<uuid>", a VM "vm-<uuid>" and a disk "disk-<uuid>" are   *)
(* all named by the uuid.  A uuid is generated once and so names only one  *)
(* of the three: the prefix is left out and a name is a member of Cid.     *)
(***************************************************************************)
EXTENDS Naturals, FiniteSets

CONSTANTS Cid,      \* uuids
          Nets,     \* the networks of a create_vm request
          Macs,     \* the addresses GenerateMacAddress can return
          Slots,    \* unit numbers for persistent disks on the SCSI controller
          NoDisk,   \* an empty slot
          NoFile,   \* an iso, or /tmp/env.json, that does not exist
          Empty,    \* /tmp/env.json after O_TRUNC
          Torn      \* an iso or /tmp/env.json whose content is damaged

ASSUME NoDiskAssumption == NoDisk \notin Cid

\* apiv1.AgentEnv: what the agent of a VM is told (VM id, networks with their
\* MAC addresses, persistent disks).
Env == [vm : Cid, disks : SUBSET Cid, nics : SUBSET (Nets \X Macs)]

ASSUME FileAssumption ==
  /\ {NoFile, Empty, Torn} \cap Env = {}
  /\ NoFile # Empty /\ NoFile # Torn /\ Empty # Torn

\* "starting": the power-on task runs, no question yet.  "asking": it is
\* blocked on the copied-or-moved question.  "booting": the question has been
\* answered and the task has not finished.
Power == {"off", "starting", "asking", "booting", "on"}

VARIABLES vm,       \* one record per name: inventory entry and datastore files
          disks     \* the <disk>.vmdk files at the datastore root

VM == [reg   : BOOLEAN,                      \* in the inventory
       dir   : BOOLEAN,                      \* datastore directory exists
       power : Power,
       cdIn  : BOOLEAN,                      \* cdrom-3000 is backed by the env iso
       cdOn  : BOOLEAN,                      \* cdrom-3000 is connected
       iso   : Env \cup {NoFile, Torn},      \* /env/env-<vm>.iso
       nics  : SUBSET (Nets \X Macs),
       cfg   : SUBSET {"hardware", "resources", "ephemeral"},
       devs  : [Slots -> Cid \cup {NoDisk}]] \* parent of the child disk in a slot

NoVM == [reg |-> FALSE, dir |-> FALSE, power |-> "off", cdIn |-> FALSE,
         cdOn |-> FALSE, iso |-> NoFile, nics |-> {}, cfg |-> {},
         devs |-> [s \in Slots |-> NoDisk]]

Stemcell == [NoVM EXCEPT !.reg = TRUE, !.dir = TRUE]

HostTypeOK == /\ vm \in [Cid -> VM]
              /\ disks \subseteq Cid

\* The agent of a VM reads its environment from the connected cdrom.
Mounted(r) == r.cdIn /\ r.cdOn

-----------------------------------------------------------------------------
(* What govc commands do to the record r of a VM.                          *)

CopyDatastoreStemcell(r) == [r EXCEPT !.dir = TRUE]
RegisterDatastoreVm(r) == [r EXCEPT !.reg = TRUE]
ConfigVMHardware(r) == [r EXCEPT !.cfg = @ \cup {"hardware"}]
SetVMResources(r) == [r EXCEPT !.cfg = @ \cup {"resources"}]
AddNetwork(r, net, mac) == [r EXCEPT !.nics = @ \cup {<<net, mac>>}]
CreateEphemeralDisk(r) == [r EXCEPT !.cfg = @ \cup {"ephemeral"}]
DisconnectCdrom(r) == [r EXCEPT !.cdOn = FALSE]
EjectCdrom(r) == [r EXCEPT !.cdIn = FALSE]
Upload(r, e) == [r EXCEPT !.iso = e]
InsertCdrom(r) == [r EXCEPT !.cdIn = TRUE]
ConnectCdrom(r) == [r EXCEPT !.cdOn = TRUE]
PowerOnVm(r) == [r EXCEPT !.power = "starting"]
AnswerCopyQuestion(r) == [r EXCEPT !.power = "booting"]
StopVM(r) == [r EXCEPT !.power = "off"]

\* vm.destroy unregisters the VM and deletes its files; the directory stays
\* when it holds files the VM does not own (children kept by device.remove).
\* The iso under /env is not a file of the VM.
DestroyVm(r, left) == [NoVM EXCEPT !.dir = left, !.iso = r.iso]

DeleteDatastoreDir(r) == [r EXCEPT !.dir = FALSE]

\* vm.disk.attach with link=true: a child disk of d in a free slot.
AttachDisk(r, d, s) == [r EXCEPT !.devs[s] = d]
\* device.remove with keep=true: by device name, whatever disk is there.
DetachDisk(r, s) == [r EXCEPT !.devs[s] = NoDisk]

\* datastore.disk.create at the root of the datastore, for the files ds there.
CreateDiskFile(ds, d) == ds \cup {d}

\* govc_client.go vmState: a pending question hides the power state.
VmState(r) ==
  CASE ~r.reg                          -> "state-not-found"
    [] r.reg /\ r.power = "asking"     -> "state-blocking-question"
    [] r.reg /\ r.power = "on"         -> "state-on"
    [] OTHER                           -> "state-off"

\* Some VM has a child of disk d attached.
InUse(d) == \E n \in Cid, s \in Slots : vm[n].reg /\ vm[n].devs[s] = d

-----------------------------------------------------------------------------
(* What the host does on its own: a power-on task advances, or fails.      *)

\* The VM was copied on the datastore, so the task asks before it boots.
HostAsks(n) == /\ vm[n].reg /\ vm[n].power = "starting"
               /\ vm' = [vm EXCEPT ![n].power = "asking"]

HostBoots(n) == /\ vm[n].reg /\ vm[n].power = "booting"
                /\ vm' = [vm EXCEPT ![n].power = "on"]

HostFails(n) == /\ vm[n].reg /\ vm[n].power \in {"starting", "asking", "booting"}
                /\ vm' = [vm EXCEPT ![n].power = "off"]
=============================================================================
