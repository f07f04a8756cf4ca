--------------------------- MODULE CpiStartProofs ---------------------------
(***************************************************************************)
(* What create_vm does to its VM until it has answered, for any number of  *)
(* calls that overlap in any way: the VM is started complete and with its  *)
(* own environment, and the start is a PowerOnHandshake.                   *)
(*                                                                         *)
(* The director does not know a VM before its create_vm has answered.      *)
(* Until then no other call has the VM as its object (NotTouched), and     *)
(* what create_vm's steps have done so far stays done (BuildInv).          *)
(***************************************************************************)
EXTENDS CpiContractProofs, CpiHandshake

\* The labels at which something has been done already.
Iso == IsoLabels \cup {"start", "poll", "answer"}
Powering == {"poll", "answer"}

\* A create_vm at label l, with the record r of its VM and the memory m.
NetworksDone(r, m) ==
  /\ \A p \in r.nics : p[1] \in Nets \ m.todo
  /\ \A net \in Nets \ m.todo : \E p \in r.nics : p[1] = net

HardwareDone(l, r, m) ==
  /\ l \in Iso => m.todo = {}
  /\ l \notin {"props", "copy", "register", "hardware"} => "hardware" \in r.cfg
  /\ l \in Iso \cup {"network"} => "resources" \in r.cfg
  /\ l \in Iso => "ephemeral" \in r.cfg
  /\ l \in {"connect", "start", "poll", "answer"} => r.cdIn
  /\ l \in {"start", "poll", "answer"} => r.cdOn

\* An iso made from e; writing it may have failed silently.
Made(iso, e) == iso = e \/ ("iso" \in Faults /\ iso = Torn)

EnvironmentDone(c, l, r, m) ==
  /\ m.env = [vm |-> c, disks |-> {}, nics |-> r.nics]
  /\ l \in {"disconnect", "eject", "upload"} => Made(m.iso, m.env)
  /\ l \in {"insert", "connect", "start", "poll", "answer"} => Made(r.iso, m.env)

NotPoweredYet(l, r, m) ==
  /\ m.pon => l = "poll"
  /\ (l \in Powering /\ ~m.pon) \/ r.power = "off"

Ready(c, l, r, m) ==
  /\ NetworksDone(r, m)
  /\ HardwareDone(l, r, m)
  /\ EnvironmentDone(c, l, r, m)
  /\ NotPoweredYet(l, r, m)

Building(c) == Op(c) = "create_vm" /\ pc[c] # "done"

BuildInv == \A c \in Cid : Building(c) => Ready(c, pc[c], vm[c], mem[c])

\* Names of other things are never powered on and have no cdrom.
RestInv == \A c \in Cid :
  /\ pc[c] = "idle" => vm[c] = NoVM /\ mem[c] = FreshMemory(c)
  /\ ~Building(c) => ~mem[c].pon
  /\ Op(c) # "create_vm" => vm[c].power = "off" /\ ~vm[c].cdIn

StartInv == BuildInv /\ RestInv

-----------------------------------------------------------------------------
(* What the steps of a process leave alone.                                *)

\* A step works with the record of its object and the memory of its process.
LEMMA StepLocal ==
  ASSUME TypeOK, CallInv, NEW c \in Cid, Step(c)
  PROVE  /\ \A n \in Cid \ {Obj(c)} : vm'[n] = vm[n]
         /\ \A d \in Cid \ {c} : mem'[d] = mem[d]
  <1>1. /\ vm \in [Cid -> VM] /\ mem \in [Cid -> Memory]
        /\ Op(c) \in Creates => Obj(c) = c
    BY DEF TypeOK, HostTypeOK, CallInv
  <1>. DEFINE Keeps == /\ \A n \in Cid \ {Obj(c)} : vm'[n] = vm[n]
                       /\ \A d \in Cid \ {c} : mem'[d] = mem[d]
  <1>. USE <1>1 DEF Goto, GotoWith, Respond, Fail, MayFail, Panic, Govc, Ask
  <1>2. CASE CreateStemcellCall(c)
    BY <1>2 DEF CreateStemcellCall, ExtractOvf, ImportOvf, Creates
  <1>3. CASE IsoStep(c)
    <2>1. CASE Trunc(c) \/ Write(c) \/ MkIso(c)
      BY <2>1 DEF Trunc, Write, MkIso
    <2>2. CASE Disconnect(c) \/ Eject(c) \/ UploadIso(c)
      BY <2>2 DEF Disconnect, Eject, UploadIso
    <2>3. CASE Insert(c) \/ Connect(c)
      BY <2>3 DEF Insert, Connect
    <2>. QED
      BY <1>3, <2>1, <2>2, <2>3 DEF IsoStep
  <1>4. CASE Op(c) = "create_vm" /\ CreateVMStep(c)
    <2>1. Obj(c) = c
      BY <1>4 DEF Creates
    <2>2. CASE CloudProps(c) \/ Copy(c) \/ Register(c) \/ Hardware(c) \/ Resources(c)
      BY <2>1, <2>2 DEF CloudProps, Copy, Register, Hardware, Resources
    <2>3. CASE Network(c)
      BY <2>1, <2>3 DEF Network
    <2>4. CASE Ephemeral(c) \/ StartVM(c) \/ Poll(c) \/ Answer(c)
      BY <2>1, <2>4 DEF Ephemeral, StartVM, Poll, Answer
    <2>. QED
      BY <1>4, <2>2, <2>3, <2>4 DEF CreateVMStep
  <1>5. CASE DestroyStep(c)
    <2>1. CASE DestroyState(c) \/ Stop(c) \/ PowerOff(c)
      BY <2>1 DEF DestroyState, Stop, PowerOff
    <2>2. CASE Destroy(c) \/ DatastorePathExists(c) \/ DeleteDir(c)
      BY <2>2 DEF Destroy, DatastorePathExists, DeleteDir
    <2>. QED
      BY <1>5, <2>1, <2>2 DEF DestroyStep
  <1>6. CASE Attach(c) \/ Find(c) \/ Remove(c) \/ ReadEnv(c)
    <2>1. CASE Attach(c)
      BY <2>1 DEF Attach
    <2>2. CASE Find(c) \/ ReadEnv(c)
      BY <2>2 DEF Find, ReadEnv
    <2>3. CASE Remove(c)
      BY <2>3 DEF Remove
    <2>. QED
      BY <1>6, <2>1, <2>2, <2>3
  <1>7. CASE CreateDisk(c) \/ DiskPathExists(c) \/ DeleteDisk(c)
    BY <1>7 DEF CreateDisk, DiskPathExists, DeleteDisk
  <1>8. CASE HasVM(c) \/ ServeFound(c) \/ Info(c) \/ Unsupported(c) \/ NotImplemented(c)
    BY <1>8 DEF HasVM, ServeFound, Info, Unsupported, NotImplemented, Local
  <1>. QED
    BY <1>2, <1>3, <1>4, <1>5, <1>6, <1>7, <1>8
    DEF Step, CreateVMCall, DeleteVMCall, DeleteStemcellCall, HasVMCall,
      CreateDiskCall, DeleteDiskCall, AttachDiskCall, DetachDiskCall

\* Methods whose object is the director's own choice work on it only when its
\* create_* call has exited; the disk methods' object is no VM.
LEMMA NotTouched ==
  ASSUME TypeOK, CallInv, NEW c \in Cid, Step(c), NEW n \in Cid \ {c},
         pc[n] # "done"
  PROVE  vm'[n] = vm[n]
  <1>1. CASE Obj(c) # n
    BY <1>1, StepLocal
  <1>2. CASE Obj(c) = n
    <2>1. Op(c) \in AllOps /\ pc[c] \in LabelsOf(Op(c)) /\ vm \in [Cid -> VM]
      BY StepMoves DEF TypeOK, HostTypeOK, Op
    <2>2. Op(c) \in {"delete_disk", "info", "reboot_vm", "unknown"}
      BY <1>2, <2>1 DEF CallInv, Known, Creates, AllOps
    <2>3. vm' = vm
      BY <2>1, <2>2 DEF Step, CreateStemcellCall, CreateVMCall, DeleteVMCall,
        DeleteStemcellCall, HasVMCall, CreateDiskCall, DeleteDiskCall,
        AttachDiskCall, DetachDiskCall, DiskPathExists, DeleteDisk, Ask, Info,
        Unsupported, NotImplemented
    <2>. QED
      BY <2>3
  <1>. QED
    BY <1>1, <1>2

-----------------------------------------------------------------------------
(* The steps of create_vm                                                  *)

\* The process of c exits.
Ends(c) == pc'[c] = "done" /\ ~mem'[c].pon

\* The effect of a step of c: it exits, or goes to label l with memory m and
\* its VM's record is r.
Becomes(c, l, r, m) ==
  pc'[c] = l /\ vm'[c] = r /\ mem'[c] = m

LEMMA EndsOrGoes ==
  ASSUME TypeOK, NEW c \in Cid
  PROVE  /\ \A l, m : GotoWith(c, l, m) => pc'[c] = l /\ mem'[c] = m
         /\ \A l : Goto(c, l) => pc'[c] = l /\ mem'[c] = mem[c]
         /\ \A r : Respond(c, r) => Ends(c)
         /\ Fail(c) => Ends(c)
         /\ MayFail(c) => Ends(c)
  <1>1. pc \in [Cid -> Labels] /\ mem \in [Cid -> Memory] /\ ~FreshMemory(c).pon
    BY DEF TypeOK, FreshMemory
  <1>. QED
    BY <1>1 DEF GotoWith, Goto, Respond, Fail, MayFail, Ends

\* A govc command on the VM that create_vm makes.
LEMMA CommandEndsOrGoes ==
  ASSUME TypeOK, NEW c \in Cid, NEW l, NEW m, NEW ok, NEW r,
         Govc(c, c, ok, r, GotoWith(c, l, m))
  PROVE  Ends(c) \/ (ok /\ Becomes(c, l, r, m))
  BY EndsOrGoes DEF Govc, Becomes, TypeOK, HostTypeOK

LEMMA CommandEndsOrGoesOn ==
  ASSUME TypeOK, NEW c \in Cid, NEW l, NEW ok, NEW r,
         Govc(c, c, ok, r, Goto(c, l))
  PROVE  Ends(c) \/ (ok /\ Becomes(c, l, r, mem[c]))
  BY CommandEndsOrGoes DEF Goto

\* The record and the memory of a create_vm, as the steps below need them.
LEMMA BuildingTypes ==
  ASSUME TypeOK, NEW c \in Cid
  PROVE  vm[c] \in VM /\ mem[c] \in Memory /\ pc[c] \in Labels
  BY DEF TypeOK, HostTypeOK

\* Only Network changes what NetworksDone is about.
LEMMA NetworksSame ==
  ASSUME NEW r, NEW m, NEW r2, NEW m2, r2.nics = r.nics, m2.todo = m.todo
  PROVE  NetworksDone(r, m) => NetworksDone(r2, m2)
  BY DEF NetworksDone

LEMMA BuildStep ==
  ASSUME TypeOK, CallInv, NEW c \in Cid, CreateVMStep(c), Op(c) = "create_vm",
         Ready(c, pc[c], vm[c], mem[c])
  PROVE  Ends(c) \/ Ready(c, pc'[c], vm'[c], mem'[c])
  <1>1. vm[c] \in VM /\ mem[c] \in Memory
    BY BuildingTypes
  <1>. USE DEF Becomes, Ready, HardwareDone, EnvironmentDone, NotPoweredYet, Iso,
         IsoLabels, Powering
  <1>2. CASE CloudProps(c)
    <2>1. Ends(c) \/ Becomes(c, "copy", vm[c], mem[c])
      BY <1>2, EndsOrGoes DEF CloudProps, Ask
    <2>. QED
      BY <1>2, <2>1 DEF CloudProps
  <1>3. CASE Copy(c)
    <2>1. Ends(c) \/ Becomes(c, "register", CopyDatastoreStemcell(vm[c]), mem[c])
      BY <1>3, CommandEndsOrGoesOn DEF Copy
    <2>2. LET r == CopyDatastoreStemcell(vm[c]) IN
            /\ r.nics = vm[c].nics /\ r.cfg = vm[c].cfg /\ r.power = vm[c].power
            /\ r.iso = vm[c].iso /\ r.cdIn = vm[c].cdIn /\ r.cdOn = vm[c].cdOn
      BY <1>1 DEF CopyDatastoreStemcell, VM
    <2>. QED
      BY <1>3, <2>1, <2>2, NetworksSame DEF Copy
  <1>4. CASE Register(c)
    <2>1. Ends(c) \/ Becomes(c, "hardware", RegisterDatastoreVm(vm[c]), mem[c])
      BY <1>4, CommandEndsOrGoesOn DEF Register
    <2>2. LET r == RegisterDatastoreVm(vm[c]) IN
            /\ r.nics = vm[c].nics /\ r.cfg = vm[c].cfg /\ r.power = vm[c].power
            /\ r.iso = vm[c].iso /\ r.cdIn = vm[c].cdIn /\ r.cdOn = vm[c].cdOn
      BY <1>1 DEF RegisterDatastoreVm, VM
    <2>. QED
      BY <1>4, <2>1, <2>2, NetworksSame DEF Register
  <1>5. CASE Hardware(c)
    <2>1. Ends(c) \/ Becomes(c, "resources", ConfigVMHardware(vm[c]), mem[c])
      BY <1>5, CommandEndsOrGoesOn DEF Hardware
    <2>2. LET r == ConfigVMHardware(vm[c]) IN
            /\ r.nics = vm[c].nics /\ r.power = vm[c].power /\ r.iso = vm[c].iso
            /\ r.cdIn = vm[c].cdIn /\ r.cdOn = vm[c].cdOn /\ r.cfg = vm[c].cfg \cup {"hardware"}
      BY <1>1 DEF ConfigVMHardware, VM
    <2>. QED
      BY <1>5, <2>1, <2>2, NetworksSame DEF Hardware
  <1>6. CASE Resources(c)
    <2>1. Ends(c) \/ Becomes(c, "network", SetVMResources(vm[c]), mem[c])
      BY <1>6, CommandEndsOrGoesOn DEF Resources
    <2>2. LET r == SetVMResources(vm[c]) IN
            /\ r.nics = vm[c].nics /\ r.power = vm[c].power /\ r.iso = vm[c].iso
            /\ r.cdIn = vm[c].cdIn /\ r.cdOn = vm[c].cdOn /\ r.cfg = vm[c].cfg \cup {"resources"}
      BY <1>1 DEF SetVMResources, VM
    <2>. QED
      BY <1>6, <2>1, <2>2, NetworksSame DEF Resources
  <1>7. CASE Network(c)
    <2>1. PICK net \in mem[c].todo, mac \in Macs :
            Govc(c, c, vm[c].reg, AddNetwork(vm[c], net, mac),
                 GotoWith(c, "network",
                          [mem[c] EXCEPT !.todo = @ \ {net},
                                         !.env.nics = @ \cup {<<net, mac>>}]))
      BY <1>7 DEF Network
    <2>2. PICK m :
            /\ m = [mem[c] EXCEPT !.todo = @ \ {net},
                                  !.env.nics = @ \cup {<<net, mac>>}]
            /\ Govc(c, c, vm[c].reg, AddNetwork(vm[c], net, mac),
                    GotoWith(c, "network", m))
      BY <2>1
    <2>3. Ends(c) \/ Becomes(c, "network", AddNetwork(vm[c], net, mac), m)
      BY <2>2, CommandEndsOrGoes
    <2>4. LET r == AddNetwork(vm[c], net, mac) IN
            /\ r.nics = vm[c].nics \cup {<<net, mac>>}
            /\ r.cfg = vm[c].cfg /\ r.power = vm[c].power
      BY <1>1 DEF AddNetwork, VM
    <2>5. /\ m.todo = mem[c].todo \ {net} /\ m.pon = mem[c].pon
          /\ m.env = [mem[c].env EXCEPT !.nics = @ \cup {<<net, mac>>}]
      BY <1>1, <2>2 DEF Memory
    <2>6. NetworksDone(AddNetwork(vm[c], net, mac), m)
      <3>1. /\ \A p \in vm[c].nics : p[1] \in Nets \ mem[c].todo
            /\ \A n \in Nets \ mem[c].todo : \E p \in vm[c].nics : p[1] = n
        BY DEF NetworksDone
      <3>2. mem[c].todo \subseteq Nets /\ <<net, mac>>[1] = net
        BY <1>1 DEF Memory
      <3>. DEFINE r == vm[c].nics \cup {<<net, mac>>}
                  t == mem[c].todo \ {net}
      <3>3. ASSUME NEW p \in r PROVE p[1] \in Nets \ t
        BY <3>1, <3>2
      <3>4. ASSUME NEW n \in Nets \ t PROVE \E p \in r : p[1] = n
        <4>1. CASE n = net
          BY <3>2, <4>1
        <4>2. CASE n # net
          BY <3>1, <4>2
        <4>. QED
          BY <4>1, <4>2
      <3>. QED
        BY <2>4, <2>5, <3>3, <3>4 DEF NetworksDone
    <2>7. m.env = [vm |-> c, disks |-> {}, nics |-> vm[c].nics \cup {<<net, mac>>}]
      <3>1. /\ mem[c].env.vm = c /\ mem[c].env.disks = {}
            /\ mem[c].env.nics = vm[c].nics
        OBVIOUS
      <3>. HIDE DEF Ready, EnvironmentDone
      <3>2. mem[c].env \in Env
        BY <1>1 DEF Memory
      <3>3. m.env = [vm |-> mem[c].env.vm, disks |-> mem[c].env.disks,
                     nics |-> mem[c].env.nics \cup {<<net, mac>>}]
        BY <2>5, <3>2 DEF Env
      <3>. QED
        BY <3>1, <3>3
    <2>8. pc[c] = "network"
      BY <1>7 DEF Network
    <2>9. CASE Ends(c)
      BY <2>9
    <2>10. CASE Becomes(c, "network", AddNetwork(vm[c], net, mac), m)
      <3>1. Ready(c, "network", AddNetwork(vm[c], net, mac), m)
        BY <2>4, <2>5, <2>6, <2>7, <2>8
      <3>. QED
        BY <2>10, <3>1 DEF Becomes
    <2>. QED
      BY <2>3, <2>9, <2>10
  <1>8. CASE Ephemeral(c)
    <2>1. Ends(c) \/ Becomes(c, "trunc", CreateEphemeralDisk(vm[c]), mem[c])
      BY <1>8, CommandEndsOrGoesOn DEF Ephemeral
    <2>2. LET r == CreateEphemeralDisk(vm[c]) IN
            /\ r.nics = vm[c].nics /\ r.power = vm[c].power /\ r.iso = vm[c].iso
            /\ r.cdIn = vm[c].cdIn /\ r.cdOn = vm[c].cdOn /\ r.cfg = vm[c].cfg \cup {"ephemeral"}
      BY <1>1 DEF CreateEphemeralDisk, VM
    <2>. QED
      BY <1>8, <2>1, <2>2, NetworksSame DEF Ephemeral
  <1>9. CASE StartVM(c)
    <2>1. Becomes(c, "poll", vm[c], [mem[c] EXCEPT !.pon = TRUE])
      BY <1>9, EndsOrGoes DEF StartVM
    <2>2. LET m == [mem[c] EXCEPT !.pon = TRUE] IN
            m.pon /\ m.todo = mem[c].todo /\ m.env = mem[c].env
      BY <1>1 DEF Memory
    <2>3. /\ pc[c] = "start" /\ pc'[c] = "poll" /\ vm'[c] = vm[c] /\ mem'[c].pon
          /\ mem'[c].todo = mem[c].todo /\ mem'[c].env = mem[c].env
      BY <1>9, <2>1, <2>2 DEF StartVM
    <2>4. NetworksDone(vm'[c], mem'[c])
      BY <2>3, NetworksSame
    <2>5. EnvironmentDone(c, "poll", vm[c], mem'[c])
      BY <2>3
    <2>. QED
      BY <2>3, <2>4, <2>5
  <1>10. CASE Poll(c)
    <2>1. \/ Ends(c)
          \/ /\ VmState(vm[c]) = "state-blocking-question"
             /\ Becomes(c, "answer", vm[c], mem[c])
          \/ Becomes(c, "poll", vm[c], mem[c])
      BY <1>10, EndsOrGoes DEF Poll, Ask
    <2>2. VmState(vm[c]) = "state-blocking-question" => vm[c].power = "asking"
      BY DEF VmState
    <2>. QED
      BY <1>10, <2>1, <2>2 DEF Poll
  <1>11. CASE Answer(c)
    BY <1>11, EndsOrGoes DEF Answer, Govc, Ask
  <1>. QED
    BY <1>2, <1>3, <1>4, <1>5, <1>6, <1>7, <1>8, <1>9, <1>10, <1>11 DEF CreateVMStep

LEMMA BuildIsoStep ==
  ASSUME TypeOK, CallInv, NEW c \in Cid, IsoStep(c), Op(c) = "create_vm",
         Ready(c, pc[c], vm[c], mem[c])
  PROVE  Ends(c) \/ Ready(c, pc'[c], vm'[c], mem'[c])
  <1>1. vm[c] \in VM /\ mem[c] \in Memory /\ Obj(c) = c
    BY BuildingTypes DEF CallInv, Creates
  <1>. USE DEF Becomes, Ready, HardwareDone, EnvironmentDone, NotPoweredYet, Iso,
         IsoLabels, Powering
  <1>2. CASE Trunc(c)
    <2>1. \/ Becomes(c, "write", vm[c], mem[c])
          \/ Becomes(c, "mkiso", vm[c], mem[c])
      BY <1>2, EndsOrGoes DEF Trunc
    <2>. QED
      BY <1>2, <2>1 DEF Trunc
  <1>3. CASE Write(c)
    <2>1. Becomes(c, "mkiso", vm[c], mem[c])
      BY <1>3, EndsOrGoes DEF Write
    <2>. QED
      BY <1>3, <2>1 DEF Write
  <1>4. CASE MkIso(c)
    <2>1. \/ Ends(c)
          \/ Becomes(c, "disconnect", vm[c], [mem[c] EXCEPT !.iso = mem[c].env])
          \/ /\ "iso" \in Faults
             /\ Becomes(c, "disconnect", vm[c], [mem[c] EXCEPT !.iso = Torn])
      BY <1>4, EndsOrGoes DEF MkIso, Ask
    <2>2. \A i : LET m == [mem[c] EXCEPT !.iso = i] IN
            /\ m.iso = i /\ m.pon = mem[c].pon
            /\ m.todo = mem[c].todo /\ m.env = mem[c].env
      BY <1>1 DEF Memory
    <2>3. ASSUME ~Ends(c)
          PROVE  /\ pc'[c] = "disconnect" /\ vm'[c] = vm[c]
                 /\ mem'[c].pon = mem[c].pon /\ mem'[c].todo = mem[c].todo
                 /\ mem'[c].env = mem[c].env
                 /\ Made(mem'[c].iso, mem[c].env)
      <3>1. PICK i : /\ pc'[c] = "disconnect" /\ vm'[c] = vm[c]
                     /\ mem'[c] = [mem[c] EXCEPT !.iso = i]
                     /\ Made(i, mem[c].env)
        BY <2>1, <2>3 DEF Made
      <3>. QED
        BY <2>2, <3>1
    <2>. QED
      BY <1>4, <2>3, NetworksSame DEF MkIso
  <1>5. CASE Disconnect(c)
    <2>1. Ends(c) \/ Becomes(c, "eject", DisconnectCdrom(vm[c]), mem[c])
      BY <1>1, <1>5, CommandEndsOrGoesOn DEF Disconnect
    <2>2. LET r == DisconnectCdrom(vm[c]) IN
            /\ r.nics = vm[c].nics /\ r.cfg = vm[c].cfg /\ r.power = vm[c].power
            /\ r.iso = vm[c].iso /\ r.cdIn = vm[c].cdIn
      BY <1>1 DEF DisconnectCdrom, VM
    <2>. QED
      BY <1>5, <2>1, <2>2, NetworksSame DEF Disconnect
  <1>6. CASE Eject(c)
    <2>1. Ends(c) \/ Becomes(c, "upload", EjectCdrom(vm[c]), mem[c])
      BY <1>1, <1>6, CommandEndsOrGoesOn DEF Eject
    <2>2. LET r == EjectCdrom(vm[c]) IN
            /\ r.nics = vm[c].nics /\ r.cfg = vm[c].cfg /\ r.power = vm[c].power
            /\ r.iso = vm[c].iso /\ r.cdOn = vm[c].cdOn
      BY <1>1 DEF EjectCdrom, VM
    <2>. QED
      BY <1>6, <2>1, <2>2, NetworksSame DEF Eject
  <1>7. CASE UploadIso(c)
    <2>1. Ends(c) \/ Becomes(c, "insert", Upload(vm[c], mem[c].iso), mem[c])
      BY <1>1, <1>7, EndsOrGoes DEF UploadIso, Govc, TypeOK, HostTypeOK
    <2>2. LET r == Upload(vm[c], mem[c].iso) IN
            /\ r.nics = vm[c].nics /\ r.cfg = vm[c].cfg /\ r.power = vm[c].power
            /\ r.cdIn = vm[c].cdIn /\ r.cdOn = vm[c].cdOn /\ r.iso = mem[c].iso
      BY <1>1 DEF Upload, VM
    <2>3. pc[c] = "upload"
      BY <1>7 DEF UploadIso
    <2>4. NetworksDone(Upload(vm[c], mem[c].iso), mem[c])
      BY <2>2, NetworksSame
    <2>5. Made(mem[c].iso, mem[c].env)
      BY <2>3
    <2>6. CASE Ends(c)
      BY <2>6
    <2>7. CASE Becomes(c, "insert", Upload(vm[c], mem[c].iso), mem[c])
      BY <2>2, <2>3, <2>4, <2>5, <2>7
    <2>. QED
      BY <2>1, <2>6, <2>7
  <1>8. CASE Insert(c)
    <2>1. Ends(c) \/ Becomes(c, "connect", InsertCdrom(vm[c]), mem[c])
      BY <1>1, <1>8, CommandEndsOrGoesOn DEF Insert
    <2>2. LET r == InsertCdrom(vm[c]) IN
            /\ r.nics = vm[c].nics /\ r.cfg = vm[c].cfg /\ r.power = vm[c].power
            /\ r.iso = vm[c].iso /\ r.cdOn = vm[c].cdOn /\ r.cdIn = TRUE
      BY <1>1 DEF InsertCdrom, VM
    <2>. QED
      BY <1>8, <2>1, <2>2, NetworksSame DEF Insert
  <1>9. CASE Connect(c)
    <2>1. Ends(c) \/ Becomes(c, "start", ConnectCdrom(vm[c]), mem[c])
      BY <1>1, <1>9, CommandEndsOrGoesOn DEF Connect
    <2>2. LET r == ConnectCdrom(vm[c]) IN
            /\ r.nics = vm[c].nics /\ r.cfg = vm[c].cfg /\ r.power = vm[c].power
            /\ r.iso = vm[c].iso /\ r.cdIn = vm[c].cdIn /\ r.cdOn = TRUE
      BY <1>1 DEF ConnectCdrom, VM
    <2>. QED
      BY <1>9, <2>1, <2>2, NetworksSame DEF Connect
  <1>. QED
    BY <1>2, <1>3, <1>4, <1>5, <1>6, <1>7, <1>8, <1>9 DEF IsoStep

-----------------------------------------------------------------------------
(* The steps of the other methods                                          *)

\* They neither power a VM on nor send their process a power-on to do, and a
\* cdrom is inserted only into what create_vm has made.
Gentle(c) ==
  /\ ~mem'[c].pon
  /\ vm'[Obj(c)].power \in {vm[Obj(c)].power, "off"}
  /\ vm'[Obj(c)].cdIn => vm[Obj(c)].cdIn \/ Op(Obj(c)) = "create_vm"

\* Every way a step ends leaves "pon" alone or clears it.
LEMMA EndsWithoutPowerOn ==
  ASSUME TypeOK, NEW c \in Cid, ~mem[c].pon
  PROVE  /\ \A l, m : GotoWith(c, l, m) /\ ~m.pon => ~mem'[c].pon
         /\ \A l : Goto(c, l) => ~mem'[c].pon
         /\ \A r : Respond(c, r) => ~mem'[c].pon
         /\ Fail(c) => ~mem'[c].pon
         /\ MayFail(c) => ~mem'[c].pon
         /\ Panic(c) => ~mem'[c].pon
  BY EndsOrGoes DEF Ends, Panic

LEMMA IsoStepGentle ==
  ASSUME TypeOK, CallInv, NEW c \in Cid, IsoStep(c), ~mem[c].pon,
         Op(c) \in {"attach_disk", "detach_disk"}
  PROVE  Gentle(c)
  <1>1. /\ vm \in [Cid -> VM] /\ Obj(c) \in Cid /\ vm[Obj(c)] \in VM
        /\ mem[c] \in Memory /\ Op(Obj(c)) = "create_vm"
    BY BuildingTypes DEF TypeOK, HostTypeOK, CallInv, Known, Obj
  <1>2. \A i : ~[mem[c] EXCEPT !.iso = i].pon
    BY <1>1 DEF Memory
  <1>. USE <1>1 DEF Gentle
  <1>3. CASE Trunc(c) \/ Write(c)
    BY <1>3, EndsWithoutPowerOn DEF Trunc, Write
  <1>4. CASE MkIso(c)
    BY <1>2, <1>4, EndsWithoutPowerOn DEF MkIso, Ask
  <1>5. CASE Disconnect(c)
    BY <1>5, EndsWithoutPowerOn DEF Disconnect, Govc, DisconnectCdrom, VM
  <1>6. CASE Eject(c)
    BY <1>6, EndsWithoutPowerOn DEF Eject, Govc, EjectCdrom, VM
  <1>7. CASE UploadIso(c)
    BY <1>7, EndsWithoutPowerOn DEF UploadIso, Govc, Upload, VM
  <1>8. CASE Insert(c)
    BY <1>8, EndsWithoutPowerOn DEF Insert, Govc, InsertCdrom, VM
  <1>9. CASE Connect(c)
    BY <1>9, EndsWithoutPowerOn DEF Connect, Govc, ConnectCdrom, VM
  <1>. QED
    BY <1>3, <1>4, <1>5, <1>6, <1>7, <1>8, <1>9 DEF IsoStep

LEMMA DestroyGentle ==
  ASSUME TypeOK, CallInv, NEW c \in Cid, DestroyStep(c), ~mem[c].pon
  PROVE  Gentle(c)
  <1>1. /\ vm \in [Cid -> VM] /\ Obj(c) \in Cid /\ vm[Obj(c)] \in VM
    BY DEF TypeOK, HostTypeOK, Obj
  <1>. USE <1>1 DEF Gentle
  <1>2. CASE DestroyState(c)
    BY <1>2, EndsWithoutPowerOn DEF DestroyState, Ask
  <1>3. CASE Stop(c)
    BY <1>3, EndsWithoutPowerOn DEF Stop, Govc, StopVM, VM
  <1>4. CASE PowerOff(c)
    BY <1>4, EndsWithoutPowerOn DEF PowerOff, StopVM, VM
  <1>5. CASE Destroy(c)
    <2>1. \A left \in BOOLEAN :
            LET r == DestroyVm(vm[Obj(c)], left) IN r.power = "off" /\ ~r.cdIn
      BY DEF DestroyVm, NoVM
    <2>2. PICK left \in BOOLEAN :
            Govc(c, Obj(c), vm[Obj(c)].reg /\ vm[Obj(c)].power = "off",
                 DestroyVm(vm[Obj(c)], left), Goto(c, "ls"))
      BY <1>5 DEF Destroy
    <2>. QED
      BY <2>1, <2>2, EndsWithoutPowerOn DEF Govc
  <1>6. CASE DatastorePathExists(c)
    BY <1>6, EndsWithoutPowerOn DEF DatastorePathExists, Ask
  <1>7. CASE DeleteDir(c)
    <2>1. LET r == DeleteDatastoreDir(vm[Obj(c)]) IN
            r.power = vm[Obj(c)].power /\ r.cdIn = vm[Obj(c)].cdIn
      BY DEF DeleteDatastoreDir, VM
    <2>2. vm'[Obj(c)] \in {vm[Obj(c)], DeleteDatastoreDir(vm[Obj(c)])}
      BY <1>7 DEF DeleteDir, Govc
    <2>3. ~mem'[c].pon
      BY <1>7, EndsWithoutPowerOn DEF DeleteDir, Govc
    <2>. QED
      BY <2>1, <2>2, <2>3
  <1>. QED
    BY <1>2, <1>3, <1>4, <1>5, <1>6, <1>7 DEF DestroyStep

LEMMA OthersGentle ==
  ASSUME TypeOK, CallInv, NEW c \in Cid, Step(c), Op(c) # "create_vm",
         ~mem[c].pon
  PROVE  Gentle(c)
  <1>1. /\ vm \in [Cid -> VM] /\ Obj(c) \in Cid /\ vm[Obj(c)] \in VM
        /\ mem[c] \in Memory
    BY BuildingTypes DEF TypeOK, HostTypeOK, Obj
  <1>2. CASE CreateStemcellCall(c)
    <2>1. Obj(c) = c /\ Stemcell.power = "off" /\ ~Stemcell.cdIn
      BY <1>2 DEF CreateStemcellCall, CallInv, Creates, Stemcell, NoVM
    <2>. QED
      BY <1>1, <1>2, <2>1, EndsWithoutPowerOn
      DEF CreateStemcellCall, ExtractOvf, ImportOvf, Gentle
  <1>3. CASE DeleteVMCall(c) \/ DeleteStemcellCall(c)
    BY <1>3, DestroyGentle DEF DeleteVMCall, DeleteStemcellCall
  <1>4. CASE AttachDiskCall(c) \/ DetachDiskCall(c)
    <2>1. Op(c) \in {"attach_disk", "detach_disk"}
      BY <1>4 DEF AttachDiskCall, DetachDiskCall
    <2>2. CASE IsoStep(c)
      BY <2>1, <2>2, IsoStepGentle
    <2>3. CASE Attach(c)
      BY <1>1, <2>3, EndsWithoutPowerOn DEF Attach, Govc, AttachDisk, VM, Gentle
    <2>4. CASE Remove(c)
      <3>1. LET r == DetachDisk(vm[Obj(c)], mem[c].slot) IN
              r.power = vm[Obj(c)].power /\ r.cdIn = vm[Obj(c)].cdIn
        BY <1>1 DEF DetachDisk, VM
      <3>2. vm'[Obj(c)] \in {vm[Obj(c)], DetachDisk(vm[Obj(c)], mem[c].slot)}
        BY <1>1, <2>4 DEF Remove, Govc
      <3>3. ~mem'[c].pon
        BY <2>4, EndsWithoutPowerOn DEF Remove, Govc
      <3>. QED
        BY <3>1, <3>2, <3>3 DEF Gentle
    <2>5. CASE Find(c)
      <3>1. \A s : ~[mem[c] EXCEPT !.slot = s].pon
        BY <1>1 DEF Memory
      <3>. QED
        BY <2>5, <3>1, EndsWithoutPowerOn DEF Find, Gentle
    <2>6. CASE ReadEnv(c)
      <3>1. \A e : ~[mem[c] EXCEPT !.env = e].pon
        BY <1>1 DEF Memory
      <3>. QED
        BY <2>6, <3>1, EndsWithoutPowerOn DEF ReadEnv, Gentle
    <2>. QED
      BY <1>4, <2>2, <2>3, <2>4, <2>5, <2>6 DEF AttachDiskCall, DetachDiskCall
  <1>5. CASE HasVMCall(c) \/ CreateDiskCall(c) \/ DeleteDiskCall(c)
    BY <1>5, EndsWithoutPowerOn
    DEF HasVMCall, HasVM, ServeFound, CreateDiskCall, CreateDisk, DeleteDiskCall,
      DiskPathExists, DeleteDisk, Ask, Gentle
  <1>6. CASE Info(c) \/ Unsupported(c) \/ NotImplemented(c)
    BY <1>6, EndsWithoutPowerOn DEF Info, Unsupported, NotImplemented, Gentle
  <1>. QED
    BY <1>2, <1>3, <1>4, <1>5, <1>6 DEF Step, CreateVMCall

-----------------------------------------------------------------------------
(* The invariant                                                           *)

\* A step of c keeps what StartInv says of the other calls.
LEMMA StepOthers ==
  ASSUME TypeOK, CallInv, StartInv, NEW c \in Cid, Step(c),
         NEW d \in Cid \ {c}
  PROVE  /\ Building(d)' <=> Building(d)
         /\ Building(d) => Ready(d, pc'[d], vm'[d], mem'[d])
         /\ pc'[d] = "idle" => vm'[d] = NoVM /\ mem'[d] = FreshMemory(d)
         /\ ~Building(d) => ~mem'[d].pon
         /\ Op(d) # "create_vm" => vm'[d].power = "off" /\ ~vm'[d].cdIn
  <1>1. /\ call' = call /\ pc'[d] = pc[d] /\ mem'[d] = mem[d]
        /\ Op(d)' = Op(d)
    BY StepMoves, StepLocal DEF Moves, TypeOK, Op
  <1>2. pc[d] # "done" => vm'[d] = vm[d]
    BY NotTouched
  <1>3. ASSUME Op(d) # "create_vm"
        PROVE  vm'[d].power = "off" /\ ~vm'[d].cdIn
    <2>1. vm[d].power = "off" /\ ~vm[d].cdIn
      BY <1>3 DEF StartInv, RestInv
    <2>2. CASE d # Obj(c)
      BY <2>1, <2>2, StepLocal
    <2>3. CASE d = Obj(c)
      <3>1. Op(c) # "create_vm"
        BY <2>3 DEF CallInv, Creates
      <3>2. Gentle(c)
        BY <3>1, OthersGentle DEF StartInv, RestInv, Building
      <3>. QED
        BY <1>3, <2>1, <2>3, <3>2 DEF Gentle
    <2>. QED
      BY <2>2, <2>3
  <1>. QED
    BY <1>1, <1>2, <1>3 DEF Building, StartInv, BuildInv, RestInv

\* And what it says of c.
LEMMA StepOwn ==
  ASSUME TypeOK, CallInv, KindInv, StartInv, NEW c \in Cid, Step(c)
  PROVE  /\ Building(c)' => Ready(c, pc'[c], vm'[c], mem'[c])
         /\ pc'[c] # "idle"
         /\ ~Building(c)' => ~mem'[c].pon
         /\ Op(c) # "create_vm" => vm'[c].power = "off" /\ ~vm'[c].cdIn
  <1>1. /\ call' = call /\ Op(c)' = Op(c) /\ Op(c) \in AllOps
        /\ Running(c) /\ pc[c] \in LabelsOf(Op(c))
    BY StepMoves DEF TypeOK, Op
  <1>2. pc'[c] # "idle"
    BY <1>1, StepMoves DEF Moves, TypeOK, LabelsOf, AllOps, CreateVmLabels,
      IsoLabels, DestroyLabels
  <1>3. CASE Op(c) = "create_vm"
    <2>1. CreateVMStep(c) \/ IsoStep(c)
      BY <1>1, <1>3 DEF Step, CreateStemcellCall, DeleteStemcellCall, CreateVMCall,
        DeleteVMCall, HasVMCall, CreateDiskCall, DeleteDiskCall, AttachDiskCall,
        DetachDiskCall, Info, Unsupported, NotImplemented, LabelsOf,
        CreateVmLabels, IsoLabels
    <2>2. Ready(c, pc[c], vm[c], mem[c])
      BY <1>1, <1>3 DEF StartInv, BuildInv, Building, Running
    <2>3. Ends(c) \/ Ready(c, pc'[c], vm'[c], mem'[c])
      BY <1>3, <2>1, <2>2, BuildStep, BuildIsoStep
    <2>. QED
      BY <1>1, <1>2, <1>3, <2>3 DEF Building, Ends, Ready, NotPoweredYet, Powering
  <1>4. CASE Op(c) # "create_vm"
    <2>1. Gentle(c)
      BY <1>4, OthersGentle DEF StartInv, RestInv, Building
    <2>2. vm[c].power = "off" /\ ~vm[c].cdIn
      BY <1>4 DEF StartInv, RestInv
    <2>3. vm'[c].power = "off" /\ ~vm'[c].cdIn
      BY <1>4, <2>1, <2>2, StepLocal DEF Gentle
    <2>. QED
      BY <1>1, <1>2, <1>4, <2>1, <2>3 DEF Building, Gentle
  <1>. QED
    BY <1>3, <1>4

LEMMA StepKeepsStart ==
  ASSUME TypeOK, CallInv, KindInv, StartInv, NEW c \in Cid, Step(c)
  PROVE  StartInv'
  <1>1. \A d \in Cid : Op(d)' = Op(d)
    BY StepMoves DEF Op
  <1>2. BuildInv'
    BY StepOthers, StepOwn DEF BuildInv
  <1>3. RestInv'
    BY <1>1, StepOthers, StepOwn DEF RestInv
  <1>. QED
    BY <1>2, <1>3 DEF StartInv

\* The power-on is sent, or given up.
LEMMA PowerOnKeepsStart ==
  ASSUME TypeOK, StartInv, NEW c \in Cid, PowerOn(c)
  PROVE  StartInv'
  <1>1. /\ vm \in [Cid -> VM] /\ mem \in [Cid -> Memory]
        /\ vm[c] \in VM /\ mem[c] \in Memory
        /\ UNCHANGED <<pc, call>>
    BY DEF TypeOK, HostTypeOK, PowerOn, Local
  <1>2. Building(c) /\ pc[c] \in Powering
    BY DEF PowerOn, StartInv, RestInv, BuildInv, Ready, NotPoweredYet, Powering
  <1>3. /\ \A d \in Cid \ {c} : vm'[d] = vm[d] /\ mem'[d] = mem[d]
        /\ vm'[c] \in {vm[c], PowerOnVm(vm[c])}
        /\ mem'[c] = [mem[c] EXCEPT !.pon = FALSE]
    BY <1>1 DEF PowerOn
  <1>4. LET r == PowerOnVm(vm[c]) IN
          /\ r.nics = vm[c].nics /\ r.cfg = vm[c].cfg /\ r.iso = vm[c].iso
          /\ r.cdIn = vm[c].cdIn /\ r.cdOn = vm[c].cdOn
    BY <1>1 DEF PowerOnVm, VM
  <1>5. LET m == [mem[c] EXCEPT !.pon = FALSE] IN
          ~m.pon /\ m.todo = mem[c].todo /\ m.env = mem[c].env /\ m.iso = mem[c].iso
    BY <1>1 DEF Memory
  <1>6. Ready(c, pc[c], vm'[c], mem'[c])
    <2>1. Ready(c, pc[c], vm[c], mem[c])
      BY <1>2 DEF StartInv, BuildInv
    <2>2. /\ vm'[c].nics = vm[c].nics /\ vm'[c].cfg = vm[c].cfg
          /\ vm'[c].iso = vm[c].iso /\ vm'[c].cdIn = vm[c].cdIn
          /\ vm'[c].cdOn = vm[c].cdOn
      BY <1>3, <1>4
    <2>3. /\ ~mem'[c].pon /\ mem'[c].todo = mem[c].todo
          /\ mem'[c].env = mem[c].env /\ mem'[c].iso = mem[c].iso
      BY <1>3, <1>5
    <2>4. NotPoweredYet(pc[c], vm'[c], mem'[c])
      BY <1>2, <2>3 DEF NotPoweredYet
    <2>. QED
      BY <2>1, <2>2, <2>3, <2>4, NetworksSame
      DEF Ready, HardwareDone, EnvironmentDone
  <1>7. \A d \in Cid : Building(d)' = Building(d) /\ Op(d)' = Op(d)
    BY <1>1 DEF Building, Op
  <1>8. BuildInv'
    BY <1>1, <1>3, <1>6, <1>7 DEF StartInv, BuildInv
  <1>9. pc[c] # "idle" /\ Op(c) = "create_vm"
    BY <1>2 DEF Powering, Building
  <1>10. RestInv'
    BY <1>1, <1>2, <1>3, <1>7, <1>9 DEF StartInv, RestInv
  <1>. QED
    BY <1>8, <1>10 DEF StartInv

\* The host's power-on task advances or fails.
LEMMA HostKeepsStart ==
  ASSUME TypeOK, StartInv, NEW c \in Cid, HostStep(c) \/ PowerOnFails(c)
  PROVE  StartInv'
  <1>1. vm \in [Cid -> VM] /\ vm[c] \in VM /\ UNCHANGED <<pc, call, mem>>
    BY DEF TypeOK, HostTypeOK, HostStep, PowerOnFails, Local
  <1>2. PICK p \in Power : vm[c].power # "off" /\ vm' = [vm EXCEPT ![c].power = p]
    BY DEF HostStep, PowerOnFails, HostAsks, HostBoots, HostFails, Power
  <1>3. /\ \A d \in Cid \ {c} : vm'[d] = vm[d]
        /\ vm'[c].nics = vm[c].nics /\ vm'[c].cfg = vm[c].cfg
        /\ vm'[c].iso = vm[c].iso /\ vm'[c].cdIn = vm[c].cdIn
        /\ vm'[c].cdOn = vm[c].cdOn
    BY <1>1, <1>2 DEF VM
  <1>4. Op(c) = "create_vm" /\ pc[c] # "idle"
    BY <1>2 DEF StartInv, RestInv, NoVM
  <1>5. \A d \in Cid : Building(d)' = Building(d) /\ Op(d)' = Op(d)
    BY <1>1 DEF Building, Op
  <1>6. Building(c) => Ready(c, pc[c], vm'[c], mem[c])
    <2>. SUFFICES ASSUME Building(c) PROVE Ready(c, pc[c], vm'[c], mem[c])
      OBVIOUS
    <2>1. Ready(c, pc[c], vm[c], mem[c])
      BY DEF StartInv, BuildInv
    <2>. QED
      BY <1>2, <1>3, <2>1, NetworksSame
      DEF Ready, HardwareDone, EnvironmentDone, NotPoweredYet
  <1>7. BuildInv'
    BY <1>1, <1>3, <1>5, <1>6 DEF StartInv, BuildInv
  <1>8. RestInv'
    BY <1>1, <1>3, <1>4, <1>5 DEF StartInv, RestInv
  <1>. QED
    BY <1>7, <1>8 DEF StartInv

\* The director's call begins with nothing done.
LEMMA BeginKeepsStart ==
  ASSUME TypeOK, KindInv, StartInv, NEW c \in Cid, Begin(c)
  PROVE  StartInv'
  <1>1. /\ pc[c] = "idle" /\ UNCHANGED <<vm, mem>>
        /\ pc'[c] = First(Op(c)') /\ pc'[c] \notin {"idle", "done"}
        /\ \A d \in Cid \ {c} : Op(d)' = Op(d) /\ pc'[d] = pc[d]
    BY Begins DEF Begin
  <1>2. /\ vm[c] = NoVM /\ mem[c] = FreshMemory(c) /\ Op(c) = "unknown"
    BY <1>1 DEF StartInv, RestInv, KindInv
  <1>3. Ready(c, "props", NoVM, FreshMemory(c))
    BY DEF Ready, NetworksDone, HardwareDone, EnvironmentDone, NotPoweredYet,
      Iso, IsoLabels, NoVM, FreshMemory
  <1>4. Op(c)' = "create_vm" => pc'[c] = "props"
    BY <1>1 DEF First
  <1>5. \A d \in Cid \ {c} : Building(d)' = Building(d)
    BY <1>1 DEF Building
  <1>6. BuildInv'
    BY <1>1, <1>2, <1>3, <1>4, <1>5 DEF StartInv, BuildInv, Building
  <1>7. NoVM.power = "off" /\ ~NoVM.cdIn /\ ~FreshMemory(c).pon
    BY DEF NoVM, FreshMemory
  <1>8. RestInv'
    BY <1>1, <1>2, <1>5, <1>7 DEF StartInv, RestInv
  <1>. QED
    BY <1>6, <1>8 DEF StartInv

\* A process that dies leaves its VM as it is.
LEMMA KillKeepsStart ==
  ASSUME TypeOK, StartInv, NEW c \in Cid, Kill(c)
  PROVE  StartInv'
  <1>1. /\ UNCHANGED <<vm, call>> /\ Ends(c)
        /\ \A d \in Cid \ {c} : pc'[d] = pc[d] /\ mem'[d] = mem[d]
    BY EndsOrGoes DEF Kill, Local, Respond, TypeOK
  <1>2. \A d \in Cid : /\ Op(d)' = Op(d)
                       /\ d # c => Building(d)' = Building(d)
    BY <1>1 DEF Building, Op
  <1>. QED
    BY <1>1, <1>2 DEF StartInv, BuildInv, RestInv, Ends, Building

LEMMA SameKeepsStart ==
  ASSUME StartInv, UNCHANGED <<vm, call, pc, mem>>
  PROVE  StartInv'
  BY DEF StartInv, BuildInv, RestInv, Building, Op

\* StartInv is an invariant of the CPI.
THEOREM StartInvariant == Spec => [](ContractInv /\ StartInv)
  <1>1. Init => StartInv
    <2>. SUFFICES ASSUME Init PROVE StartInv
      OBVIOUS
    <2>1. \A c \in Cid : /\ Op(c) # "create_vm" /\ mem[c] = FreshMemory(c)
                         /\ vm[c] \in {NoVM, Stemcell}
                         /\ pc[c] = "idle" => vm[c] = NoVM
      BY DEF Init, Op
    <2>2. /\ \A r \in {NoVM, Stemcell} : r.power = "off" /\ ~r.cdIn
          /\ \A c \in Cid : ~FreshMemory(c).pon
      BY DEF NoVM, Stemcell, FreshMemory
    <2>. QED
      BY <2>1, <2>2 DEF StartInv, BuildInv, RestInv, Building
  <1>2. ContractInv /\ StartInv /\ [Next]_vars => StartInv'
    <2>. SUFFICES ASSUME ContractInv, StartInv, [Next]_vars PROVE StartInv'
      OBVIOUS
    <2>1. TypeOK /\ CallInv /\ KindInv
      BY DEF ContractInv, DeleteInv
    <2>2. ASSUME NEW c \in Cid, Begin(c) PROVE StartInv'
      BY <2>1, <2>2, BeginKeepsStart
    <2>3. ASSUME NEW c \in Cid, Step(c) PROVE StartInv'
      BY <2>1, <2>3, StepKeepsStart
    <2>4. ASSUME NEW c \in Cid, PowerOn(c) PROVE StartInv'
      BY <2>1, <2>4, PowerOnKeepsStart
    <2>5. ASSUME NEW c \in Cid, HostStep(c) \/ PowerOnFails(c) PROVE StartInv'
      BY <2>1, <2>5, HostKeepsStart
    <2>6. ASSUME NEW c \in Cid, Kill(c) PROVE StartInv'
      BY <2>1, <2>6, KillKeepsStart
    <2>7. CASE Reboot
      BY <2>7, SameKeepsStart DEF Reboot
    <2>8. CASE UNCHANGED vars
      BY <2>8, SameKeepsStart DEF vars
    <2>. QED
      BY <2>2, <2>3, <2>4, <2>5, <2>6, <2>7, <2>8 DEF Next, Quiet
  <1>. QED
    BY <1>1, <1>2, ContractInvariant, PTL DEF Spec

\* When create_vm starts its VM, and until it has answered, the VM has all its
\* hardware and networks and a mounted iso with its own environment, whatever
\* else fails or runs beside it, if only writing the iso does not fail
\* silently.
THEOREM StartedComplete ==
  ASSUME "iso" \notin Faults
  PROVE  Spec => []StartsWithOwnEnv
  <1>1. ContractInv /\ StartInv => StartsWithOwnEnv
    <2>. SUFFICES ASSUME ContractInv, StartInv, NEW c \in Cid,
                         pc[c] \in {"start", "poll", "answer"}
                  PROVE  /\ vm[c].cfg = {"hardware", "resources", "ephemeral"}
                         /\ {p[1] : p \in vm[c].nics} = Nets
                         /\ Mounted(vm[c])
                         /\ vm[c].iso = [vm |-> c, disks |-> {}, nics |-> vm[c].nics]
      BY DEF StartsWithOwnEnv
    <2>1. Op(c) = "create_vm" /\ vm[c] \in VM
      BY DEF ContractInv, DeleteInv, CallInv, TypeOK, HostTypeOK, LabelsOf, Op,
        CreateVmLabels, IsoLabels, DestroyLabels
    <2>2. Ready(c, pc[c], vm[c], mem[c])
      BY <2>1 DEF StartInv, BuildInv, Building
    <2>. USE <2>2 DEF Ready
    <2>3. mem[c].todo = {} /\ {"hardware", "resources", "ephemeral"} \subseteq vm[c].cfg
      BY DEF HardwareDone, Iso
    <2>4. vm[c].cfg = {"hardware", "resources", "ephemeral"}
      BY <2>1, <2>3 DEF VM
    <2>5. {p[1] : p \in vm[c].nics} = Nets
      BY <2>3 DEF NetworksDone
    <2>6. Mounted(vm[c])
      BY DEF HardwareDone, Mounted
    <2>. QED
      BY <2>4, <2>5, <2>6 DEF EnvironmentDone, Made
  <1>. QED
    BY <1>1, StartInvariant, PTL

-----------------------------------------------------------------------------
(* The refinement                                                          *)

NoiseOf(c) == StartsVM(c) /\ resp[c] = "garbled"

\* A step that is not seen.
LEMMA Unseen ==
  ASSUME NEW c, vm'[c].power = vm[c].power,
         UNCHANGED <<GoroutineOf(c), MainOf(c), ResultOf(c), NoiseOf(c)>>
  PROVE  HandshakeStep(c)
  BY DEF HandshakeStep, Handshake!hvars, NoiseOf

\* Calls other than create_vm, and those that have not come to the start yet.
LEMMA NotYetSeen ==
  ASSUME NEW c, vm'[c].power = vm[c].power,
         ~StartsVM(c) \/ pc[c] \notin {"poll", "answer", "done"},
         ~StartsVM(c)' \/ pc'[c] \notin {"poll", "answer", "done"},
         pc[c] # "answer", pc'[c] # "answer",
         StartsVM(c) => resp[c] # "garbled",
         StartsVM(c)' => resp'[c] # "garbled"
  PROVE  HandshakeStep(c)
  BY Unseen DEF GoroutineOf, MainOf, ResultOf, NoiseOf, Exited

\* A create_vm fails or dies.
LEMMA Abandons ==
  ASSUME NEW c, vm'[c].power = vm[c].power \/
                (/\ pc[c] = "answer" /\ vm[c].power = "asking"
                 /\ vm'[c].power = "booting"),
         StartsVM(c), StartsVM(c)', pc[c] # "done", pc'[c] = "done",
         ~mem'[c].pon, resp[c] = "none", resp'[c] \in {"none", "error"}
  PROVE  HandshakeStep(c)
  <1>1. MainOf(c) # "returned" /\ MainOf(c)' = "returned"
    BY DEF MainOf, Exited
  <1>2. ResultOf(c)' = "error" /\ GoroutineOf(c)' = "over"
    BY DEF ResultOf, GoroutineOf, Exited
  <1>3. ~NoiseOf(c) /\ ~NoiseOf(c)'
    BY DEF NoiseOf
  <1>4. pc[c] = "answer" => MainOf(c) = "answer"
    BY DEF MainOf, Exited
  <1>. QED
    BY <1>1, <1>2, <1>3, <1>4
    DEF HandshakeStep, Handshake!HandshakeNext, Handshake!Abandon, NoiseOf

\* Once create_vm has returned, its VM's power goes where the host takes it,
\* or off.
LEMMA AfterReturn ==
  ASSUME NEW c, StartsVM(c), pc[c] = "done", UNCHANGED <<call, pc[c], resp[c], mem[c]>>,
         vm'[c].power \in {vm[c].power, "off"}
  PROVE  HandshakeStep(c)
  <1>1. UNCHANGED <<GoroutineOf(c), MainOf(c), ResultOf(c), NoiseOf(c)>>
    BY DEF GoroutineOf, MainOf, ResultOf, NoiseOf, StartsVM, Exited, Op
  <1>2. MainOf(c) = "returned"
    BY DEF MainOf, Exited
  <1>3. CASE vm'[c].power = vm[c].power
    BY <1>1, <1>3, Unseen
  <1>4. CASE vm'[c].power = "off"
    BY <1>1, <1>2, <1>4
    DEF HandshakeStep, Handshake!HandshakeNext, Handshake!StopLater, NoiseOf
  <1>. QED
    BY <1>3, <1>4

\* The steps of create_vm before the start and after it.
EarlyStep(c) ==
  \/ CloudProps(c) \/ Copy(c) \/ Register(c) \/ Hardware(c) \/ Resources(c)
  \/ Network(c) \/ Ephemeral(c) \/ IsoStep(c)

Fails(c) == pc'[c] = "done" /\ ~mem'[c].pon /\ resp'[c] \in {"none", "error"}

\* How a step of create_vm ends, with the labels that the handshake sees.
LEMMA EndsOrStays ==
  ASSUME TypeOK, NEW c \in Cid, Op(c) = "create_vm"
  PROVE  /\ \A l, m : GotoWith(c, l, m) => pc'[c] = l
         /\ \A l : Goto(c, l) => pc'[c] = l
         /\ \A r : Respond(c, r) => pc'[c] = "done" /\ resp'[c] = r /\ ~mem'[c].pon
         /\ Fail(c) => Fails(c)
         /\ MayFail(c) => Fails(c)
  BY EndsOrGoes DEF GotoWith, Goto, Respond, Fail, MayFail, Fails, Ends, TypeOK

LEMMA EarlyIsUnseen ==
  ASSUME TypeOK, CallInv, NEW c \in Cid, EarlyStep(c), Op(c) = "create_vm"
  PROVE  /\ pc[c] \notin {"poll", "answer", "done"}
         /\ pc'[c] \notin {"poll", "answer", "done"} \/ Fails(c)
         /\ vm'[c].power = vm[c].power
  <1>1. vm \in [Cid -> VM] /\ vm[c] \in VM /\ Obj(c) = c
    BY BuildingTypes DEF TypeOK, HostTypeOK, CallInv, Creates
  <1>. USE <1>1
  <1>2. CASE CloudProps(c)
    BY <1>2, EndsOrStays DEF CloudProps, Ask
  <1>3. CASE Copy(c)
    BY <1>3, EndsOrStays DEF Copy, Govc, CopyDatastoreStemcell, VM
  <1>4. CASE Register(c)
    BY <1>4, EndsOrStays DEF Register, Govc, RegisterDatastoreVm, VM
  <1>5. CASE Hardware(c)
    BY <1>5, EndsOrStays DEF Hardware, Govc, ConfigVMHardware, VM
  <1>6. CASE Resources(c)
    BY <1>6, EndsOrStays DEF Resources, Govc, SetVMResources, VM
  <1>7. CASE Network(c)
    <2>1. \A net, mac : AddNetwork(vm[c], net, mac).power = vm[c].power
      BY DEF AddNetwork, VM
    <2>2. vm'[c] = vm[c] \/ \E net, mac : vm'[c] = AddNetwork(vm[c], net, mac)
      BY <1>7 DEF Network, Govc
    <2>3. pc[c] = "network" /\ (pc'[c] = "network" \/ Fails(c))
      BY <1>7, EndsOrStays DEF Network, Govc
    <2>. QED
      BY <2>1, <2>2, <2>3
  <1>8. CASE Ephemeral(c)
    BY <1>8, EndsOrStays DEF Ephemeral, Govc, CreateEphemeralDisk, VM
  <1>9. CASE Trunc(c) \/ Write(c)
    BY <1>9, EndsOrStays DEF Trunc, Write
  <1>10. CASE MkIso(c)
    BY <1>10, EndsOrStays DEF MkIso, Ask
  <1>11. CASE Disconnect(c)
    BY <1>11, EndsOrStays DEF Disconnect, Govc, DisconnectCdrom, VM
  <1>12. CASE Eject(c)
    BY <1>12, EndsOrStays DEF Eject, Govc, EjectCdrom, VM
  <1>13. CASE UploadIso(c)
    <2>1. Upload(vm[c], mem[c].iso).power = vm[c].power
      BY DEF Upload, VM
    <2>2. vm'[c] \in {vm[c], Upload(vm[c], mem[c].iso)}
      BY <1>13 DEF UploadIso, Govc
    <2>3. pc[c] = "upload" /\ (pc'[c] = "insert" \/ Fails(c))
      BY <1>13, EndsOrStays DEF UploadIso, Govc
    <2>. QED
      BY <2>1, <2>2, <2>3
  <1>14. CASE Insert(c)
    BY <1>14, EndsOrStays DEF Insert, Govc, InsertCdrom, VM
  <1>15. CASE Connect(c)
    BY <1>15, EndsOrStays DEF Connect, Govc, ConnectCdrom, VM
  <1>. QED
    BY <1>2, <1>3, <1>4, <1>5, <1>6, <1>7, <1>8, <1>9, <1>10, <1>11, <1>12,
      <1>13, <1>14, <1>15
    DEF EarlyStep, IsoStep

\* The steps of StartVM itself are the handshake's.
LEMMA StartImplements ==
  ASSUME TypeOK, CallInv, StartInv, NEW c \in Cid, Op(c) = "create_vm",
         Op(c)' = "create_vm", resp[c] = "none", pc[c] # "done",
         CreateVMStep(c) \/ IsoStep(c)
  PROVE  HandshakeStep(c)
  <1>1. /\ vm \in [Cid -> VM] /\ vm[c] \in VM
        /\ pc \in [Cid -> Labels] /\ mem \in [Cid -> Memory] /\ mem[c] \in Memory
        /\ StartsVM(c) /\ StartsVM(c)'
    BY DEF TypeOK, HostTypeOK, StartsVM
  <1>2. Ready(c, pc[c], vm[c], mem[c])
    BY DEF StartInv, BuildInv, Building
  <1>3. CASE EarlyStep(c)
    <2>1. /\ pc[c] \notin {"poll", "answer", "done"}
          /\ pc'[c] \notin {"poll", "answer", "done"} \/ Fails(c)
          /\ vm'[c].power = vm[c].power
      BY <1>3, EarlyIsUnseen
    <2>2. CASE pc'[c] \notin {"poll", "answer", "done"}
      <3>1. resp'[c] = resp[c]
        BY <2>2, StepMoves, <1>1, <1>3
        DEF EarlyStep, Step, CreateVMCall, CreateVMStep, Moves, TypeOK
      <3>. QED
        BY <1>1, <2>1, <2>2, <3>1, NotYetSeen
    <2>3. CASE Fails(c)
      BY <1>1, <2>1, <2>3, Abandons DEF Fails
    <2>. QED
      BY <2>1, <2>2, <2>3
  <1>4. CASE StartVM(c)
    <2>1. /\ pc[c] = "start" /\ pc'[c] = "poll" /\ mem'[c].pon
          /\ vm' = vm /\ resp' = resp
      BY <1>1, <1>4 DEF StartVM, GotoWith, Memory
    <2>. QED
      BY <1>1, <2>1, Unseen DEF GoroutineOf, MainOf, ResultOf, NoiseOf, Exited
  <1>5. CASE Poll(c)
    <2>1. /\ pc[c] = "poll" /\ vm' = vm
          /\ \/ /\ pc'[c] = "answer" /\ VmState(vm[c]) = "state-blocking-question"
                /\ UNCHANGED <<mem[c], resp>>
             \/ /\ pc'[c] = "poll" /\ UNCHANGED <<mem[c], resp>>
             \/ Fails(c)
      BY <1>1, <1>5, EndsOrStays DEF Poll, Ask, Goto, GotoWith
    <2>2. CASE pc'[c] = "answer"
      <3>1. vm[c].power = "asking" /\ UNCHANGED <<mem[c], resp>>
        BY <2>1, <2>2 DEF VmState, Fails
      <3>2. UNCHANGED <<GoroutineOf(c), ResultOf(c), NoiseOf(c)>>
        BY <1>1, <2>1, <2>2, <3>1 DEF GoroutineOf, ResultOf, NoiseOf, Exited
      <3>3. MainOf(c) = "poll" /\ MainOf(c)' = "answer"
        BY <2>1, <2>2 DEF MainOf, Exited
      <3>. QED
        BY <2>1, <3>1, <3>2, <3>3
        DEF HandshakeStep, Handshake!HandshakeNext, Handshake!Poll, NoiseOf
    <2>3. CASE pc'[c] = "poll"
      BY <1>1, <2>1, <2>3, Unseen
      DEF GoroutineOf, MainOf, ResultOf, NoiseOf, Exited, Fails
    <2>4. CASE Fails(c)
      BY <1>1, <2>1, <2>4, Abandons DEF Fails
    <2>. QED
      BY <2>1, <2>2, <2>3, <2>4
  <1>6. CASE Answer(c)
    <2>. DEFINE Booting == vm[c].power = "asking" /\ vm'[c].power = "booting"
    <2>1. AnswerCopyQuestion(vm[c]).power = "booting"
      BY <1>1 DEF AnswerCopyQuestion, VM
    <2>2. pc[c] = "answer" /\ pc'[c] = "done" /\ ~mem'[c].pon
      BY <1>6, EndsOrStays DEF Answer, Govc, Ask, Fails
    <2>3. \/ resp'[c] = "ok" /\ Booting
          \/ resp'[c] = "garbled" /\ vm' = vm /\ vm[c].power # "asking"
          \/ /\ resp'[c] \in {"none", "error"}
             /\ vm'[c].power = vm[c].power \/ Booting
      <3>1. CASE VmState(vm[c]) = "state-blocking-question"
        <4>1. vm[c].power = "asking"
          BY <3>1 DEF VmState
        <4>2. Govc(c, c, TRUE, AnswerCopyQuestion(vm[c]), Respond(c, "ok"))
          BY <1>6, <3>1 DEF Answer
        <4>. QED
          BY <1>1, <2>1, <4>1, <4>2, EndsOrStays DEF Govc, Fails
      <3>2. CASE VmState(vm[c]) \in {"state-on", "state-off"}
        <4>1. vm[c].power # "asking"
          BY <3>2 DEF VmState
        <4>2. Ask(c, Respond(c, "garbled"))
          BY <1>6, <3>2 DEF Answer
        <4>. QED
          BY <4>1, <4>2, EndsOrStays DEF Ask, Fails
      <3>3. CASE VmState(vm[c]) = "state-not-found"
        BY <1>6, <3>3, EndsOrStays DEF Answer, Ask, Fails
      <3>. QED
        BY <1>6, <3>1, <3>2, <3>3 DEF Answer
    <2>4. CASE resp'[c] \in {"none", "error"}
      BY <1>1, <2>2, <2>3, <2>4, Abandons
    <2>5. CASE resp'[c] \in {"ok", "garbled"}
      <3>1. MainOf(c) = "answer" /\ MainOf(c)' = "returned"
        BY <1>1, <2>2 DEF MainOf, Exited
      <3>2. ResultOf(c)' = "success"
        BY <1>1, <2>2, <2>5 DEF ResultOf, Exited
      <3>3. ~NoiseOf(c) /\ (NoiseOf(c)' <=> resp'[c] = "garbled")
        BY <1>1 DEF NoiseOf
      <3>4. ~mem[c].pon
        BY <1>2, <2>2 DEF Ready, NotPoweredYet
      <3>5. GoroutineOf(c) = "over" /\ GoroutineOf(c)' = "over"
        <4>1. GoroutineOf(c) = "over"
          BY <1>1, <2>2, <3>4 DEF GoroutineOf
        <4>2. GoroutineOf(c)' = "over"
          BY <1>1, <2>2 DEF GoroutineOf
        <4>. QED
          BY <4>1, <4>2
      <3>. QED
        BY <2>3, <2>5, <3>1, <3>2, <3>3, <3>5
        DEF HandshakeStep, Handshake!HandshakeNext, Handshake!Answer, NoiseOf
    <2>. QED
      BY <2>3, <2>4, <2>5
  <1>. QED
    BY <1>3, <1>4, <1>5, <1>6 DEF CreateVMStep, EarlyStep

\* Nothing of c that the handshake sees has changed, but perhaps the power.
LEMMA OnlyPower ==
  ASSUME NEW c, UNCHANGED <<pc[c], resp[c], mem[c], Op(c)>>
  PROVE  /\ UNCHANGED <<GoroutineOf(c), MainOf(c), ResultOf(c), NoiseOf(c)>>
         /\ vm'[c].power = vm[c].power => HandshakeStep(c)
  <1>1. UNCHANGED <<GoroutineOf(c), MainOf(c), ResultOf(c), NoiseOf(c)>>
    BY DEF GoroutineOf, MainOf, ResultOf, NoiseOf, StartsVM, Exited
  <1>. QED
    BY <1>1, Unseen

\* A step of some process, seen by the handshake of c.
LEMMA StepImplements ==
  ASSUME TypeOK, CallInv, KindInv, StartInv, NEW d \in Cid, Step(d), NEW c \in Cid
  PROVE  HandshakeStep(c)
  <1>1. /\ call' = call /\ \A n \in Cid : Op(n)' = Op(n)
        /\ pc \in [Cid -> Labels] /\ resp \in [Cid -> Responses]
        /\ Running(d) /\ pc[d] \in LabelsOf(Op(d)) /\ resp[d] = "none"
    BY StepMoves DEF Op, TypeOK, CallInv, Running
  <1>2. CASE c # d
    <2>1. UNCHANGED <<pc[c], resp[c], mem[c], Op(c)>>
      BY <1>1, <1>2, StepMoves, StepLocal DEF Moves
    <2>2. CASE pc[c] # "done"
      BY <1>2, <2>1, <2>2, NotTouched, OnlyPower
    <2>3. CASE ~StartsVM(c)
      <3>1. vm[c].power = "off" /\ vm'[c].power = "off"
        BY <1>2, <2>3, StepOthers DEF StartsVM, StartInv, RestInv
      <3>. QED
        BY <2>1, <3>1, OnlyPower
    <2>4. CASE StartsVM(c) /\ pc[c] = "done"
      <3>1. CASE Obj(d) # c
        BY <2>1, <3>1, StepLocal, OnlyPower
      <3>2. CASE Obj(d) = c
        <4>1. Op(d) # "create_vm"
          BY <1>2, <3>2 DEF CallInv, Creates
        <4>2. Gentle(d)
          BY <4>1, OthersGentle DEF StartInv, RestInv, Building
        <4>. QED
          BY <1>1, <2>1, <2>4, <3>2, <4>2, AfterReturn DEF Gentle
      <3>. QED
        BY <3>1, <3>2
    <2>. QED
      BY <2>2, <2>3, <2>4
  <1>3. CASE c = d /\ Op(c) # "create_vm"
    <2>1. vm[c].power = "off" /\ vm'[c].power = "off"
      BY <1>3, StepOwn DEF StartInv, RestInv
    <2>2. "answer" \notin LabelsOf(Op(c))
      BY <1>1, <1>3 DEF TypeOK, Op, LabelsOf, AllOps, DestroyLabels, IsoLabels
    <2>3. pc[c] # "answer" /\ pc'[c] # "answer"
      BY <1>1, <1>3, <2>2, StepMoves DEF Moves
    <2>. QED
      BY <1>1, <1>3, <2>1, <2>3, NotYetSeen DEF StartsVM
  <1>4. CASE c = d /\ Op(c) = "create_vm"
    <2>1. CreateVMStep(c) \/ IsoStep(c)
      BY <1>1, <1>4 DEF Step, CreateStemcellCall, DeleteStemcellCall, CreateVMCall,
        DeleteVMCall, HasVMCall, CreateDiskCall, DeleteDiskCall, AttachDiskCall,
        DetachDiskCall, Info, Unsupported, NotImplemented, LabelsOf,
        CreateVmLabels, IsoLabels
    <2>. QED
      BY <1>1, <1>4, <2>1, StartImplements DEF Running
  <1>. QED
    BY <1>2, <1>3, <1>4

\* The goroutine's command is SendPowerOn.
LEMMA PowerOnImplements ==
  ASSUME TypeOK, CallInv, StartInv, NEW d \in Cid, PowerOn(d), NEW c \in Cid
  PROVE  HandshakeStep(c)
  <1>1. /\ vm \in [Cid -> VM] /\ mem \in [Cid -> Memory] /\ vm[d] \in VM
        /\ mem[d] \in Memory /\ UNCHANGED <<pc, resp, call>>
    BY DEF TypeOK, HostTypeOK, PowerOn, Local
  <1>2. CASE c # d
    <2>1. vm'[c] = vm[c] /\ mem'[c] = mem[c]
      BY <1>1, <1>2 DEF PowerOn
    <2>. QED
      BY <1>1, <2>1, OnlyPower DEF Op
  <1>3. CASE c = d
    <2>1. Building(c) /\ pc[c] = "poll" /\ mem[c].pon /\ ~mem'[c].pon
      BY <1>1, <1>3
      DEF PowerOn, StartInv, RestInv, BuildInv, Ready, NotPoweredYet, Memory
    <2>2. \/ vm'[c].power = vm[c].power
          \/ vm[c].power = "off" /\ vm'[c].power = "starting"
      BY <1>1, <1>3 DEF PowerOn, PowerOnVm, VM
    <2>3. GoroutineOf(c) = "pending" /\ GoroutineOf(c)' = "over"
      BY <1>1, <2>1 DEF GoroutineOf, Building, StartsVM, Op
    <2>4. UNCHANGED <<MainOf(c), ResultOf(c), NoiseOf(c)>>
      BY <1>1 DEF MainOf, ResultOf, NoiseOf, Exited, StartsVM, Op
    <2>. QED
      BY <2>2, <2>3, <2>4
      DEF HandshakeStep, Handshake!HandshakeNext, Handshake!SendPowerOn, NoiseOf
  <1>. QED
    BY <1>2, <1>3

\* The host's steps are the handshake's.
LEMMA HostImplements ==
  ASSUME TypeOK, StartInv, NEW d \in Cid, HostStep(d) \/ PowerOnFails(d), NEW c \in Cid
  PROVE  HandshakeStep(c)
  <1>1. /\ vm \in [Cid -> VM] /\ vm[d] \in VM /\ UNCHANGED <<pc, resp, call, mem>>
    BY DEF TypeOK, HostTypeOK, HostStep, PowerOnFails, Local
  <1>2. UNCHANGED <<pc[c], resp[c], mem[c], Op(c)>>
    BY <1>1 DEF Op
  <1>3. CASE c # d
    <2>1. vm'[c] = vm[c]
      BY <1>1, <1>3 DEF HostStep, PowerOnFails, HostAsks, HostBoots, HostFails
    <2>. QED
      BY <1>2, <2>1, OnlyPower
  <1>4. CASE c = d
    <2>1. \/ vm[c].power = "starting" /\ vm'[c].power = "asking"
          \/ vm[c].power = "booting" /\ vm'[c].power = "on"
          \/ /\ "poweron" \in Faults /\ vm'[c].power = "off"
             /\ vm[c].power \in {"starting", "asking", "booting"}
      BY <1>1, <1>4 DEF HostStep, PowerOnFails, HostAsks, HostBoots, HostFails, VM
    <2>2. UNCHANGED <<GoroutineOf(c), MainOf(c), ResultOf(c), NoiseOf(c)>>
      BY <1>2, OnlyPower
    <2>. QED
      BY <2>1, <2>2
      DEF HandshakeStep, Handshake!HandshakeNext, Handshake!HostAsks,
        Handshake!HostBoots, Handshake!HostFails, NoiseOf
  <1>. QED
    BY <1>3, <1>4

\* The call that begins has not come to its start; the one that dies abandons.
LEMMA BeginImplements ==
  ASSUME TypeOK, CallInv, KindInv, StartInv, NEW d \in Cid, Begin(d), NEW c \in Cid
  PROVE  HandshakeStep(c)
  <1>1. /\ pc[d] = "idle" /\ UNCHANGED <<vm, resp, mem>>
        /\ pc'[d] = First(Op(d)')
        /\ \A n \in Cid \ {d} : Op(n)' = Op(n) /\ pc'[n] = pc[n]
    BY Begins DEF Begin
  <1>2. CASE c # d
    BY <1>1, <1>2, OnlyPower
  <1>3. CASE c = d
    <2>1. pc'[c] \notin {"poll", "answer", "done"} /\ resp[c] = "none"
      BY <1>1, <1>3 DEF First, CallInv
    <2>. QED
      BY <1>1, <1>3, <2>1, NotYetSeen
  <1>. QED
    BY <1>2, <1>3

LEMMA KillImplements ==
  ASSUME TypeOK, CallInv, NEW d \in Cid, Kill(d), NEW c \in Cid
  PROVE  HandshakeStep(c)
  <1>1. /\ UNCHANGED <<vm, call>> /\ Ends(d) /\ Running(d) /\ resp'[d] = "none"
        /\ \A n \in Cid \ {d} : pc'[n] = pc[n] /\ mem'[n] = mem[n] /\ resp'[n] = resp[n]
    BY EndsOrGoes DEF Kill, Local, Respond, TypeOK
  <1>2. CASE c # d
    BY <1>1, <1>2, OnlyPower DEF Op
  <1>3. CASE c = d /\ StartsVM(c)
    BY <1>1, <1>3, Abandons DEF StartsVM, Op, CallInv, Running, Ends
  <1>4. CASE c = d /\ ~StartsVM(c)
    <2>1. pc[c] # "answer" /\ pc'[c] # "answer"
      BY <1>1, <1>4 DEF StartsVM, CallInv, TypeOK, Op, LabelsOf, AllOps,
        DestroyLabels, IsoLabels, Ends
    <2>. QED
      BY <1>1, <1>4, <2>1, NotYetSeen DEF StartsVM, Op
  <1>. QED
    BY <1>2, <1>3, <1>4

\* The start of every create_vm is a PowerOnHandshake, with any calls and any
\* faults around it: Spec implements as many handshakes as there are calls.
THEOREM StartsImplementHandshakes == Spec => StartsAreHandshakes
  <1>1. Init => \A c \in Cid : Handshake(c)!HandshakeInit
    <2>. SUFFICES ASSUME Init, NEW c \in Cid PROVE Handshake(c)!HandshakeInit
      OBVIOUS
    <2>1. ~StartsVM(c) /\ pc[c] # "answer" /\ vm[c] \in {NoVM, Stemcell}
      BY DEF Init, StartsVM, Op
    <2>2. NoVM.power = "off" /\ Stemcell.power = "off"
      BY DEF NoVM, Stemcell
    <2>3. GoroutineOf(c) = "pending" /\ MainOf(c) = "poll" /\ ResultOf(c) = "none"
      BY <2>1 DEF GoroutineOf, MainOf, ResultOf, Exited
    <2>. QED
      BY <2>1, <2>2, <2>3 DEF Handshake!HandshakeInit
  <1>2. ContractInv /\ StartInv /\ [Next]_vars => \A c \in Cid : HandshakeStep(c)
    <2>. SUFFICES ASSUME ContractInv, StartInv, [Next]_vars, NEW c \in Cid
                  PROVE  HandshakeStep(c)
      OBVIOUS
    <2>1. TypeOK /\ CallInv /\ KindInv
      BY DEF ContractInv, DeleteInv
    <2>2. ASSUME NEW d \in Cid, Begin(d) PROVE HandshakeStep(c)
      BY <2>1, <2>2, BeginImplements
    <2>3. ASSUME NEW d \in Cid, Step(d) PROVE HandshakeStep(c)
      BY <2>1, <2>3, StepImplements
    <2>4. ASSUME NEW d \in Cid, PowerOn(d) PROVE HandshakeStep(c)
      BY <2>1, <2>4, PowerOnImplements
    <2>5. ASSUME NEW d \in Cid, HostStep(d) \/ PowerOnFails(d)
          PROVE  HandshakeStep(c)
      BY <2>1, <2>5, HostImplements
    <2>6. ASSUME NEW d \in Cid, Kill(d) PROVE HandshakeStep(c)
      BY <2>1, <2>6, KillImplements
    <2>7. CASE Reboot \/ UNCHANGED vars
      BY <2>7, OnlyPower DEF Reboot, vars, Op
    <2>. QED
      BY <2>2, <2>3, <2>4, <2>5, <2>6, <2>7 DEF Next, Quiet
  <1>. QED
    BY <1>1, <1>2, StartInvariant, PTL DEF Spec, StartsAreHandshakes

-----------------------------------------------------------------------------
(* Where a call can wait                                                   *)

\* How many steps at most the code at label l still has, the turns of its two
\* loops not counted.
StepsLeft(l) ==
  CASE l = "done"                                              -> 0
    [] l \in {"import", "present", "absent", "mkdisk", "rmdisk", "info",
              "panic", "notimpl", "rm", "answer"}              -> 1
    [] l \in {"extract", "has", "lsdisk", "ls", "poll"}        -> 2
    [] l \in {"destroy", "start"}                              -> 3
    [] l \in {"poweroff", "connect"}                           -> 4
    [] l \in {"stop", "insert"}                                -> 5
    [] l \in {"state", "upload"}                               -> 6
    [] l = "eject"                                             -> 7
    [] l = "disconnect"                                        -> 8
    [] l = "mkiso"                                             -> 9
    [] l = "write"                                             -> 10
    [] l = "trunc"                                             -> 11
    [] l \in {"network", "readenv"}                            -> 12
    [] l \in {"resources", "attach", "remove"}                 -> 13
    [] l \in {"hardware", "find"}                              -> 14
    [] l = "register"                                          -> 15
    [] l = "copy"                                              -> 16
    [] l = "props"                                             -> 17
    [] l = "idle"                                              -> 18

\* A step of c brings its call nearer to its end, adds one of the networks
\* that are left, or has polled a VM that asks nothing.
Onward(c) ==
  \/ StepsLeft(pc'[c]) < StepsLeft(pc[c])
  \/ /\ pc[c] = "network" /\ pc'[c] = "network"
     /\ mem'[c].todo \subseteq mem[c].todo /\ mem'[c].todo # mem[c].todo
  \/ /\ pc[c] = "poll" /\ pc'[c] = "poll"
     /\ VmState(vm[c]) # "state-blocking-question"

\* No call is taken back in its code, by whatever step.
NeverBack == \A c \in Cid :
  /\ Step(c) => Onward(c)
  /\ pc'[c] # pc[c] => StepsLeft(pc'[c]) < StepsLeft(pc[c])

\* The places in the order of the code.
LEMMA Places ==
  /\ StepsLeft("done") = 0 /\ StepsLeft("import") = 1
  /\ StepsLeft("present") = 1 /\ StepsLeft("absent") = 1
  /\ StepsLeft("has") = 2 /\ StepsLeft("mkdisk") = 1
  /\ StepsLeft("rmdisk") = 1 /\ StepsLeft("info") = 1
  /\ StepsLeft("panic") = 1 /\ StepsLeft("notimpl") = 1
  /\ StepsLeft("rm") = 1 /\ StepsLeft("answer") = 1
  /\ StepsLeft("extract") = 2 /\ StepsLeft("lsdisk") = 2
  /\ StepsLeft("ls") = 2 /\ StepsLeft("poll") = 2
  /\ StepsLeft("destroy") = 3 /\ StepsLeft("start") = 3
  /\ StepsLeft("poweroff") = 4 /\ StepsLeft("connect") = 4
  /\ StepsLeft("stop") = 5 /\ StepsLeft("insert") = 5
  /\ StepsLeft("state") = 6 /\ StepsLeft("upload") = 6
  /\ StepsLeft("eject") = 7 /\ StepsLeft("disconnect") = 8
  /\ StepsLeft("mkiso") = 9 /\ StepsLeft("write") = 10
  /\ StepsLeft("trunc") = 11 /\ StepsLeft("network") = 12
  /\ StepsLeft("readenv") = 12 /\ StepsLeft("resources") = 13
  /\ StepsLeft("attach") = 13 /\ StepsLeft("remove") = 13
  /\ StepsLeft("hardware") = 14 /\ StepsLeft("find") = 14
  /\ StepsLeft("register") = 15 /\ StepsLeft("copy") = 16
  /\ StepsLeft("props") = 17
  BY DEF StepsLeft

LEMMA EndsOnward ==
  ASSUME NEW c, Ends(c), pc[c] \in Labels \ {"done"}
  PROVE  Onward(c)
  BY SMTT(30)
  DEF Ends, Onward, StepsLeft, Labels, IsoLabels, CreateVmLabels, DestroyLabels

LEMMA CreateVMOnward ==
  ASSUME TypeOK, NEW c \in Cid, CreateVMStep(c)
  PROVE  Onward(c)
  <1>1. pc[c] \in Labels \ {"done"} /\ mem[c] \in Memory
    BY BuildingTypes
    DEF TypeOK, CreateVMStep, CloudProps, Copy, Register, Hardware, Resources,
      Network, Ephemeral, StartVM, Poll, Answer
  <1>2. CASE CloudProps(c) \/ Copy(c) \/ Register(c)
    <2>1. \/ Ends(c)
          \/ pc[c] = "props" /\ pc'[c] = "copy"
          \/ pc[c] = "copy" /\ pc'[c] = "register"
          \/ pc[c] = "register" /\ pc'[c] = "hardware"
      BY <1>2, EndsOrGoes DEF CloudProps, Copy, Register, Govc, Ask
    <2>. QED
      BY <1>1, <2>1, EndsOnward, Places DEF Onward
  <1>3. CASE Hardware(c) \/ Resources(c) \/ Ephemeral(c) \/ StartVM(c)
    <2>1. \/ Ends(c)
          \/ pc[c] = "hardware" /\ pc'[c] = "resources"
          \/ pc[c] = "resources" /\ pc'[c] = "network"
          \/ pc[c] = "network" /\ pc'[c] = "trunc"
          \/ pc[c] = "start" /\ pc'[c] = "poll"
      BY <1>3, EndsOrGoes DEF Hardware, Resources, Ephemeral, StartVM, Govc
    <2>. QED
      BY <1>1, <2>1, EndsOnward, Places DEF Onward
  <1>4. CASE Network(c)
    <2>1. PICK net \in mem[c].todo, mac \in Macs :
            \/ Ends(c)
            \/ GotoWith(c, "network", [mem[c] EXCEPT !.todo = @ \ {net},
                                         !.env.nics = @ \cup {<<net, mac>>}])
      BY <1>4, EndsOrGoes DEF Network, Govc
    <2>2. CASE Ends(c)
      BY <1>1, <2>2, EndsOnward
    <2>3. CASE ~Ends(c)
      <3>1. /\ pc[c] = "network" /\ pc'[c] = "network"
            /\ mem'[c] = [mem[c] EXCEPT !.todo = @ \ {net},
                                        !.env.nics = @ \cup {<<net, mac>>}]
        BY <1>4, <2>1, <2>3, EndsOrGoes DEF Network
      <3>2. mem'[c].todo = mem[c].todo \ {net}
        BY <1>1, <3>1 DEF Memory
      <3>. QED
        BY <2>1, <3>1, <3>2 DEF Onward
    <2>. QED
      BY <2>2, <2>3
  <1>5. CASE Poll(c) \/ Answer(c)
    <2>1. \/ Ends(c)
          \/ pc[c] = "poll" /\ pc'[c] = "answer"
          \/ /\ pc[c] = "poll" /\ pc'[c] = "poll"
             /\ VmState(vm[c]) # "state-blocking-question"
      BY <1>5, EndsOrGoes DEF Poll, Answer, Govc, Ask
    <2>. QED
      BY <1>1, <2>1, EndsOnward, Places DEF Onward
  <1>. QED
    BY <1>2, <1>3, <1>4, <1>5 DEF CreateVMStep

LEMMA IsoOnward ==
  ASSUME TypeOK, NEW c \in Cid, IsoStep(c)
  PROVE  Onward(c)
  <1>1. \/ Ends(c)
        \/ pc[c] = "trunc" /\ pc'[c] \in {"write", "mkiso"}
        \/ pc[c] = "write" /\ pc'[c] = "mkiso"
        \/ pc[c] = "mkiso" /\ pc'[c] = "disconnect"
        \/ pc[c] = "disconnect" /\ pc'[c] = "eject"
        \/ pc[c] = "eject" /\ pc'[c] = "upload"
        \/ pc[c] = "upload" /\ pc'[c] = "insert"
        \/ pc[c] = "insert" /\ pc'[c] = "connect"
        \/ pc[c] = "connect" /\ pc'[c] = "start"
    BY EndsOrGoes DEF IsoStep, Trunc, Write, MkIso, Disconnect, Eject, UploadIso,
      Insert, Connect, Govc, Ask
  <1>2. pc[c] \in IsoLabels
    BY DEF IsoStep, Trunc, Write, MkIso, Disconnect, Eject, UploadIso, Insert,
      Connect, IsoLabels
  <1>. QED
    BY <1>1, <1>2, EndsOnward, Places DEF Onward, Labels, IsoLabels

LEMMA OthersOnward ==
  ASSUME TypeOK, NEW c \in Cid,
         StemcellStep(c) \/ DiskStep(c) \/ DestroyStep(c) \/ MiscStep(c)
  PROVE  Onward(c)
  <1>1. CASE StemcellStep(c) \/ MiscStep(c)
    <2>1. \/ Ends(c) /\ pc[c] \in {"extract", "import", "has", "present", "absent",
                                   "info", "panic", "notimpl"}
          \/ pc[c] = "extract" /\ pc'[c] = "import"
          \/ pc[c] = "has" /\ pc'[c] \in {"present", "absent"}
      BY <1>1, EndsOrGoes DEF StemcellStep, MiscStep, ExtractOvf, ImportOvf, HasVM,
        ServeFound, Info, Unsupported, NotImplemented, Ask, Panic
    <2>. QED
      BY <2>1, EndsOnward, Places DEF Onward, Labels
  <1>2. CASE DiskStep(c)
    <2>1. \/ Ends(c) /\ pc[c] \in {"attach", "find", "remove", "readenv", "mkdisk",
                                   "lsdisk", "rmdisk"}
          \/ pc[c] \in {"attach", "remove"} /\ pc'[c] = "readenv"
          \/ pc[c] = "find" /\ pc'[c] = "remove"
          \/ pc[c] = "readenv" /\ pc'[c] = "trunc"
          \/ pc[c] = "lsdisk" /\ pc'[c] = "rmdisk"
      BY <1>2, EndsOrGoes DEF DiskStep, Attach, Find, Remove, ReadEnv, CreateDisk,
        DiskPathExists, DeleteDisk, Govc, Ask, Panic
    <2>. QED
      BY <2>1, EndsOnward, Places DEF Onward, Labels
  <1>3. CASE DestroyStep(c)
    <2>1. \/ Ends(c) /\ pc[c] \in DestroyLabels
          \/ pc[c] = "state" /\ pc'[c] \in {"stop", "ls", "poweroff"}
          \/ pc[c] = "stop" /\ pc'[c] = "poweroff"
          \/ pc[c] = "poweroff" /\ pc'[c] = "destroy"
          \/ pc[c] = "destroy" /\ pc'[c] = "ls"
          \/ pc[c] = "ls" /\ pc'[c] = "rm"
      BY <1>3, EndsOrGoes DEF DestroyStep, DestroyState, Stop, PowerOff, Destroy,
        DatastorePathExists, DeleteDir, Govc, Ask, DestroyLabels
    <2>. QED
      BY <2>1, EndsOnward, Places DEF Onward, Labels, DestroyLabels
  <1>. QED
    BY <1>1, <1>2, <1>3

\* A call makes at most 18 steps and one for each network, besides the turns of
\* WaitForVMReady's poll, which alone nothing bounds: whatever fails and whoever
\* interferes, a call whose process runs on for ever is a create_vm that polls a
\* VM with no question pending.
THEOREM OnlyThePollWaits == Spec => [][NeverBack]_vars
  <1>1. DeleteInv /\ [Next]_vars => [NeverBack]_vars
    <2>. SUFFICES ASSUME DeleteInv, Next, NEW c \in Cid
                  PROVE  /\ Step(c) => Onward(c)
                         /\ pc'[c] # pc[c] => StepsLeft(pc'[c]) < StepsLeft(pc[c])
      BY DEF NeverBack
    <2>1. TypeOK /\ CallInv /\ pc \in [Cid -> Labels]
      BY DEF DeleteInv, TypeOK
    <2>2. \A d \in Cid : Step(d) => Onward(d)
      BY <2>1, StepGroups, CreateVMOnward, IsoOnward, OthersOnward
    <2>. SUFFICES ASSUME pc'[c] # pc[c]
                  PROVE  StepsLeft(pc'[c]) < StepsLeft(pc[c])
      BY <2>2
    <2>3. ASSUME NEW d \in Cid, Begin(d) PROVE StepsLeft(pc'[c]) < StepsLeft(pc[c])
      <3>1. PICK op \in Ops : pc' = [pc EXCEPT ![d] = First(op)]
        BY <2>3 DEF Begin
      <3>2. c = d /\ pc[c] = "idle" /\ pc'[c] = First(op)
        BY <2>1, <2>3, <3>1 DEF Begin
      <3>3. First(op) \in {"extract", "props", "state", "has", "mkdisk", "lsdisk",
                           "attach", "find", "info", "panic", "notimpl"}
        BY DEF First
      <3>. QED
        BY <3>2, <3>3 DEF StepsLeft
    <2>4. ASSUME NEW d \in Cid, Step(d) PROVE StepsLeft(pc'[c]) < StepsLeft(pc[c])
      <3>1. c = d
        BY <2>1, <2>4, StepMoves DEF Moves
      <3>. QED
        BY <2>2, <2>4, <3>1 DEF Onward
    <2>5. ASSUME NEW d \in Cid, Kill(d) PROVE StepsLeft(pc'[c]) < StepsLeft(pc[c])
      <3>1. c = d /\ Running(c) /\ Ends(c)
        BY <2>1, <2>5, EndsOrGoes DEF Kill, Respond
      <3>2. Onward(c)
        BY <2>1, <3>1, EndsOnward DEF Running
      <3>. QED
        BY <3>1, <3>2 DEF Onward
    <2>6. (\E d \in Cid : PowerOn(d) \/ HostStep(d) \/ PowerOnFails(d)) => pc' = pc
      BY DEF PowerOn, HostStep, PowerOnFails
    <2>7. Reboot \/ Quiet => pc' = pc
      BY DEF Reboot, Quiet, vars
    <2>. QED
      BY <2>3, <2>4, <2>5, <2>6, <2>7 DEF Next
  <1>. QED
    BY <1>1, DeleteInvariant, PTL DEF Spec
=============================================================================
