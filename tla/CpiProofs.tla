----------------------------- MODULE CpiProofs -----------------------------
(***************************************************************************)
(* Theorems about Cpi for every number of calls, networks, MACs and slots, *)
(* every bound on concurrency and every choice of faults.                  *)
(***************************************************************************)
EXTENDS Cpi, TLAPS

(* The steps of a process, in groups that are proved about together.       *)
StemcellStep(c) == ExtractOvf(c) \/ ImportOvf(c)
DiskStep(c) == \/ Attach(c) \/ Find(c) \/ Remove(c) \/ ReadEnv(c)
               \/ CreateDisk(c) \/ DiskPathExists(c) \/ DeleteDisk(c)
MiscStep(c) == HasVM(c) \/ ServeFound(c) \/ Info(c) \/ Unsupported(c) \/ NotImplemented(c)

\* The methods of the CPI share these groups of steps and have no others.
LEMMA StepGroups ==
  ASSUME NEW c, Step(c)
  PROVE  \/ StemcellStep(c) \/ CreateVMStep(c) \/ IsoStep(c) \/ DiskStep(c)
         \/ DestroyStep(c) \/ MiscStep(c)
  BY DEF Step, CreateStemcellCall, DeleteStemcellCall, CreateVMCall, DeleteVMCall,
    HasVMCall, CreateDiskCall, DeleteDiskCall, AttachDiskCall, DetachDiskCall,
    StemcellStep, DiskStep, MiscStep

-----------------------------------------------------------------------------
(* The govc commands make VM records out of VM records.                    *)

\* What a command returns is a VM record (EsxiHost's operators).
LEMMA CommandTypes ==
  ASSUME NEW r \in VM
  PROVE  /\ CopyDatastoreStemcell(r) \in VM
         /\ RegisterDatastoreVm(r) \in VM
         /\ ConfigVMHardware(r) \in VM
         /\ SetVMResources(r) \in VM
         /\ \A net \in Nets, mac \in Macs : AddNetwork(r, net, mac) \in VM
         /\ CreateEphemeralDisk(r) \in VM
         /\ DisconnectCdrom(r) \in VM
         /\ EjectCdrom(r) \in VM
         /\ \A e \in Env \cup {NoFile, Torn} : Upload(r, e) \in VM
         /\ InsertCdrom(r) \in VM
         /\ ConnectCdrom(r) \in VM
         /\ PowerOnVm(r) \in VM
         /\ AnswerCopyQuestion(r) \in VM
         /\ StopVM(r) \in VM
         /\ \A left \in BOOLEAN : DestroyVm(r, left) \in VM
         /\ DeleteDatastoreDir(r) \in VM
         /\ \A d \in Cid, s \in Slots : AttachDisk(r, d, s) \in VM
         /\ \A s : DetachDisk(r, s) \in VM
  <1>. USE DEF VM, Power
  <1>1. /\ CopyDatastoreStemcell(r) \in VM /\ RegisterDatastoreVm(r) \in VM
        /\ DeleteDatastoreDir(r) \in VM
    BY DEF CopyDatastoreStemcell, RegisterDatastoreVm, DeleteDatastoreDir
  <1>2. /\ ConfigVMHardware(r) \in VM /\ SetVMResources(r) \in VM
        /\ CreateEphemeralDisk(r) \in VM
    BY DEF ConfigVMHardware, SetVMResources, CreateEphemeralDisk
  <1>3. ASSUME NEW net \in Nets, NEW mac \in Macs
        PROVE  AddNetwork(r, net, mac) \in VM
    BY DEF AddNetwork
  <1>4. /\ DisconnectCdrom(r) \in VM /\ EjectCdrom(r) \in VM
        /\ InsertCdrom(r) \in VM /\ ConnectCdrom(r) \in VM
    BY DEF DisconnectCdrom, EjectCdrom, InsertCdrom, ConnectCdrom
  <1>5. ASSUME NEW e \in Env \cup {NoFile, Torn} PROVE Upload(r, e) \in VM
    BY DEF Upload
  <1>6. /\ PowerOnVm(r) \in VM /\ AnswerCopyQuestion(r) \in VM
        /\ StopVM(r) \in VM
    BY DEF PowerOnVm, AnswerCopyQuestion, StopVM
  <1>7. ASSUME NEW left \in BOOLEAN PROVE DestroyVm(r, left) \in VM
    BY DEF DestroyVm, NoVM
  <1>8. ASSUME NEW d \in Cid, NEW s \in Slots PROVE AttachDisk(r, d, s) \in VM
    BY DEF AttachDisk
  <1>9. ASSUME NEW s PROVE DetachDisk(r, s) \in VM
    BY DEF DetachDisk
  <1>. HIDE DEF VM, Power
  <1>. QED
    BY <1>1, <1>2, <1>3, <1>4, <1>5, <1>6, <1>7, <1>8, <1>9

\* A stemcell, and nothing at all, are VM records.
LEMMA InitialRecords == NoVM \in VM /\ Stemcell \in VM
  BY DEF NoVM, Stemcell, VM, Power

-----------------------------------------------------------------------------
(* Type correctness                                                        *)

\* The part of TypeOK that the end of every step of a process writes.
ProcTypeOK == /\ pc \in [Cid -> Labels]
              /\ resp \in [Cid -> Responses]
              /\ mem \in [Cid -> Memory]

\* A process's memory after each kind of assignment to it.
LEMMA MemoryTypes ==
  ASSUME TypeOK, NEW c \in Cid
  PROVE  /\ FreshMemory(c) \in Memory
         /\ mem[c] \in Memory
         /\ \A s \in Slots : [mem[c] EXCEPT !.slot = s] \in Memory
         /\ \A b \in BOOLEAN : [mem[c] EXCEPT !.pon = b] \in Memory
         /\ \A e \in Env : [mem[c] EXCEPT !.env = e] \in Memory
         /\ \A e \in Env \cup {Torn} : [mem[c] EXCEPT !.iso = e] \in Memory
  <1>1. FreshMemory(c) \in Memory
    BY DEF FreshMemory, Memory, Env
  <1>2. mem[c] \in Memory
    BY DEF TypeOK
  <1>3. ASSUME NEW s \in Slots PROVE [mem[c] EXCEPT !.slot = s] \in Memory
    BY <1>2 DEF Memory
  <1>4. ASSUME NEW b \in BOOLEAN PROVE [mem[c] EXCEPT !.pon = b] \in Memory
    BY <1>2 DEF Memory
  <1>5. ASSUME NEW e \in Env PROVE [mem[c] EXCEPT !.env = e] \in Memory
    BY <1>2 DEF Memory
  <1>6. ASSUME NEW e \in Env \cup {Torn}
        PROVE  [mem[c] EXCEPT !.iso = e] \in Memory
    BY <1>2 DEF Memory
  <1>. QED
    BY <1>1, <1>2, <1>3, <1>4, <1>5, <1>6

\* The memory after one turn of CreateVM's loop over the networks.
LEMMA NicMemory ==
  ASSUME NEW m \in Memory, NEW net \in Nets, NEW mac \in Macs
  PROVE  [m EXCEPT !.todo = @ \ {net},
                   !.env.nics = @ \cup {<<net, mac>>}] \in Memory
  <1>1. /\ m.env \in Env /\ m.todo \subseteq Nets
        /\ m = [env |-> m.env, iso |-> m.iso, todo |-> m.todo, slot |-> m.slot,
                 pon |-> m.pon]
    BY DEF Memory
  <1>. DEFINE e == [m.env EXCEPT !.nics = @ \cup {<<net, mac>>}]
              t == m.todo \ {net}
  <1>2. e \in Env
    BY <1>1 DEF Env
  <1>3. [m EXCEPT !.todo = @ \ {net}, !.env.nics = @ \cup {<<net, mac>>}]
          = [m EXCEPT !.todo = t, !.env = e]
    BY <1>1
  <1>4. t \subseteq Nets
    BY <1>1
  <1>. HIDE DEF e, t
  <1>5. [m EXCEPT !.todo = t, !.env = e] \in Memory
    BY <1>2, <1>4 DEF Memory
  <1>. QED
    BY <1>3, <1>5

\* However a step ends (at a label, with a response or with an error), the
\* process's registers keep their types.
LEMMA EndTypes ==
  ASSUME TypeOK, NEW c \in Cid
  PROVE  /\ \A l \in Labels, m \in Memory : GotoWith(c, l, m) => ProcTypeOK'
         /\ \A l \in Labels : Goto(c, l) => ProcTypeOK'
         /\ \A r \in Responses : Respond(c, r) => ProcTypeOK'
         /\ Fail(c) => ProcTypeOK'
         /\ MayFail(c) => ProcTypeOK'
  <1>1. ASSUME NEW l \in Labels, NEW m \in Memory, GotoWith(c, l, m)
        PROVE  ProcTypeOK'
    BY <1>1 DEF TypeOK, ProcTypeOK, GotoWith
  <1>2. ASSUME NEW l \in Labels, Goto(c, l) PROVE ProcTypeOK'
    BY <1>2, <1>1, MemoryTypes DEF Goto
  <1>3. ASSUME NEW r \in Responses, Respond(c, r) PROVE ProcTypeOK'
    BY <1>3, MemoryTypes DEF TypeOK, ProcTypeOK, Respond, Labels
  <1>4. ASSUME Fail(c) PROVE ProcTypeOK'
    BY <1>4, <1>3 DEF Fail, Responses
  <1>. QED
    BY <1>1, <1>2, <1>3, <1>4 DEF MayFail, Responses

\* A step of create_stemcell keeps every variable in its type.
LEMMA StemcellTypes ==
  ASSUME TypeOK, NEW c \in Cid, StemcellStep(c)
  PROVE  TypeOK'
  <1>1. CASE ExtractOvf(c)
    <2>1. ProcTypeOK'
      BY <1>1, EndTypes DEF ExtractOvf, Labels
    <2>2. tmp' \in [Cid -> SUBSET {"agent-settings", "stemcell"}]
      <3>1. tmp[c] \cup {"stemcell"} \in SUBSET {"agent-settings", "stemcell"}
        BY DEF TypeOK
      <3>2. tmp' = tmp \/ tmp' = [tmp EXCEPT ![c] = tmp[c] \cup {"stemcell"}]
        BY <1>1 DEF ExtractOvf
      <3>. QED
        BY <3>1, <3>2 DEF TypeOK
    <2>3. UNCHANGED <<vm, disks, call, envJson>>
      BY <1>1 DEF ExtractOvf
    <2>. QED
      BY <2>1, <2>2, <2>3 DEF TypeOK, HostTypeOK, ProcTypeOK
  <1>2. CASE ImportOvf(c)
    <2>1. ProcTypeOK'
      BY <1>2, EndTypes DEF ImportOvf, Responses
    <2>. QED
      BY <1>2, <2>1, InitialRecords DEF ImportOvf, TypeOK, HostTypeOK, ProcTypeOK
  <1>. QED
    BY <1>1, <1>2 DEF StemcellStep

\* A step of create_vm keeps every variable in its type.
LEMMA CreateVMTypes ==
  ASSUME TypeOK, NEW c \in Cid, CreateVMStep(c)
  PROVE  TypeOK'
  <1>1. vm \in [Cid -> VM] /\ vm[c] \in VM
    BY DEF TypeOK, HostTypeOK
  <1>2. CASE CloudProps(c)
    <2>1. ProcTypeOK' /\ vm' \in [Cid -> VM]
      BY <1>1, <1>2, EndTypes DEF CloudProps, Ask, Labels, CreateVmLabels
    <2>. QED
      BY <1>2, <2>1 DEF CloudProps, Local, TypeOK, HostTypeOK, ProcTypeOK
  <1>3. CASE Copy(c)
    <2>1. ProcTypeOK' /\ vm' \in [Cid -> VM]
      BY <1>1, <1>3, EndTypes, CommandTypes DEF Copy, Govc, Labels, CreateVmLabels
    <2>. QED
      BY <1>3, <2>1 DEF Copy, Local, TypeOK, HostTypeOK, ProcTypeOK
  <1>4. CASE Register(c)
    <2>1. ProcTypeOK' /\ vm' \in [Cid -> VM]
      BY <1>1, <1>4, EndTypes, CommandTypes DEF Register, Govc, Labels, CreateVmLabels
    <2>. QED
      BY <1>4, <2>1 DEF Register, Local, TypeOK, HostTypeOK, ProcTypeOK
  <1>5. CASE Hardware(c)
    <2>1. ProcTypeOK' /\ vm' \in [Cid -> VM]
      BY <1>1, <1>5, EndTypes, CommandTypes DEF Hardware, Govc, Labels, CreateVmLabels
    <2>. QED
      BY <1>5, <2>1 DEF Hardware, Local, TypeOK, HostTypeOK, ProcTypeOK
  <1>6. CASE Resources(c)
    <2>1. ProcTypeOK' /\ vm' \in [Cid -> VM]
      BY <1>1, <1>6, EndTypes, CommandTypes DEF Resources, Govc, Labels, CreateVmLabels
    <2>. QED
      BY <1>6, <2>1 DEF Resources, Local, TypeOK, HostTypeOK, ProcTypeOK
  <1>7. CASE Network(c)
    <2>. PICK net \in mem[c].todo, mac \in Macs :
           Govc(c, c, vm[c].reg, AddNetwork(vm[c], net, mac),
                GotoWith(c, "network",
                         [mem[c] EXCEPT !.todo = @ \ {net},
                                        !.env.nics = @ \cup {<<net, mac>>}]))
      BY <1>7 DEF Network
    <2>0. mem[c] \in Memory
      BY MemoryTypes
    <2>1. net \in Nets /\ AddNetwork(vm[c], net, mac) \in VM
      BY <1>1, <2>0, CommandTypes DEF Memory
    <2>. DEFINE m == [mem[c] EXCEPT !.todo = @ \ {net},
                                    !.env.nics = @ \cup {<<net, mac>>}]
    <2>2. m \in Memory
      BY <2>0, <2>1, NicMemory
    <2>3. Govc(c, c, vm[c].reg, AddNetwork(vm[c], net, mac),
               GotoWith(c, "network", m))
      OBVIOUS
    <2>. HIDE DEF m
    <2>4. ProcTypeOK' /\ vm' \in [Cid -> VM]
      BY <1>1, <2>1, <2>2, <2>3, EndTypes DEF Govc, Labels, CreateVmLabels
    <2>. QED
      BY <1>7, <2>4 DEF Network, Local, TypeOK, HostTypeOK, ProcTypeOK
  <1>8. CASE Ephemeral(c)
    <2>1. ProcTypeOK' /\ vm' \in [Cid -> VM]
      BY <1>1, <1>8, EndTypes, CommandTypes DEF Ephemeral, Govc, Labels, IsoLabels
    <2>. QED
      BY <1>8, <2>1 DEF Ephemeral, Local, TypeOK, HostTypeOK, ProcTypeOK
  <1>9. CASE StartVM(c)
    <2>1. ProcTypeOK' /\ vm' \in [Cid -> VM]
      BY <1>1, <1>9, EndTypes, MemoryTypes DEF StartVM, Labels, CreateVmLabels
    <2>. QED
      BY <1>9, <2>1 DEF StartVM, Local, TypeOK, HostTypeOK, ProcTypeOK
  <1>10. CASE Poll(c)
    <2>1. ProcTypeOK' /\ vm' \in [Cid -> VM]
      BY <1>1, <1>10, EndTypes DEF Poll, Ask, Labels, CreateVmLabels
    <2>. QED
      BY <1>10, <2>1 DEF Poll, Local, TypeOK, HostTypeOK, ProcTypeOK
  <1>11. CASE Answer(c)
    <2>1. ProcTypeOK' /\ vm' \in [Cid -> VM]
      BY <1>1, <1>11, EndTypes, CommandTypes DEF Answer, Govc, Ask, Responses
    <2>. QED
      BY <1>11, <2>1 DEF Answer, Local, TypeOK, HostTypeOK, ProcTypeOK
  <1>. QED
    BY <1>2, <1>3, <1>4, <1>5, <1>6, <1>7, <1>8, <1>9, <1>10, <1>11
    DEF CreateVMStep

\* A step of a disk call keeps every variable in its type.
LEMMA DiskTypes ==
  ASSUME TypeOK, NEW c \in Cid, DiskStep(c)
  PROVE  TypeOK'
  <1>1. /\ vm \in [Cid -> VM] /\ disks \subseteq Cid
        /\ Obj(c) \in Cid /\ Arg(c) \in Cid /\ vm[Obj(c)] \in VM
    BY DEF TypeOK, HostTypeOK, Obj, Arg
  <1>2. CASE Attach(c)
    <2>1. ProcTypeOK' /\ vm' \in [Cid -> VM]
      <3>1. CASE UNCHANGED vm /\ Fail(c)
        BY <1>1, <3>1, EndTypes
      <3>2. ASSUME NEW s \in Slots,
                   Govc(c, Obj(c), vm[Obj(c)].reg /\ Arg(c) \in disks,
                        AttachDisk(vm[Obj(c)], Arg(c), s), Goto(c, "readenv"))
            PROVE  ProcTypeOK' /\ vm' \in [Cid -> VM]
        <4>1. AttachDisk(vm[Obj(c)], Arg(c), s) \in VM
          BY <1>1, CommandTypes
        <4>2. vm' \in [Cid -> VM]
          BY <1>1, <3>2, <4>1 DEF Govc
        <4>3. ProcTypeOK'
          BY <3>2, EndTypes DEF Govc, Labels
        <4>. QED
          BY <4>2, <4>3
      <3>. QED
        BY <1>2, <3>1, <3>2 DEF Attach
    <2>2. UNCHANGED <<disks, Local>>
      BY <1>2 DEF Attach
    <2>. QED
      BY <2>1, <2>2 DEF Local, TypeOK, HostTypeOK, ProcTypeOK
  <1>3. CASE Find(c)
    <2>1. ProcTypeOK' /\ vm' \in [Cid -> VM]
      BY <1>1, <1>3, EndTypes, MemoryTypes DEF Find, Labels
    <2>. QED
      BY <1>3, <2>1 DEF Find, Local, TypeOK, HostTypeOK, ProcTypeOK
  <1>4. CASE Remove(c)
    <2>1. "readenv" \in Labels
      BY DEF Labels
    <2>2. ProcTypeOK'
      BY <1>4, <2>1, EndTypes DEF Remove, Govc
    <2>3. DetachDisk(vm[Obj(c)], mem[c].slot) \in VM
      BY <1>1, CommandTypes
    <2>4. \/ vm' = [vm EXCEPT ![Obj(c)] = DetachDisk(vm[Obj(c)], mem[c].slot)]
          \/ vm' = vm
      BY <1>4 DEF Remove, Govc
    <2>5. vm' \in [Cid -> VM]
      BY <1>1, <2>3, <2>4
    <2>. QED
      BY <1>4, <2>2, <2>5 DEF Remove, Local, TypeOK, HostTypeOK, ProcTypeOK
  <1>5. CASE ReadEnv(c)
    <2>1. ASSUME envJson \in Env
          PROVE  [envJson EXCEPT !.disks =
                    IF Op(c) = "attach_disk" THEN @ \cup {Arg(c)}
                                             ELSE @ \ {Arg(c)}] \in Env
      BY <1>1, <2>1 DEF Env
    <2>2. ProcTypeOK'
      BY <1>5, <2>1, EndTypes, MemoryTypes
      DEF ReadEnv, Panic, Labels, IsoLabels, Responses
    <2>. QED
      BY <1>5, <2>2 DEF ReadEnv, Local, TypeOK, HostTypeOK, ProcTypeOK
  <1>6. CASE CreateDisk(c)
    <2>1. ProcTypeOK'
      BY <1>6, EndTypes DEF CreateDisk, Responses
    <2>. QED
      BY <1>1, <1>6, <2>1 DEF CreateDisk, CreateDiskFile, Local, TypeOK, HostTypeOK, ProcTypeOK
  <1>7. CASE DiskPathExists(c)
    <2>1. ProcTypeOK' /\ vm' \in [Cid -> VM]
      BY <1>1, <1>7, EndTypes DEF DiskPathExists, Ask, Labels, Responses
    <2>. QED
      BY <1>7, <2>1 DEF DiskPathExists, Local, TypeOK, HostTypeOK, ProcTypeOK
  <1>8. CASE DeleteDisk(c)
    <2>1. ProcTypeOK'
      BY <1>8, EndTypes DEF DeleteDisk, Responses
    <2>. QED
      BY <1>1, <1>8, <2>1 DEF DeleteDisk, Local, TypeOK, HostTypeOK, ProcTypeOK
  <1>. QED
    BY <1>2, <1>3, <1>4, <1>5, <1>6, <1>7, <1>8 DEF DiskStep

\* A step of GenerateAgentEnvIso or UpdateVMIso keeps every variable in its type.
LEMMA IsoTypes ==
  ASSUME TypeOK, NEW c \in Cid, IsoStep(c)
  PROVE  TypeOK'
  <1>1. /\ vm \in [Cid -> VM] /\ Obj(c) \in Cid /\ vm[Obj(c)] \in VM
        /\ mem[c].env \in Env /\ mem[c].iso \in Env \cup {NoFile, Torn}
    BY MemoryTypes DEF TypeOK, HostTypeOK, Obj, Memory
  <1>2. CASE Trunc(c)
    <2>1. ProcTypeOK' /\ vm' \in [Cid -> VM]
      BY <1>1, <1>2, EndTypes DEF Trunc, Labels, IsoLabels
    <2>. QED
      BY <1>2, <2>1 DEF Trunc, Local, TypeOK, HostTypeOK, ProcTypeOK
  <1>3. CASE Write(c)
    <2>1. ProcTypeOK' /\ vm' \in [Cid -> VM]
      BY <1>1, <1>3, EndTypes DEF Write, Labels, IsoLabels
    <2>. QED
      BY <1>1, <1>3, <2>1 DEF Write, Local, TypeOK, HostTypeOK, ProcTypeOK
  <1>4. CASE MkIso(c)
    <2>1. ProcTypeOK' /\ vm' \in [Cid -> VM]
      BY <1>1, <1>4, EndTypes, MemoryTypes DEF MkIso, Ask, Labels, IsoLabels
    <2>. QED
      BY <1>4, <2>1 DEF MkIso, Local, TypeOK, HostTypeOK, ProcTypeOK
  <1>5. CASE Disconnect(c)
    <2>1. ProcTypeOK' /\ vm' \in [Cid -> VM]
      BY <1>1, <1>5, EndTypes, CommandTypes DEF Disconnect, Govc, Labels, IsoLabels
    <2>. QED
      BY <1>5, <2>1 DEF Disconnect, Local, TypeOK, HostTypeOK, ProcTypeOK
  <1>6. CASE Eject(c)
    <2>1. ProcTypeOK' /\ vm' \in [Cid -> VM]
      BY <1>1, <1>6, EndTypes, CommandTypes DEF Eject, Govc, Labels, IsoLabels
    <2>. QED
      BY <1>6, <2>1 DEF Eject, Local, TypeOK, HostTypeOK, ProcTypeOK
  <1>7. CASE UploadIso(c)
    <2>1. ProcTypeOK' /\ vm' \in [Cid -> VM]
      BY <1>1, <1>7, EndTypes, CommandTypes DEF UploadIso, Govc, Labels, IsoLabels
    <2>. QED
      BY <1>7, <2>1 DEF UploadIso, Local, TypeOK, HostTypeOK, ProcTypeOK
  <1>8. CASE Insert(c)
    <2>1. ProcTypeOK' /\ vm' \in [Cid -> VM]
      BY <1>1, <1>8, EndTypes, CommandTypes DEF Insert, Govc, Labels, IsoLabels
    <2>. QED
      BY <1>8, <2>1 DEF Insert, Local, TypeOK, HostTypeOK, ProcTypeOK
  <1>9. CASE Connect(c)
    <2>1. ProcTypeOK' /\ vm' \in [Cid -> VM]
      BY <1>1, <1>9, EndTypes, CommandTypes DEF Connect, Govc, Responses, Labels, CreateVmLabels
    <2>. QED
      BY <1>9, <2>1 DEF Connect, Cleanup, Local, TypeOK, HostTypeOK, ProcTypeOK
  <1>. QED
    BY <1>2, <1>3, <1>4, <1>5, <1>6, <1>7, <1>8, <1>9 DEF IsoStep

\* A step of DestroyVM keeps every variable in its type.
LEMMA DestroyTypes ==
  ASSUME TypeOK, NEW c \in Cid, DestroyStep(c)
  PROVE  TypeOK'
  <1>1. vm \in [Cid -> VM] /\ Obj(c) \in Cid /\ vm[Obj(c)] \in VM
    BY DEF TypeOK, HostTypeOK, Obj
  <1>2. CASE DestroyState(c)
    <2>1. ProcTypeOK' /\ vm' \in [Cid -> VM]
      BY <1>1, <1>2, EndTypes DEF DestroyState, Ask, Labels, DestroyLabels
    <2>. QED
      BY <1>2, <2>1 DEF DestroyState, Local, TypeOK, HostTypeOK, ProcTypeOK
  <1>3. CASE Stop(c)
    <2>1. ProcTypeOK' /\ vm' \in [Cid -> VM]
      BY <1>1, <1>3, EndTypes, CommandTypes DEF Stop, Govc, Labels, DestroyLabels
    <2>. QED
      BY <1>3, <2>1 DEF Stop, Local, TypeOK, HostTypeOK, ProcTypeOK
  <1>4. CASE PowerOff(c)
    <2>1. ProcTypeOK' /\ vm' \in [Cid -> VM]
      BY <1>1, <1>4, EndTypes, CommandTypes DEF PowerOff, Labels, DestroyLabels
    <2>. QED
      BY <1>4, <2>1 DEF PowerOff, Local, TypeOK, HostTypeOK, ProcTypeOK
  <1>5. CASE Destroy(c)
    <2>1. ProcTypeOK' /\ vm' \in [Cid -> VM]
      BY <1>1, <1>5, EndTypes, CommandTypes DEF Destroy, Govc, Labels, DestroyLabels
    <2>. QED
      BY <1>5, <2>1 DEF Destroy, Local, TypeOK, HostTypeOK, ProcTypeOK
  <1>6. CASE DatastorePathExists(c)
    <2>1. ProcTypeOK' /\ vm' \in [Cid -> VM]
      BY <1>1, <1>6, EndTypes DEF DatastorePathExists, Ask, Responses, Labels, DestroyLabels
    <2>. QED
      BY <1>6, <2>1 DEF DatastorePathExists, Local, TypeOK, HostTypeOK, ProcTypeOK
  <1>7. CASE DeleteDir(c)
    <2>1. ProcTypeOK' /\ vm' \in [Cid -> VM]
      BY <1>1, <1>7, EndTypes, CommandTypes DEF DeleteDir, Govc, Responses
    <2>. QED
      BY <1>7, <2>1 DEF DeleteDir, Local, TypeOK, HostTypeOK, ProcTypeOK
  <1>. QED
    BY <1>2, <1>3, <1>4, <1>5, <1>6, <1>7 DEF DestroyStep

\* The initial state has the right types.
LEMMA TypeInit == Init => TypeOK
  BY InitialRecords, CpiAssumption
  DEF Init, TypeOK, HostTypeOK, FreshMemory, Memory, Env, Labels, Responses,
      AllOps

\* Every step of the CPI, of its director and of the host keeps the types.
LEMMA TypeStep == TypeOK /\ [Next]_vars => TypeOK'
  <1>. SUFFICES ASSUME TypeOK, [Next]_vars PROVE TypeOK'
    OBVIOUS
  <1>1. CASE UNCHANGED vars
    BY <1>1 DEF vars, TypeOK, HostTypeOK
  <1>2. ASSUME NEW c \in Cid, Begin(c) PROVE TypeOK'
    <2>a. PICK op \in Ops : \E p \in Objects(c, op) :
            /\ call' = [call EXCEPT ![c] = [op |-> op, obj |-> p[1], arg |-> p[2]]]
            /\ pc' = [pc EXCEPT ![c] = First(op)]
      BY <1>2 DEF Begin
    <2>1. PICK p \in Objects(c, op) :
            /\ call' = [call EXCEPT ![c] = [op |-> op, obj |-> p[1], arg |-> p[2]]]
            /\ pc' = [pc EXCEPT ![c] = First(op)]
      BY <2>a
    <2>2. p[1] \in Cid /\ p[2] \in Cid
      BY DEF Objects, Known
    <2>3. op \in AllOps /\ First(op) \in Labels
      BY CpiAssumption DEF First, Labels, CreateVmLabels, DestroyLabels
    <2>. QED
      BY <1>2, <2>1, <2>2, <2>3 DEF Begin, NewAgentSettings, TypeOK, HostTypeOK
  <1>3. ASSUME NEW c \in Cid, Step(c) PROVE TypeOK'
    <2>1. CASE MiscStep(c)
      <3>1. "present" \in Labels /\ "absent" \in Labels
        BY DEF Labels
      <3>2. ProcTypeOK' /\ UNCHANGED <<vm, disks, Local>>
        BY <2>1, <3>1, EndTypes
        DEF MiscStep, HasVM, ServeFound, Info, Unsupported, NotImplemented, Ask, Panic,
            Responses
      <3>. QED
        BY <3>2 DEF Local, TypeOK, HostTypeOK, ProcTypeOK
    <2>. QED
      BY <1>3, <2>1, StemcellTypes, CreateVMTypes, DiskTypes, IsoTypes,
         DestroyTypes, StepGroups
  <1>4. ASSUME NEW c \in Cid, PowerOn(c) PROVE TypeOK'
    <2>1. vm[c] \in VM /\ PowerOnVm(vm[c]) \in VM
      BY CommandTypes DEF TypeOK, HostTypeOK
    <2>2. [mem[c] EXCEPT !.pon = FALSE] \in Memory
      BY MemoryTypes
    <2>3. vm' \in [Cid -> VM]
      <3>1. vm' = vm \/ vm' = [vm EXCEPT ![c] = PowerOnVm(vm[c])]
        BY <1>4 DEF PowerOn
      <3>. QED
        BY <2>1, <3>1 DEF TypeOK, HostTypeOK
    <2>4. mem' \in [Cid -> Memory]
      BY <1>4, <2>2 DEF PowerOn, TypeOK
    <2>5. UNCHANGED <<disks, pc, resp, Local>>
      BY <1>4 DEF PowerOn
    <2>. QED
      BY <2>3, <2>4, <2>5 DEF Local, TypeOK, HostTypeOK
  <1>5. ASSUME NEW c \in Cid, Kill(c) PROVE TypeOK'
    <2>1. ProcTypeOK'
      BY <1>5, EndTypes DEF Kill, Responses
    <2>. QED
      BY <1>5, <2>1 DEF Kill, Local, TypeOK, HostTypeOK, ProcTypeOK
  <1>6. ASSUME NEW c \in Cid, HostStep(c) \/ PowerOnFails(c) PROVE TypeOK'
    <2>1. vm[c] \in VM
      BY DEF TypeOK, HostTypeOK
    <2>2. \A w \in Power : [vm[c] EXCEPT !.power = w] \in VM
      BY <2>1 DEF VM
    <2>3. vm' \in [Cid -> VM]
      BY <1>6, <2>2
      DEF HostStep, PowerOnFails, HostAsks, HostBoots, HostFails, Power,
          TypeOK, HostTypeOK
    <2>. QED
      BY <1>6, <2>3 DEF HostStep, PowerOnFails, Local, TypeOK, HostTypeOK
  <1>7. CASE Reboot
    BY <1>7 DEF Reboot, TypeOK, HostTypeOK
  <1>8. CASE Quiet
    BY <1>1, <1>8 DEF Quiet
  <1>. QED
    BY <1>1, <1>2, <1>3, <1>4, <1>5, <1>6, <1>7, <1>8 DEF Next

\* Type correctness of the CPI: no behaviour takes a variable out of its type.
THEOREM TypeCorrect == Spec => []TypeOK
  BY TypeInit, TypeStep, PTL DEF Spec
-----------------------------------------------------------------------------
(* A successful delete is final: Spec => []DeletedIsGone, for any number   *)
(* of calls, any concurrency (also of calls on one VM) and any faults.     *)
(*                                                                         *)
(* DeletedIsGone is not inductive.  It rests on two facts: CallInv, that a *)
(* call runs only the code of its own method and that what it deletes was  *)
(* made by a call which has exited; and that DestroyVM reaches its         *)
(* datastore part only with the VM out of the inventory.                   *)

\* The labels of each method's code.
LabelsOf(op) ==
  CASE op = "create_stemcell" -> {"extract", "import"}
    [] op = "create_vm"       -> CreateVmLabels \cup IsoLabels
    [] op \in {"delete_vm", "delete_stemcell"} -> DestroyLabels
    [] op = "has_vm"          -> {"has", "present", "absent"}
    [] op = "create_disk"     -> {"mkdisk"}
    [] op = "delete_disk"     -> {"lsdisk", "rmdisk"}
    [] op = "attach_disk"     -> {"attach", "readenv"} \cup IsoLabels
    [] op = "detach_disk"     -> {"find", "remove", "readenv"} \cup IsoLabels
    [] op = "info"            -> {"info"}
    [] op = "reboot_vm"       -> {"panic"}
    [] OTHER                  -> {"notimpl"}

Creates == {"create_stemcell", "create_vm", "create_disk"}

\* How calls relate to one another.
CallInv ==
  /\ \A c \in Cid : pc[c] \in LabelsOf(Op(c)) \cup {"idle", "done"}
  /\ \A c \in Cid : resp[c] # "none" => pc[c] = "done"
  /\ \A c \in Cid : Op(c) \in Creates => Obj(c) = c
  /\ \A c \in Cid : Op(c) \in {"delete_vm", "has_vm", "attach_disk", "detach_disk"}
                      => Obj(c) \in Known("create_vm")
  /\ \A c \in Cid : Op(c) = "delete_stemcell" => Obj(c) \in Known("create_stemcell")

\* The datastore part of DestroyVM runs on a VM that is out of the inventory.
UnregisteredInv == \A c \in Cid : pc[c] \in {"ls", "rm"} => ~vm[Obj(c)].reg

DeleteInv == TypeOK /\ CallInv /\ UnregisteredInv /\ DeletedIsGone

-----------------------------------------------------------------------------
(* What a step of a process does to the registers of processes.            *)

\* Process c goes to a label of L, or exits with a response.
Moves(c, L) ==
  \E l \in L \cup {"done"}, r \in Responses :
    /\ pc' = [pc EXCEPT ![c] = l]
    /\ resp' = [resp EXCEPT ![c] = r]
    /\ l # "done" => r = resp[c]

\* Every way a step ends is such a move.
LEMMA EndMoves ==
  ASSUME TypeOK, NEW c \in Cid, NEW L
  PROVE  /\ \A l \in L : \A m : GotoWith(c, l, m) => Moves(c, L)
         /\ \A l \in L : Goto(c, l) => Moves(c, L)
         /\ \A r \in Responses : Respond(c, r) => Moves(c, L)
         /\ Fail(c) => Moves(c, L)
         /\ MayFail(c) => Moves(c, L)
  <1>1. ASSUME NEW l \in L, NEW m, GotoWith(c, l, m) PROVE Moves(c, L)
    <2>1. /\ resp[c] \in Responses
          /\ resp = [resp EXCEPT ![c] = resp[c]]
      BY DEF TypeOK
    <2>. QED
      BY <1>1, <2>1 DEF GotoWith, Moves
  <1>2. ASSUME NEW l \in L, Goto(c, l) PROVE Moves(c, L)
    BY <1>1, <1>2 DEF Goto
  <1>3. ASSUME NEW r \in Responses, Respond(c, r) PROVE Moves(c, L)
    BY <1>3 DEF Respond, Moves
  <1>4. ASSUME Fail(c) PROVE Moves(c, L)
    BY <1>3, <1>4 DEF Fail, Responses
  <1>. QED
    BY <1>1, <1>2, <1>3, <1>4 DEF MayFail, Responses

\* A step of a running process stays in the code of its method.
LEMMA StepMoves ==
  ASSUME TypeOK, CallInv, NEW c \in Cid, Step(c)
  PROVE  /\ Moves(c, LabelsOf(Op(c)))
         /\ call' = call
         /\ Running(c)
         /\ pc[c] \in LabelsOf(Op(c))
  <1>. DEFINE L == LabelsOf(Op(c))
  <1>1. Op(c) \in AllOps /\ pc[c] \in L \cup {"idle", "done"}
    BY DEF TypeOK, CallInv, Op
  <1>2. CASE StemcellStep(c)
    <2>1. pc[c] \in {"extract", "import"} /\ call' = call
      BY <1>2 DEF StemcellStep, ExtractOvf, ImportOvf
    <2>2. L = {"extract", "import"}
      BY <1>1, <2>1 DEF LabelsOf, AllOps, CreateVmLabels, IsoLabels, DestroyLabels
    <2>3. Moves(c, L)
      BY <1>2, <2>2, EndMoves DEF StemcellStep, ExtractOvf, ImportOvf, Responses
    <2>. QED
      BY <2>1, <2>2, <2>3 DEF Running
  <1>3. CASE CreateVMStep(c)
    <2>1. pc[c] \in CreateVmLabels /\ call' = call
      BY <1>3 DEF CreateVMStep, CloudProps, Copy, Register, Hardware, Resources,
        Network, Ephemeral, StartVM, Poll, Answer, Local, CreateVmLabels
    <2>2. L = CreateVmLabels \cup IsoLabels
      BY <1>1, <2>1 DEF LabelsOf, AllOps, CreateVmLabels, IsoLabels, DestroyLabels
    <2>3. Moves(c, L)
      BY <1>3, <2>2, EndMoves
      DEF CreateVMStep, CloudProps, Copy, Register, Hardware, Resources,
        Network, Ephemeral, StartVM, Poll, Answer, Govc, Ask, CreateVmLabels,
        IsoLabels, Responses
    <2>. QED
      BY <2>1, <2>2, <2>3 DEF Running, CreateVmLabels
  <1>4. CASE DiskStep(c)
    <2>1. /\ pc[c] \in {"attach", "find", "remove", "readenv", "mkdisk", "lsdisk",
                        "rmdisk"}
          /\ call' = call
      BY <1>4 DEF DiskStep, Attach, Find, Remove, ReadEnv, CreateDisk,
        DiskPathExists, DeleteDisk, Local
    <2>2. /\ pc[c] \in L
          /\ pc[c] \in {"attach", "remove", "find"} => "readenv" \in L
          /\ pc[c] = "find" => "remove" \in L
          /\ pc[c] = "readenv" => "trunc" \in L
          /\ pc[c] = "lsdisk" => "rmdisk" \in L
      BY <1>1, <2>1 DEF LabelsOf, AllOps, CreateVmLabels, IsoLabels, DestroyLabels
    <2>3. Moves(c, L)
      BY <1>4, <2>2, EndMoves
      DEF DiskStep, Attach, Find, Remove, ReadEnv, CreateDisk, DiskPathExists,
        DeleteDisk, Govc, Ask, Panic, Responses
    <2>. QED
      BY <2>1, <2>2, <2>3 DEF Running
  <1>5. CASE IsoStep(c)
    <2>1. pc[c] \in IsoLabels /\ call' = call
      BY <1>5 DEF IsoStep, Trunc, Write, MkIso, Disconnect, Eject, UploadIso,
        Insert, Connect, Local, IsoLabels
    <2>2. /\ pc[c] \in L
          /\ IsoLabels \subseteq L
          /\ Op(c) = "create_vm" => "start" \in L
      BY <1>1, <2>1 DEF LabelsOf, AllOps, CreateVmLabels, IsoLabels, DestroyLabels
    <2>3. Moves(c, L)
      BY <1>5, <2>2, EndMoves
      DEF IsoStep, Trunc, Write, MkIso, Disconnect, Eject, UploadIso, Insert,
        Connect, Govc, Ask, IsoLabels, Responses
    <2>. QED
      BY <2>1, <2>2, <2>3 DEF Running, IsoLabels
  <1>6. CASE DestroyStep(c)
    <2>1. pc[c] \in DestroyLabels /\ call' = call
      BY <1>6 DEF DestroyStep, DestroyState, Stop, PowerOff, Destroy,
        DatastorePathExists, DeleteDir, Local, DestroyLabels
    <2>2. L = DestroyLabels
      BY <1>1, <2>1 DEF LabelsOf, AllOps, CreateVmLabels, IsoLabels, DestroyLabels
    <2>3. Moves(c, L)
      BY <1>6, <2>2, EndMoves
      DEF DestroyStep, DestroyState, Stop, PowerOff, Destroy,
        DatastorePathExists, DeleteDir, Govc, Ask, DestroyLabels, Responses
    <2>. QED
      BY <2>1, <2>2, <2>3 DEF Running, DestroyLabels
  <1>7. CASE MiscStep(c)
    <2>1. /\ pc[c] \in {"has", "present", "absent", "info", "panic", "notimpl"}
          /\ call' = call
      BY <1>7 DEF MiscStep, HasVM, ServeFound, Info, Unsupported, NotImplemented,
        Local
    <2>2. pc[c] = "has" => {"present", "absent"} \subseteq L
      BY <1>1 DEF LabelsOf, AllOps, CreateVmLabels, IsoLabels, DestroyLabels
    <2>3. Moves(c, L)
      BY <1>7, <2>2, EndMoves
      DEF MiscStep, HasVM, ServeFound, Info, Unsupported, NotImplemented, Ask, Panic,
        Responses
    <2>. QED
      BY <1>1, <2>1, <2>3 DEF Running
  <1>. QED
    BY <1>2, <1>3, <1>4, <1>5, <1>6, <1>7, StepGroups

\* A move within the method's code, the calls unchanged, preserves CallInv.
LEMMA MovesKeepCallInv ==
  ASSUME TypeOK, CallInv, NEW c \in Cid, Running(c), call' = call,
         Moves(c, LabelsOf(Op(c)))
  PROVE  CallInv'
  <1>1. PICK l \in LabelsOf(Op(c)) \cup {"done"}, r \in Responses :
          /\ pc' = [pc EXCEPT ![c] = l]
          /\ resp' = [resp EXCEPT ![c] = r]
          /\ l # "done" => r = resp[c]
    BY DEF Moves
  <1>2. resp[c] = "none"
    BY DEF CallInv, Running
  <1>3. \A op \in AllOps : Known(op) \subseteq Known(op)'
    BY <1>1, <1>2 DEF Known, Op, TypeOK
  <1>4. \A d \in Cid : Op(d)' = Op(d) /\ Obj(d)' = Obj(d)
    BY DEF Op, Obj
  <1>5. \A d \in Cid : pc'[d] \in LabelsOf(Op(d)) \cup {"idle", "done"}
    BY <1>1 DEF CallInv, TypeOK
  <1>6. \A d \in Cid : resp'[d] # "none" => pc'[d] = "done"
    BY <1>1, <1>2 DEF CallInv, TypeOK
  <1>. QED
    BY <1>3, <1>4, <1>5, <1>6 DEF CallInv, AllOps

-----------------------------------------------------------------------------
(* What a step of a process does to inventory and datastore.               *)

\* Only a call that still runs puts its own object into the inventory or makes
\* its directory; the destruction of a VM may leave the directory it had.
Appears(c) ==
  \A n \in Cid :
    /\ vm'[n].reg => \/ vm[n].reg
                     \/ n = c /\ Running(c)
    /\ vm'[n].dir => \/ vm[n].dir
                     \/ vm[n].reg
                     \/ n = c /\ Running(c)

\* A step of a process makes nothing appear that its own call does not create.
LEMMA StepAppears ==
  ASSUME TypeOK, CallInv, NEW c \in Cid, Step(c)
  PROVE  Appears(c)
  <1>1. /\ Running(c) /\ vm \in [Cid -> VM] /\ Obj(c) \in Cid
        /\ vm[c] \in VM /\ vm[Obj(c)] \in VM
    BY StepMoves DEF TypeOK, HostTypeOK, Obj
  <1>2. CASE UNCHANGED vm
    BY <1>2 DEF Appears
  <1>3. CASE StemcellStep(c)
    BY <1>1, <1>3 DEF StemcellStep, ExtractOvf, ImportOvf, Appears
  <1>4. CASE CreateVMStep(c)
    <2>1. \A n \in Cid \ {c} : vm'[n] = vm[n]
      BY <1>1, <1>4
      DEF CreateVMStep, CloudProps, Copy, Register, Hardware, Resources,
        Network, Ephemeral, StartVM, Poll, Answer, Govc, Ask
    <2>. QED
      BY <1>1, <2>1 DEF Appears
  <1>5. CASE DiskStep(c)
    <2>. SUFFICES \A n \in Cid : vm'[n].reg = vm[n].reg /\ vm'[n].dir = vm[n].dir
      BY DEF Appears
    <2>1. CASE Attach(c)
      BY <1>1, <2>1 DEF Attach, Govc, AttachDisk, VM
    <2>2. CASE Find(c)
      BY <1>1, <2>2 DEF Find
    <2>3. CASE Remove(c)
      BY <1>1, <2>3 DEF Remove, Govc, DetachDisk, VM
    <2>4. CASE ReadEnv(c)
      BY <1>1, <2>4 DEF ReadEnv
    <2>5. CASE CreateDisk(c)
      BY <1>1, <2>5 DEF CreateDisk
    <2>6. CASE DiskPathExists(c)
      BY <1>1, <2>6 DEF DiskPathExists, Ask
    <2>7. CASE DeleteDisk(c)
      BY <1>1, <2>7 DEF DeleteDisk
    <2>. QED
      BY <1>5, <2>1, <2>2, <2>3, <2>4, <2>5, <2>6, <2>7 DEF DiskStep
  <1>6. CASE IsoStep(c)
    <2>. SUFFICES \A n \in Cid : vm'[n].reg = vm[n].reg /\ vm'[n].dir = vm[n].dir
      BY DEF Appears
    <2>1. CASE Trunc(c)
      BY <1>1, <2>1 DEF Trunc
    <2>2. CASE Write(c)
      BY <1>1, <2>2 DEF Write
    <2>3. CASE MkIso(c)
      BY <1>1, <2>3 DEF MkIso, Ask
    <2>4. CASE Disconnect(c)
      BY <1>1, <2>4 DEF Disconnect, Govc, DisconnectCdrom, VM
    <2>5. CASE Eject(c)
      BY <1>1, <2>5 DEF Eject, Govc, EjectCdrom, VM
    <2>6. CASE UploadIso(c)
      BY <1>1, <2>6 DEF UploadIso, Govc, Upload, VM
    <2>7. CASE Insert(c)
      BY <1>1, <2>7 DEF Insert, Govc, InsertCdrom, VM
    <2>8. CASE Connect(c)
      BY <1>1, <2>8 DEF Connect, Govc, ConnectCdrom, VM
    <2>. QED
      BY <1>6, <2>1, <2>2, <2>3, <2>4, <2>5, <2>6, <2>7, <2>8 DEF IsoStep
  <1>7. CASE DestroyStep(c)
    <2>. SUFFICES \A n \in Cid : /\ vm'[n].reg => vm[n].reg
                                 /\ vm'[n].dir => vm[n].dir \/ vm[n].reg
      BY DEF Appears
    <2>1. CASE DestroyState(c)
      BY <1>1, <2>1 DEF DestroyState, Ask
    <2>2. CASE Stop(c)
      BY <1>1, <2>2 DEF Stop, Govc, StopVM, VM
    <2>3. CASE PowerOff(c)
      BY <1>1, <2>3 DEF PowerOff, StopVM, VM
    <2>4. CASE Destroy(c)
      BY <1>1, <2>4 DEF Destroy, Govc, DestroyVm, NoVM, VM
    <2>5. CASE DatastorePathExists(c)
      BY <1>1, <2>5 DEF DatastorePathExists, Ask
    <2>6. CASE DeleteDir(c)
      BY <1>1, <2>6 DEF DeleteDir, Govc, DeleteDatastoreDir, VM
    <2>. QED
      BY <1>7, <2>1, <2>2, <2>3, <2>4, <2>5, <2>6 DEF DestroyStep
  <1>8. CASE MiscStep(c)
    BY <1>2, <1>8 DEF MiscStep, HasVM, ServeFound, Info, Unsupported, NotImplemented, Ask
  <1>. QED
    BY <1>3, <1>4, <1>5, <1>6, <1>7, <1>8, StepGroups

\* What has been deleted, and what DestroyVM has taken out of the inventory,
\* belongs to a call that has exited: nothing makes it appear again.
LEMMA GoneStaysGone ==
  ASSUME DeleteInv, NEW c \in Cid, Appears(c), NEW d \in Cid,
         Op(d) \in {"delete_vm", "delete_stemcell"}
  PROVE  /\ ~vm[Obj(d)].reg => ~vm'[Obj(d)].reg
         /\ ~vm[Obj(d)].reg /\ ~vm[Obj(d)].dir => ~vm'[Obj(d)].dir
  <1>1. Obj(d) \in Cid /\ resp[Obj(d)] = "ok"
    BY DEF DeleteInv, CallInv, TypeOK, Known, Obj
  <1>2. ~Running(Obj(d))
    BY <1>1 DEF DeleteInv, CallInv, Running
  <1>. QED
    BY <1>1, <1>2 DEF Appears

-----------------------------------------------------------------------------
(* The theorem                                                             *)

\* Any step that begins no call, moves at most process c and makes nothing
\* appear keeps the invariant for every deletion but c's own.
LEMMA OthersKeepDeleteInv ==
  ASSUME DeleteInv, NEW c \in Cid, Appears(c), call' = call,
         NEW d \in Cid, pc'[d] = pc[d], resp'[d] = resp[d]
  PROVE  /\ (pc[d] \in {"ls", "rm"} => ~vm[Obj(d)].reg)'
         /\ (Op(d) \in {"delete_vm", "delete_stemcell"} /\ resp[d] = "ok" =>
               ~vm[Obj(d)].reg /\ ~vm[Obj(d)].dir)'
  <1>1. Op(d)' = Op(d) /\ Obj(d)' = Obj(d)
    BY DEF Op, Obj
  <1>2. pc[d] \in {"ls", "rm"} => Op(d) \in {"delete_vm", "delete_stemcell"}
    BY DEF DeleteInv, CallInv, TypeOK, Op, LabelsOf, AllOps, CreateVmLabels,
      IsoLabels, DestroyLabels
  <1>3. pc[d] \in {"ls", "rm"} => ~vm[Obj(d)].reg
    BY DEF DeleteInv, UnregisteredInv
  <1>4. Op(d) \in {"delete_vm", "delete_stemcell"} /\ resp[d] = "ok" =>
          ~vm[Obj(d)].reg /\ ~vm[Obj(d)].dir
    BY DEF DeleteInv, DeletedIsGone
  <1>. QED
    BY <1>1, <1>2, <1>3, <1>4, GoneStaysGone

\* A step of DestroyVM reaches its datastore part, and its success, only with
\* what they promise.
LEMMA DestroyOwn ==
  ASSUME DeleteInv, NEW c \in Cid, DestroyStep(c)
  PROVE  /\ pc'[c] \in {"ls", "rm"} => ~vm'[Obj(c)].reg
         /\ resp'[c] = "ok" => ~vm'[Obj(c)].reg /\ ~vm'[Obj(c)].dir
  <1>1. /\ vm \in [Cid -> VM] /\ Obj(c) \in Cid /\ vm[Obj(c)] \in VM
        /\ pc \in [Cid -> Labels] /\ resp \in [Cid -> Responses]
    BY DEF DeleteInv, TypeOK, HostTypeOK, Obj
  <1>2. pc[c] \in {"ls", "rm"} => ~vm[Obj(c)].reg
    BY DEF DeleteInv, UnregisteredInv
  <1>3. pc[c] # "done" => resp[c] = "none"
    BY DEF DeleteInv, CallInv
  <1>. USE <1>1, <1>3 DEF Goto, GotoWith, Respond, Fail, MayFail
  <1>4. CASE DestroyState(c)
    BY <1>4 DEF DestroyState, Ask, VmState
  <1>5. CASE Stop(c)
    BY <1>5 DEF Stop, Govc
  <1>6. CASE PowerOff(c)
    BY <1>6 DEF PowerOff
  <1>7. CASE Destroy(c)
    <2>1. \A left \in BOOLEAN : ~DestroyVm(vm[Obj(c)], left).reg
      BY DEF DestroyVm, NoVM
    <2>. QED
      BY <1>7, <2>1 DEF Destroy, Govc
  <1>8. CASE DatastorePathExists(c)
    BY <1>2, <1>8 DEF DatastorePathExists, Ask
  <1>9. CASE DeleteDir(c)
    BY <1>2, <1>9 DEF DeleteDir, Govc, DeleteDatastoreDir, VM
  <1>. QED
    BY <1>4, <1>5, <1>6, <1>7, <1>8, <1>9 DEF DestroyStep

\* DeleteInv is an invariant of the CPI.
THEOREM DeleteInvariant == Spec => []DeleteInv
  <1>1. Init => DeleteInv
    <2>. SUFFICES ASSUME Init PROVE DeleteInv
      OBVIOUS
    <2>1. CallInv
      BY DEF Init, CallInv, Op, Obj, Known
    <2>. QED
      BY <2>1, TypeInit DEF Init, DeleteInv, UnregisteredInv, DeletedIsGone, Op
  <1>2. DeleteInv /\ [Next]_vars => DeleteInv'
    <2>. SUFFICES ASSUME DeleteInv, [Next]_vars PROVE DeleteInv'
      OBVIOUS
    <2>1. TypeOK /\ CallInv /\ TypeOK'
      BY TypeStep DEF DeleteInv
    <2>. SUFFICES CallInv' /\ UnregisteredInv' /\ DeletedIsGone'
      BY <2>1 DEF DeleteInv
    <2>2. CASE UNCHANGED vars
      BY <2>1, <2>2
      DEF DeleteInv, CallInv, UnregisteredInv, DeletedIsGone, vars, Op, Obj, Known
    <2>3. ASSUME NEW c \in Cid, Begin(c)
          PROVE  CallInv' /\ UnregisteredInv' /\ DeletedIsGone'
      <3>1. PICK op \in Ops : \E p \in Objects(c, op) :
              /\ call' = [call EXCEPT ![c] = [op |-> op, obj |-> p[1], arg |-> p[2]]]
              /\ pc' = [pc EXCEPT ![c] = First(op)]
        BY <2>3 DEF Begin
      <3>2. PICK p \in Objects(c, op) :
              /\ call' = [call EXCEPT ![c] = [op |-> op, obj |-> p[1], arg |-> p[2]]]
              /\ pc' = [pc EXCEPT ![c] = First(op)]
        BY <3>1
      <3>3. resp[c] = "none" /\ UNCHANGED <<vm, resp>>
        BY <2>1, <2>3 DEF Begin, CallInv
      <3>4. op \in AllOps
        BY CpiAssumption
      <3>5. /\ Op(c)' = op /\ Obj(c)' = p[1]
            /\ \A d \in Cid \ {c} : Op(d)' = Op(d) /\ Obj(d)' = Obj(d)
        BY <2>1, <3>2 DEF TypeOK, Op, Obj
      <3>6. \A o \in AllOps : Known(o)' = Known(o)
        BY <3>3, <3>5 DEF Known
      <3>7. /\ First(op) \in LabelsOf(op)
            /\ First(op) \notin {"ls", "rm"}
        BY <3>4 DEF First, LabelsOf, AllOps, CreateVmLabels, DestroyLabels
      <3>8. /\ op \in Creates => p[1] = c
            /\ op \in {"delete_vm", "has_vm", "attach_disk", "detach_disk"}
                 => p[1] \in Known("create_vm")
            /\ op = "delete_stemcell" => p[1] \in Known("create_stemcell")
        BY <3>4 DEF Objects, Creates, AllOps
      <3>9. \A d \in Cid : pc'[d] = IF d = c THEN First(op) ELSE pc[d]
        BY <2>1, <3>2 DEF TypeOK
      <3>10. CallInv'
        BY <2>1, <3>3, <3>5, <3>6, <3>7, <3>8, <3>9 DEF CallInv, AllOps
      <3>. QED
        BY <3>3, <3>5, <3>7, <3>9, <3>10
        DEF DeleteInv, UnregisteredInv, DeletedIsGone
    <2>4. ASSUME NEW c \in Cid, Step(c)
          PROVE  CallInv' /\ UnregisteredInv' /\ DeletedIsGone'
      <3>1. /\ Moves(c, LabelsOf(Op(c))) /\ call' = call /\ Running(c)
            /\ pc[c] \in LabelsOf(Op(c))
        BY <2>1, <2>4, StepMoves
      <3>2. CallInv'
        BY <2>1, <3>1, MovesKeepCallInv
      <3>3. Appears(c)
        BY <2>1, <2>4, StepAppears
      <3>4. \A d \in Cid \ {c} : pc'[d] = pc[d] /\ resp'[d] = resp[d]
        BY <2>1, <3>1 DEF Moves, TypeOK
      <3>5. CASE DestroyStep(c)
        <4>1. Op(c)' = Op(c) /\ Obj(c)' = Obj(c)
          BY <3>1 DEF Op, Obj
        <4>. QED
          BY <3>1, <3>2, <3>3, <3>4, <3>5, <4>1, DestroyOwn, OthersKeepDeleteInv
          DEF UnregisteredInv, DeletedIsGone
      <3>6. CASE ~DestroyStep(c)
        <4>1. pc[c] \notin DestroyLabels
          BY <2>4, <3>6, StepGroups
          DEF StemcellStep, ExtractOvf, ImportOvf, CreateVMStep, CloudProps,
            Copy, Register, Hardware, Resources, Network, Ephemeral, StartVM,
            Poll, Answer, DiskStep, Attach, Find, Remove, ReadEnv, CreateDisk,
            DiskPathExists, DeleteDisk, IsoStep, Trunc, Write, MkIso, Disconnect,
            Eject, UploadIso, Insert, Connect, MiscStep, HasVM, ServeFound, Info,
            Unsupported, NotImplemented, DestroyLabels
        <4>2. Op(c) \in AllOps \ {"delete_vm", "delete_stemcell"}
          BY <2>1, <3>1, <4>1 DEF TypeOK, Op, LabelsOf
        <4>3. /\ Op(c)' \notin {"delete_vm", "delete_stemcell"}
              /\ pc'[c] \notin {"ls", "rm"}
          BY <2>1, <3>1, <4>2
          DEF Op, Moves, TypeOK, LabelsOf, AllOps, CreateVmLabels, IsoLabels
        <4>. QED
          BY <3>1, <3>2, <3>3, <3>4, <4>3, OthersKeepDeleteInv
          DEF UnregisteredInv, DeletedIsGone
      <3>. QED
        BY <3>5, <3>6
    <2>5. ASSUME NEW c \in Cid, PowerOn(c) \/ HostStep(c) \/ PowerOnFails(c)
          PROVE  CallInv' /\ UnregisteredInv' /\ DeletedIsGone'
      <3>1. UNCHANGED <<pc, call, resp>>
        BY <2>5 DEF PowerOn, HostStep, PowerOnFails, Local
      <3>2. vm \in [Cid -> VM] /\ vm[c] \in VM
        BY <2>1 DEF TypeOK, HostTypeOK
      <3>3. Appears(c)
        BY <2>5, <3>2
        DEF PowerOn, HostStep, PowerOnFails, HostAsks, HostBoots, HostFails,
          PowerOnVm, VM, Appears
      <3>4. CallInv'
        BY <2>1, <3>1 DEF CallInv, Op, Obj, Known
      <3>. QED
        BY <3>1, <3>3, <3>4, OthersKeepDeleteInv DEF UnregisteredInv, DeletedIsGone
    <2>6. ASSUME NEW c \in Cid, Kill(c)
          PROVE  CallInv' /\ UnregisteredInv' /\ DeletedIsGone'
      <3>1. Moves(c, LabelsOf(Op(c))) /\ call' = call /\ Running(c) /\ vm' = vm
        BY <2>1, <2>6, EndMoves DEF Kill, Local, Responses
      <3>2. CallInv'
        BY <2>1, <3>1, MovesKeepCallInv
      <3>3. pc'[c] = "done" /\ resp'[c] = "none"
        BY <2>1, <2>6 DEF Kill, Respond, TypeOK
      <3>4. \A d \in Cid \ {c} : pc'[d] = pc[d] /\ resp'[d] = resp[d]
        BY <2>1, <3>1 DEF Moves, TypeOK
      <3>. QED
        BY <3>1, <3>2, <3>3, <3>4, OthersKeepDeleteInv
        DEF Appears, UnregisteredInv, DeletedIsGone
    <2>7. CASE Reboot
      BY <2>1, <2>7
      DEF Reboot, DeleteInv, CallInv, UnregisteredInv, DeletedIsGone, Op, Obj, Known
    <2>. QED
      BY <2>2, <2>3, <2>4, <2>5, <2>6, <2>7 DEF Next, Quiet
  <1>. QED
    BY <1>1, <1>2, PTL DEF Spec

\* A successful delete_vm or delete_stemcell is final: DestroyVM never reports
\* success with the VM still in the inventory or its directory still there,
\* and nothing brings either back.
THEOREM DeletesAreFinal == Spec => []DeletedIsGone
  BY DeleteInvariant, PTL DEF DeleteInv
=============================================================================
