------------------------- MODULE CpiContractProofs -------------------------
(***************************************************************************)
(* Cpi implements Contract: Spec => KeepsContract, for any number of calls *)
(* that overlap in any way and any faults.                                 *)
(*                                                                         *)
(* Every step of Cpi has one object: the thing its call works on.  Only    *)
(* that thing's status and presence change (StepHost, StatusMoves), and    *)
(* they change as the contract allows (AllowedIsStep).  The invariant says *)
(* what a create call has built when, and that what a delete works on is   *)
(* of the kind it deletes.                                                 *)
(***************************************************************************)
EXTENDS CpiProofs, CpiContract

VMKinds == {"create_stemcell", "create_vm"}
VMDeletes == {"delete_vm", "delete_stemcell"}

\* The name of a call is that of a VM or stemcell, or that of a disk, or of
\* nothing, by the call's method.
KindInv == \A c \in Cid :
  /\ pc[c] = "idle" => Op(c) = "unknown"
  /\ vm[c].reg \/ vm[c].dir => Op(c) \in VMKinds
  /\ c \in disks => Op(c) = "create_disk"

\* What delete_disk works on was made by create_disk; its success is final.
DiskDeleteInv == \A c \in Cid : Op(c) = "delete_disk" =>
  /\ Obj(c) \in Known("create_disk")
  /\ resp[c] = "ok" => Obj(c) \notin disks

AfterRegister == (CreateVmLabels \cup IsoLabels) \ {"props", "copy", "register"}

\* The VM that create_vm has built so far.
BuiltInv == \A c \in Cid : Op(c) = "create_vm" =>
  /\ pc[c] = "register" => vm[c].dir
  /\ pc[c] \in AfterRegister => vm[c].reg /\ vm[c].dir

ContractInv == DeleteInv /\ KindInv /\ DiskDeleteInv /\ BuiltInv

-----------------------------------------------------------------------------
(* What a step does to the things on the host.                             *)

SameVM(n) == vm'[n].reg = vm[n].reg /\ vm'[n].dir = vm[n].dir

Shrinks(n) == /\ vm'[n].reg => vm[n].reg
              /\ vm'[n].dir => vm[n].dir \/ vm[n].reg
              /\ vm'[n].reg /\ vm'[n].dir => vm[n].dir

HostMoves(c) ==
  /\ \A n \in Cid \ {Obj(c)} : SameVM(n) /\ (n \in disks' <=> n \in disks)
  /\ Op(c) \in VMKinds \cup VMDeletes \/ SameVM(Obj(c))
  /\ Op(c) \in VMDeletes => Shrinks(Obj(c))
  /\ Op(c) \in {"create_disk", "delete_disk"} \/ disks' = disks
  /\ Op(c) = "delete_disk" => disks' \subseteq disks

\* A step that leaves VMs and disks alone is one.
LEMMA HostSame ==
  ASSUME NEW c, UNCHANGED <<vm, disks>>
  PROVE  HostMoves(c)
  BY DEF HostMoves, SameVM, Shrinks

\* The iso commands change neither the inventory nor any directory.
LEMMA IsoSame ==
  ASSUME TypeOK, NEW c \in Cid, IsoStep(c)
  PROVE  disks' = disks /\ \A n \in Cid : SameVM(n)
  <1>1. /\ vm \in [Cid -> VM] /\ Obj(c) \in Cid
        /\ vm[c] \in VM /\ vm[Obj(c)] \in VM
    BY DEF TypeOK, HostTypeOK, Obj
  <1>. SUFFICES disks' = disks /\ \A n \in Cid : vm'[n].reg = vm[n].reg
                                              /\ vm'[n].dir = vm[n].dir
    BY DEF SameVM
  <1>2. CASE Trunc(c)
    BY <1>1, <1>2 DEF Trunc
  <1>3. CASE Write(c)
    BY <1>1, <1>3 DEF Write
  <1>4. CASE MkIso(c)
    BY <1>1, <1>4 DEF MkIso, Ask
  <1>5. CASE Disconnect(c)
    BY <1>1, <1>5 DEF Disconnect, Govc, DisconnectCdrom, VM
  <1>6. CASE Eject(c)
    BY <1>1, <1>6 DEF Eject, Govc, EjectCdrom, VM
  <1>7. CASE UploadIso(c)
    BY <1>1, <1>7 DEF UploadIso, Govc, Upload, VM
  <1>8. CASE Insert(c)
    BY <1>1, <1>8 DEF Insert, Govc, InsertCdrom, VM
  <1>9. CASE Connect(c)
    BY <1>1, <1>9 DEF Connect, Govc, ConnectCdrom, VM
  <1>. QED
    BY <1>2, <1>3, <1>4, <1>5, <1>6, <1>7, <1>8, <1>9 DEF IsoStep

\* DestroyVM only takes away, and only from its object.
LEMMA DestroyShrinks ==
  ASSUME TypeOK, NEW c \in Cid, DestroyStep(c)
  PROVE  /\ disks' = disks
         /\ Shrinks(Obj(c))
         /\ \A n \in Cid \ {Obj(c)} : SameVM(n)
  <1>1. vm \in [Cid -> VM] /\ Obj(c) \in Cid /\ vm[Obj(c)] \in VM
    BY DEF TypeOK, HostTypeOK, Obj
  <1>. USE DEF Shrinks, SameVM
  <1>2. CASE DestroyState(c)
    BY <1>1, <1>2 DEF DestroyState, Ask
  <1>3. CASE Stop(c)
    BY <1>1, <1>3 DEF Stop, Govc, StopVM, VM
  <1>4. CASE PowerOff(c)
    <2>1. vm' = vm \/ vm' = [vm EXCEPT ![Obj(c)] = StopVM(@)]
      BY <1>4 DEF PowerOff
    <2>2. disks' = disks
      BY <1>4 DEF PowerOff
    <2>. QED
      BY <1>1, <2>1, <2>2 DEF StopVM, VM
  <1>5. CASE Destroy(c)
    <2>1. \A left \in BOOLEAN : ~DestroyVm(vm[Obj(c)], left).reg
      BY DEF DestroyVm, NoVM
    <2>. QED
      BY <1>1, <1>5, <2>1 DEF Destroy, Govc
  <1>6. CASE DatastorePathExists(c)
    BY <1>1, <1>6 DEF DatastorePathExists, Ask
  <1>7. CASE DeleteDir(c)
    BY <1>1, <1>7 DEF DeleteDir, Govc, DeleteDatastoreDir, VM
  <1>. QED
    BY <1>2, <1>3, <1>4, <1>5, <1>6, <1>7 DEF DestroyStep

\* create_vm's own commands work on the VM it creates.
LEMMA CreateVMOwn ==
  ASSUME TypeOK, NEW c \in Cid, CreateVMStep(c)
  PROVE  disks' = disks /\ \A n \in Cid \ {c} : SameVM(n)
  BY DEF TypeOK, HostTypeOK, CreateVMStep, CloudProps, Copy, Register, Hardware,
    Resources, Network, Ephemeral, StartVM, Poll, Answer, Govc, Ask, SameVM

\* A step of a process changes nothing on the host but its call's object.
LEMMA StepHost ==
  ASSUME TypeOK, CallInv, NEW c \in Cid, Step(c)
  PROVE  HostMoves(c)
  <1>1. /\ vm \in [Cid -> VM] /\ Obj(c) \in Cid /\ vm[Obj(c)] \in VM
        /\ Op(c) \in Creates => Obj(c) = c
    BY DEF TypeOK, HostTypeOK, Obj, CallInv
  <1>2. CASE CreateStemcellCall(c)
    <2>1. \A n \in Cid \ {c} : SameVM(n)
      BY <1>1, <1>2 DEF CreateStemcellCall, ExtractOvf, ImportOvf, SameVM
    <2>2. disks' = disks /\ Op(c) = "create_stemcell"
      BY <1>2 DEF CreateStemcellCall, ExtractOvf, ImportOvf
    <2>. QED
      BY <1>1, <2>1, <2>2 DEF HostMoves, VMKinds, VMDeletes, Creates
  <1>3. CASE CreateVMCall(c)
    <2>1. disks' = disks /\ \A n \in Cid \ {c} : SameVM(n)
      BY <1>3, CreateVMOwn, IsoSame DEF CreateVMCall
    <2>2. Op(c) = "create_vm"
      BY <1>3 DEF CreateVMCall
    <2>. QED
      BY <1>1, <2>1, <2>2 DEF HostMoves, VMKinds, VMDeletes, Creates
  <1>4. CASE DeleteVMCall(c) \/ DeleteStemcellCall(c)
    <2>1. DestroyStep(c) /\ Op(c) \in VMDeletes
      BY <1>4 DEF DeleteVMCall, DeleteStemcellCall, VMDeletes
    <2>. QED
      BY <2>1, DestroyShrinks DEF HostMoves, VMDeletes
  <1>5. CASE CreateDiskCall(c)
    <2>1. /\ vm' = vm /\ Op(c) = "create_disk"
          /\ \A n \in Cid \ {c} : n \in disks' <=> n \in disks
      BY <1>5 DEF CreateDiskCall, CreateDisk, CreateDiskFile
    <2>. QED
      BY <1>1, <2>1 DEF HostMoves, SameVM, VMDeletes, Creates
  <1>6. CASE DeleteDiskCall(c)
    <2>1. /\ vm' = vm /\ Op(c) = "delete_disk" /\ disks' \subseteq disks
          /\ \A n \in Cid \ {Obj(c)} : n \in disks' <=> n \in disks
      BY <1>6 DEF DeleteDiskCall, DiskPathExists, DeleteDisk, Ask
    <2>. QED
      BY <2>1 DEF HostMoves, SameVM, VMDeletes
  <1>7. CASE AttachDiskCall(c) \/ DetachDiskCall(c)
    <2>1. disks' = disks /\ \A n \in Cid : SameVM(n)
      <3>1. CASE IsoStep(c)
        BY <3>1, IsoSame
      <3>2. CASE Attach(c)
        BY <1>1, <3>2 DEF Attach, Govc, AttachDisk, VM, SameVM
      <3>3. CASE Remove(c)
        BY <1>1, <3>3 DEF Remove, Govc, DetachDisk, VM, SameVM
      <3>4. CASE Find(c) \/ ReadEnv(c)
        BY <3>4 DEF Find, ReadEnv, SameVM
      <3>. QED
        BY <1>7, <3>1, <3>2, <3>3, <3>4 DEF AttachDiskCall, DetachDiskCall
    <2>2. Op(c) \in {"attach_disk", "detach_disk"}
      BY <1>7 DEF AttachDiskCall, DetachDiskCall
    <2>. QED
      BY <1>1, <2>1, <2>2 DEF HostMoves, VMDeletes
  <1>8. CASE HasVMCall(c) \/ Info(c) \/ Unsupported(c) \/ NotImplemented(c)
    BY <1>8, HostSame DEF HasVMCall, HasVM, ServeFound, Ask, Info, Unsupported, NotImplemented
  <1>. QED
    BY <1>2, <1>3, <1>4, <1>5, <1>6, <1>7, <1>8 DEF Step

-----------------------------------------------------------------------------
(* What a create call has built when it succeeds.                          *)

\* From its registration on, create_vm's steps leave the VM in the inventory
\* and its directory in place.
LEMMA BuiltStays ==
  ASSUME TypeOK, NEW c \in Cid, CreateVMCall(c), Obj(c) = c,
         pc[c] \notin {"props", "copy", "register"}
  PROVE  SameVM(c)
  <1>1. vm \in [Cid -> VM] /\ vm[c] \in VM
    BY DEF TypeOK, HostTypeOK
  <1>2. CASE IsoStep(c)
    BY <1>2, IsoSame
  <1>3. CASE Hardware(c)
    BY <1>1, <1>3 DEF Hardware, Govc, ConfigVMHardware, VM, SameVM
  <1>4. CASE Resources(c)
    BY <1>1, <1>4 DEF Resources, Govc, SetVMResources, VM, SameVM
  <1>5. CASE Network(c)
    <2>1. vm' = vm \/ \E net \in mem[c].todo, mac \in Macs :
                        vm' = [vm EXCEPT ![c] = AddNetwork(vm[c], net, mac)]
      BY <1>5 DEF Network, Govc
    <2>. QED
      BY <1>1, <2>1 DEF AddNetwork, VM, SameVM
  <1>6. CASE Ephemeral(c)
    BY <1>1, <1>6 DEF Ephemeral, Govc, CreateEphemeralDisk, VM, SameVM
  <1>7. CASE StartVM(c) \/ Poll(c)
    BY <1>7 DEF StartVM, Poll, Ask, SameVM
  <1>8. CASE Answer(c)
    BY <1>1, <1>8 DEF Answer, Govc, Ask, AnswerCopyQuestion, VM, SameVM
  <1>. QED
    BY <1>2, <1>3, <1>4, <1>5, <1>6, <1>7, <1>8
    DEF CreateVMCall, CreateVMStep, CloudProps, Copy, Register

Built(n) == vm[n].reg /\ vm[n].dir

\* What create_vm has built at a label, and when it succeeds.
LEMMA CreateVMBuilds ==
  ASSUME TypeOK, CallInv, BuiltInv, NEW c \in Cid, Step(c), Op(c) = "create_vm"
  PROVE  /\ pc'[c] = "register" => vm'[c].dir
         /\ pc'[c] \in AfterRegister => Built(c)'
         /\ resp'[c] = "ok" => Built(c)'
  <1>1. /\ vm \in [Cid -> VM] /\ vm[c] \in VM /\ Obj(c) = c
        /\ pc \in [Cid -> Labels] /\ resp \in [Cid -> Responses]
    BY DEF TypeOK, HostTypeOK, CallInv, Creates
  <1>2. /\ pc[c] \in CreateVmLabels \cup IsoLabels
        /\ resp[c] = "none"
        /\ Moves(c, CreateVmLabels \cup IsoLabels)
    BY StepMoves DEF CallInv, Running, LabelsOf
  <1>3. CreateVMCall(c)
    <2>1. pc[c] \notin {"info", "panic", "notimpl"}
      BY <1>2 DEF CreateVmLabels, IsoLabels
    <2>. QED
      BY <2>1 DEF Step, CreateStemcellCall, DeleteStemcellCall, DeleteVMCall,
        HasVMCall, CreateDiskCall, DeleteDiskCall, AttachDiskCall,
        DetachDiskCall, Info, Unsupported, NotImplemented
  <1>4. CASE pc[c] \in AfterRegister
    <2>1. Built(c) /\ SameVM(c)
      BY <1>1, <1>3, <1>4, BuiltStays DEF BuiltInv, Built, AfterRegister
    <2>2. Built(c)'
      BY <2>1 DEF Built, SameVM
    <2>. QED
      BY <2>2 DEF Built
  <1>5. CASE pc[c] = "props"
    <2>1. CloudProps(c)
      BY <1>3, <1>5 DEF CreateVMCall, CreateVMStep, Copy, Register, Hardware,
        Resources, Network, Ephemeral, StartVM, Poll, Answer, IsoStep, Trunc,
        Write, MkIso, Disconnect, Eject, UploadIso, Insert, Connect
    <2>2. pc'[c] \in {"copy", "done"} /\ resp'[c] # "ok"
      BY <1>1, <1>2, <2>1
      DEF CloudProps, Ask, Goto, GotoWith, MayFail, Fail, Respond
    <2>. QED
      BY <2>2 DEF AfterRegister, CreateVmLabels, IsoLabels
  <1>6. CASE pc[c] = "copy"
    <2>1. Copy(c)
      BY <1>3, <1>6 DEF CreateVMCall, CreateVMStep, CloudProps, Register, Hardware,
        Resources, Network, Ephemeral, StartVM, Poll, Answer, IsoStep, Trunc,
        Write, MkIso, Disconnect, Eject, UploadIso, Insert, Connect
    <2>2. CopyDatastoreStemcell(vm[c]).dir
      BY <1>1 DEF CopyDatastoreStemcell, VM
    <2>3. /\ pc'[c] \in {"register", "done"} /\ resp'[c] # "ok"
          /\ pc'[c] = "register" => vm'[c].dir
      BY <1>1, <1>2, <2>1, <2>2
      DEF Copy, Govc, Goto, GotoWith, MayFail, Fail, Respond
    <2>. QED
      BY <2>3 DEF AfterRegister, CreateVmLabels, IsoLabels
  <1>7. CASE pc[c] = "register"
    <2>1. Register(c)
      BY <1>3, <1>7 DEF CreateVMCall, CreateVMStep, CloudProps, Copy, Hardware,
        Resources, Network, Ephemeral, StartVM, Poll, Answer, IsoStep, Trunc,
        Write, MkIso, Disconnect, Eject, UploadIso, Insert, Connect
    <2>2. vm[c].dir
      BY <1>7 DEF BuiltInv
    <2>3. RegisterDatastoreVm(vm[c]).reg /\ RegisterDatastoreVm(vm[c]).dir
      BY <1>1, <2>2 DEF RegisterDatastoreVm, VM
    <2>4. /\ pc'[c] \in {"hardware", "done"} /\ resp'[c] # "ok"
          /\ pc'[c] = "hardware" => Built(c)'
      BY <1>1, <1>2, <2>1, <2>3
      DEF Register, Govc, Goto, GotoWith, MayFail, Fail, Respond, Built
    <2>. QED
      BY <2>4 DEF AfterRegister, CreateVmLabels, IsoLabels
  <1>. QED
    BY <1>2, <1>4, <1>5, <1>6, <1>7 DEF AfterRegister

\* create_stemcell and create_disk have made their thing when they succeed.
LEMMA OthersBuild ==
  ASSUME TypeOK, CallInv, NEW c \in Cid, Step(c), resp'[c] = "ok"
  PROVE  /\ Op(c) = "create_stemcell" => Built(c)'
         /\ Op(c) = "create_disk" => c \in disks'
         /\ Op(c) = "delete_disk" => Obj(c) \notin disks'
  <1>1. /\ vm \in [Cid -> VM] /\ resp \in [Cid -> Responses]
        /\ resp[c] = "none" /\ pc[c] \in LabelsOf(Op(c))
    BY StepMoves DEF TypeOK, HostTypeOK, CallInv, Running
  <1>2. CASE Op(c) = "create_stemcell"
    <2>1. ExtractOvf(c) \/ ImportOvf(c)
      BY <1>1, <1>2 DEF LabelsOf, Step, CreateStemcellCall, DeleteStemcellCall,
        CreateVMCall, DeleteVMCall, HasVMCall, CreateDiskCall, DeleteDiskCall,
        AttachDiskCall, DetachDiskCall, Info, Unsupported, NotImplemented
    <2>2. Stemcell.reg /\ Stemcell.dir
      BY DEF Stemcell, NoVM
    <2>. QED
      BY <1>1, <1>2, <2>1, <2>2
      DEF ExtractOvf, ImportOvf, Goto, GotoWith, MayFail, Fail, Respond, Built
  <1>3. CASE Op(c) = "create_disk"
    <2>1. CreateDisk(c)
      BY <1>1, <1>3 DEF LabelsOf, Step, CreateStemcellCall, DeleteStemcellCall,
        CreateVMCall, DeleteVMCall, HasVMCall, CreateDiskCall, DeleteDiskCall,
        AttachDiskCall, DetachDiskCall, Info, Unsupported, NotImplemented
    <2>. QED
      BY <1>1, <1>3, <2>1 DEF CreateDisk, CreateDiskFile, MayFail, Fail, Respond
  <1>4. CASE Op(c) = "delete_disk"
    <2>1. DiskPathExists(c) \/ DeleteDisk(c)
      BY <1>1, <1>4 DEF LabelsOf, Step, CreateStemcellCall, DeleteStemcellCall,
        CreateVMCall, DeleteVMCall, HasVMCall, CreateDiskCall, DeleteDiskCall,
        AttachDiskCall, DetachDiskCall, Info, Unsupported, NotImplemented
    <2>. QED
      BY <1>1, <1>4, <2>1
      DEF DiskPathExists, DeleteDisk, Ask, Goto, GotoWith, MayFail, Fail, Respond
  <1>. QED
    BY <1>2, <1>3, <1>4

-----------------------------------------------------------------------------
(* The invariant                                                           *)

KindsInv == KindInv /\ DiskDeleteInv /\ BuiltInv

\* What a call works on when it deletes: something that is made and whole.
LEMMA DeletedWasMade ==
  ASSUME TypeOK, CallInv, DiskDeleteInv, NEW c \in Cid
  PROVE  /\ Op(c) \in VMDeletes => /\ Op(Obj(c)) \in VMKinds
                                   /\ Obj(c) \in Cid /\ resp[Obj(c)] = "ok"
         /\ Op(c) = "delete_disk" => /\ Op(Obj(c)) = "create_disk"
                                     /\ Obj(c) \in Cid /\ resp[Obj(c)] = "ok"
  BY DEF CallInv, DiskDeleteInv, Known, VMDeletes, VMKinds

\* A step that leaves calls, labels and responses alone, and of the host only
\* what is not a thing, keeps the invariant.
LEMMA KindsSame ==
  ASSUME TypeOK, KindsInv, UNCHANGED <<pc, call, resp, disks>>,
         \A n \in Cid : SameVM(n)
  PROVE  KindsInv'
  BY DEF KindsInv, KindInv, DiskDeleteInv, BuiltInv, SameVM, Op, Obj, Known

\* A step within the code of a call keeps the invariant.
LEMMA KindsMoves ==
  ASSUME TypeOK, CallInv, KindsInv, NEW c \in Cid, Running(c), call' = call,
         Moves(c, LabelsOf(Op(c))), HostMoves(c),
         Op(c) = "create_vm" =>
           /\ pc'[c] = "register" => vm'[c].dir
           /\ pc'[c] \in AfterRegister => Built(c)',
         Op(c) = "delete_disk" /\ resp'[c] = "ok" => Obj(c) \notin disks'
  PROVE  KindsInv'
  <1>1. PICK l \in LabelsOf(Op(c)) \cup {"done"}, r \in Responses :
          /\ pc' = [pc EXCEPT ![c] = l]
          /\ resp' = [resp EXCEPT ![c] = r]
          /\ l # "done" => r = resp[c]
    BY DEF Moves
  <1>2. /\ resp[c] = "none" /\ Op(c) \in AllOps /\ Obj(c) \in Cid
        /\ Op(c) \in VMKinds \cup {"create_disk"} => Obj(c) = c
    BY DEF CallInv, Running, TypeOK, Op, Obj, Creates, VMKinds
  <1>3. \A d \in Cid : /\ Op(d)' = Op(d) /\ Obj(d)' = Obj(d)
                       /\ d # c => pc'[d] = pc[d] /\ resp'[d] = resp[d]
    BY <1>1 DEF Op, Obj, TypeOK
  <1>4. pc'[c] # "idle"
    BY <1>1, <1>2 DEF TypeOK, LabelsOf, AllOps, CreateVmLabels, IsoLabels,
      DestroyLabels
  <1>5. \A n \in Cid :
          /\ vm'[n].reg \/ vm'[n].dir =>
               vm[n].reg \/ vm[n].dir \/ (n = c /\ Op(c) \in VMKinds)
          /\ n \in disks' => n \in disks \/ (n = c /\ Op(c) = "create_disk")
    BY <1>2 DEF HostMoves, SameVM, Shrinks
  <1>6. KindInv'
    BY <1>3, <1>4, <1>5 DEF KindsInv, KindInv
  <1>7. DiskDeleteInv'
    <2>1. \A d \in Cid : Op(d) = "delete_disk" =>
             Obj(d) \in Known("create_disk") /\ Obj(d) # c
      BY <1>2 DEF KindsInv, DiskDeleteInv, Known
    <2>2. Known("create_disk") \subseteq Known("create_disk")'
      BY <1>2, <1>3 DEF Known
    <2>3. \A d \in Cid \ {c} : Op(d) = "delete_disk" /\ resp[d] = "ok" =>
             Obj(d) \notin disks'
      BY <1>5, <2>1 DEF KindsInv, DiskDeleteInv, Known
    <2>. QED
      BY <1>3, <2>1, <2>2, <2>3 DEF DiskDeleteInv
  <1>8. BuiltInv'
    <2>. SUFFICES ASSUME NEW d \in Cid \ {c}, Op(d) = "create_vm",
                         pc[d] \in AfterRegister \cup {"register"}
                  PROVE  SameVM(d)
      BY <1>3 DEF KindsInv, BuiltInv, SameVM, Built
    <2>1. resp[d] # "ok"
      BY DEF CallInv, AfterRegister, CreateVmLabels, IsoLabels
    <2>2. Op(c) \in VMDeletes => Obj(c) # d
      BY <2>1, DeletedWasMade DEF KindsInv
    <2>. QED
      BY <1>2, <2>2 DEF HostMoves
  <1>. QED
    BY <1>6, <1>7, <1>8 DEF KindsInv

\* The call that the director begins: what it names, and what it leaves alone.
LEMMA Begins ==
  ASSUME TypeOK, NEW c \in Cid, Begin(c)
  PROVE  /\ pc[c] = "idle" /\ UNCHANGED <<vm, disks, resp>>
         /\ Op(c)' \in AllOps /\ Obj(c)' \in Cid
         /\ pc'[c] = First(Op(c)') /\ pc'[c] \notin {"idle", "done"}
         /\ \A d \in Cid \ {c} : /\ Op(d)' = Op(d) /\ Obj(d)' = Obj(d)
                                /\ pc'[d] = pc[d]
         /\ Op(c)' \in Creates => Obj(c)' = c
         /\ Op(c)' = "delete_vm" => Obj(c)' \in Known("create_vm")
         /\ Op(c)' = "delete_stemcell" => Obj(c)' \in Known("create_stemcell")
         /\ Op(c)' = "delete_disk" => Obj(c)' \in Known("create_disk")
  <1>1. PICK op \in Ops : \E p \in Objects(c, op) :
          /\ call' = [call EXCEPT ![c] = [op |-> op, obj |-> p[1], arg |-> p[2]]]
          /\ pc' = [pc EXCEPT ![c] = First(op)]
    BY DEF Begin
  <1>2. PICK p \in Objects(c, op) :
          /\ call' = [call EXCEPT ![c] = [op |-> op, obj |-> p[1], arg |-> p[2]]]
          /\ pc' = [pc EXCEPT ![c] = First(op)]
    BY <1>1
  <1>3. /\ Op(c)' = op /\ Obj(c)' = p[1]
        /\ \A d \in Cid \ {c} : Op(d)' = Op(d) /\ Obj(d)' = Obj(d)
    BY <1>2 DEF TypeOK, Op, Obj
  <1>4. op \in AllOps /\ p[1] \in Cid
    BY CpiAssumption DEF Objects, Known
  <1>5. /\ pc'[c] = First(op)
        /\ \A d \in Cid \ {c} : pc'[d] = pc[d]
    BY <1>2 DEF TypeOK
  <1>6. First(op) \notin {"idle", "done"}
    BY DEF First
  <1>7. /\ op \in Creates => p[1] = c
        /\ op = "delete_vm" => p[1] \in Known("create_vm")
        /\ op = "delete_stemcell" => p[1] \in Known("create_stemcell")
        /\ op = "delete_disk" => p[1] \in Known("create_disk")
    BY <1>4 DEF Objects, Creates, AllOps
  <1>8. pc[c] = "idle" /\ UNCHANGED <<vm, disks, resp>>
    BY DEF Begin
  <1>. QED
    BY <1>3, <1>4, <1>5, <1>6, <1>7, <1>8

\* The steps of the host and of the goroutine leave what is there alone.
LEMMA PowerSame ==
  ASSUME TypeOK, NEW c \in Cid, PowerOn(c) \/ HostStep(c) \/ PowerOnFails(c)
  PROVE  UNCHANGED <<pc, call, resp, disks>> /\ \A n \in Cid : SameVM(n)
  <1>1. vm \in [Cid -> VM] /\ vm[c] \in VM
    BY DEF TypeOK, HostTypeOK
  <1>2. CASE PowerOn(c)
    BY <1>1, <1>2 DEF PowerOn, PowerOnVm, VM, SameVM, Local
  <1>3. CASE HostStep(c)
    BY <1>1, <1>3 DEF HostStep, HostAsks, HostBoots, VM, SameVM, Local
  <1>4. CASE PowerOnFails(c)
    BY <1>1, <1>4 DEF PowerOnFails, HostFails, VM, SameVM, Local
  <1>. QED
    BY <1>2, <1>3, <1>4

\* A process that dies moves to "done" without a response.
LEMMA KillMoves ==
  ASSUME TypeOK, NEW c \in Cid, Kill(c)
  PROVE  /\ Moves(c, LabelsOf(Op(c))) /\ call' = call /\ Running(c)
         /\ UNCHANGED <<vm, disks>>
         /\ pc'[c] = "done" /\ resp'[c] = "none"
  BY EndMoves DEF Kill, Local, Responses, Respond, TypeOK

\* A step of a process, all that the proofs need of it.
LEMMA StepFacts ==
  ASSUME TypeOK, CallInv, BuiltInv, NEW c \in Cid, Step(c)
  PROVE  /\ Moves(c, LabelsOf(Op(c))) /\ call' = call /\ Running(c)
         /\ HostMoves(c)
         /\ Op(c) = "create_vm" =>
              /\ pc'[c] = "register" => vm'[c].dir
              /\ pc'[c] \in AfterRegister => Built(c)'
         /\ resp'[c] = "ok" =>
              /\ Op(c) \in VMKinds => Built(c)'
              /\ Op(c) = "create_disk" => c \in disks'
              /\ Op(c) = "delete_disk" => Obj(c) \notin disks'
  BY StepMoves, StepHost, CreateVMBuilds, OthersBuild DEF VMKinds

\* ContractInv is an invariant of the CPI.
THEOREM ContractInvariant == Spec => []ContractInv
  <1>1. Init => KindsInv
    BY CpiAssumption
    DEF Init, KindsInv, KindInv, DiskDeleteInv, BuiltInv, Op, Obj, VMKinds, NoVM,
      Stemcell, AfterRegister, CreateVmLabels, IsoLabels
  <1>2. DeleteInv /\ KindsInv /\ [Next]_vars => KindsInv'
    <2>. SUFFICES ASSUME DeleteInv, KindsInv, [Next]_vars PROVE KindsInv'
      OBVIOUS
    <2>1. TypeOK /\ CallInv /\ BuiltInv
      BY DEF DeleteInv, KindsInv
    <2>2. CASE UNCHANGED vars
      BY <2>1, <2>2, KindsSame DEF vars, SameVM
    <2>3. ASSUME NEW c \in Cid, Begin(c) PROVE KindsInv'
      <3>1. resp[c] = "none" /\ \A d \in Cid : SameVM(d)
        BY <2>1, <2>3, Begins DEF CallInv, SameVM
      <3>2. Op(c) = "unknown" /\ pc[c] = "idle"
        BY <2>1, <2>3, Begins DEF KindsInv, KindInv
      <3>3. KindInv'
        BY <2>1, <2>3, <3>1, <3>2, Begins DEF KindsInv, KindInv, SameVM, VMKinds
      <3>4. DiskDeleteInv'
        BY <2>1, <2>3, <3>1, <3>2, Begins DEF KindsInv, DiskDeleteInv, Known
      <3>5. First("create_vm") = "props"
        BY DEF First
      <3>6. BuiltInv'
        BY <2>1, <2>3, <3>1, <3>5, Begins
        DEF KindsInv, BuiltInv, SameVM, AfterRegister
      <3>. QED
        BY <3>3, <3>4, <3>6 DEF KindsInv
    <2>4. ASSUME NEW c \in Cid, Step(c) PROVE KindsInv'
      BY <2>1, <2>4, StepFacts, KindsMoves DEF KindsInv
    <2>5. ASSUME NEW c \in Cid, PowerOn(c) \/ HostStep(c) \/ PowerOnFails(c)
          PROVE  KindsInv'
      BY <2>1, <2>5, PowerSame, KindsSame
    <2>6. ASSUME NEW c \in Cid, Kill(c) PROVE KindsInv'
      <3>1. HostMoves(c)
        BY <2>1, <2>6, KillMoves, HostSame
      <3>. QED
        BY <2>1, <2>6, <3>1, KillMoves, KindsMoves
        DEF AfterRegister, CreateVmLabels, IsoLabels
    <2>7. CASE Reboot
      BY <2>1, <2>7, KindsSame DEF Reboot, SameVM
    <2>. QED
      BY <2>2, <2>3, <2>4, <2>5, <2>6, <2>7 DEF Next, Quiet
  <1>3. DeleteInv /\ KindsInv => ContractInv
    BY DEF KindsInv, ContractInv
  <1>. QED
    BY <1>1, <1>2, <1>3, DeleteInvariant, PTL DEF Spec

-----------------------------------------------------------------------------
(* The refinement                                                          *)

\* The steps of the contract for one thing, as a relation between what was and
\* what is.
Allowed(s, p, s2, p2) ==
  \/ s2 = s /\ p2 = p
  \/ s = "absent" /\ s2 = "making" /\ p2 = p
  \/ s = "making" /\ s2 \in {"making", "failed"}
  \/ s = "making" /\ s2 = "exists" /\ p2 = "whole"
  \/ s = "exists" /\ s2 = "dying" /\ p2 = p
  \/ s = "dying" /\ s2 = "dying" /\ p2 \in Promise!Less(p)
  \/ s = "dying" /\ s2 = "gone" /\ p2 = "no"

\* A change of one thing that is allowed is a step of the contract.
LEMMA AllowedIsStep ==
  ASSUME NEW x \in Cid,
         \A y \in Cid \ {x} : StatusOf(y)' = StatusOf(y) /\ HostHas(y)' = HostHas(y),
         Allowed(StatusOf(x), HostHas(x), StatusOf(x)', HostHas(x)')
  PROVE  [Promise!ContractNext]_(Promise!cvars)
  <1>. DEFINE S == [y \in Cid |-> StatusOf(y)]
              H == [y \in Cid |-> HostHas(y)]
              s2 == StatusOf(x)'
              p2 == HostHas(x)'
  <1>1. S' = [S EXCEPT ![x] = s2] /\ H' = [H EXCEPT ![x] = p2]
    OBVIOUS
  <1>2. S[x] = StatusOf(x) /\ H[x] = HostHas(x)
    OBVIOUS
  <1>3. p2 \in {"no", "partly", "whole"}
    BY DEF HostHas
  <1>4. CASE s2 = S[x] /\ p2 = H[x]
    BY <1>1, <1>4 DEF Promise!cvars
  <1>5. CASE ~(s2 = S[x] /\ p2 = H[x])
    <2>. HIDE DEF S, H, s2, p2
    <2>1. Promise!Become(x, s2, p2)
      BY <1>1 DEF Promise!Become, S, H
    <2>2. Allowed(S[x], H[x], s2, p2)
      BY <1>2 DEF s2, p2
    <2>3. \/ Promise!BeginCreate(x) \/ Promise!Build(x) \/ Promise!Created(x)
          \/ Promise!GiveUp(x) \/ Promise!BeginDelete(x) \/ Promise!TakeAway(x)
          \/ Promise!Deleted(x)
      BY <1>3, <1>5, <2>1, <2>2
      DEF Allowed, Promise!BeginCreate, Promise!Build, Promise!Created,
        Promise!GiveUp, Promise!BeginDelete, Promise!TakeAway, Promise!Deleted,
        Promise!Presence, S, H
    <2>. QED
      BY <2>3 DEF Promise!ContractNext
  <1>. QED
    BY <1>4, <1>5

Makes == VMKinds \cup {"create_disk"}
Unmakes == VMDeletes \cup {"delete_disk"}

\* What a step within the code of a call does to the status of its object x.
LEMMA StatusMoves ==
  ASSUME TypeOK, CallInv, DiskDeleteInv, NEW c \in Cid, Running(c), call' = call,
         Moves(c, LabelsOf(Op(c))), NEW x \in Cid, x = Obj(c)
  PROVE  /\ \A y \in Cid \ {x} : StatusOf(y)' = StatusOf(y)
         /\ Op(c) \notin Makes \cup Unmakes => StatusOf(x)' = StatusOf(x)
         /\ Op(c) \in Makes =>
              /\ x = c /\ StatusOf(x) = "making"
              /\ StatusOf(x)' \in {"making", "failed", "exists"}
              /\ StatusOf(x)' = "exists" => resp'[c] = "ok"
         /\ Op(c) \in Unmakes =>
              \/ /\ StatusOf(x) = "dying"
                 /\ StatusOf(x)' = IF resp'[c] = "ok" THEN "gone" ELSE "dying"
              \/ /\ StatusOf(x) = "gone" /\ StatusOf(x)' = "gone"
                 /\ \E d \in Deletes(x) : resp[d] = "ok"
  <1>1. PICK l \in LabelsOf(Op(c)) \cup {"done"}, r \in Responses :
          /\ pc' = [pc EXCEPT ![c] = l]
          /\ resp' = [resp EXCEPT ![c] = r]
          /\ l # "done" => r = resp[c]
    BY DEF Moves
  <1>2. /\ resp[c] = "none" /\ Op(c) \in AllOps
        /\ Op(c) \in Makes => x = c
    BY DEF CallInv, Running, TypeOK, Op, Obj, Creates, VMKinds, Makes
  <1>3. \A d \in Cid : /\ Op(d)' = Op(d) /\ Obj(d)' = Obj(d)
                       /\ d # c => pc'[d] = pc[d] /\ resp'[d] = resp[d]
    BY <1>1 DEF Op, Obj, TypeOK
  <1>4. /\ pc[c] \notin {"idle", "done"}
        /\ pc'[c] # "idle"
        /\ pc'[c] # "done" => resp'[c] = "none"
    BY <1>1, <1>2 DEF Running, TypeOK, LabelsOf, AllOps, CreateVmLabels,
      IsoLabels, DestroyLabels
  <1>5. \A y \in Cid : /\ Deletes(y)' = Deletes(y) /\ Making(y)' = Making(y)
                       /\ y # c => Running(y)' = Running(y)
    BY <1>3, <1>4 DEF Deletes, Making, Begun, Running
  <1>6. \A y \in Cid \ {x} : c \notin Deletes(y)
    BY DEF Deletes
  <1>7. \A y \in Cid : \A d \in Deletes(y) :
           resp[y] = "ok" /\ d \in Cid /\ Making(y) /\ ~Running(y)
    BY DeletedWasMade
    DEF Deletes, VMDeletes, VMKinds, CallInv, Making, Begun, Running
  <1>8. ASSUME NEW y \in Cid, y # c \/ Op(c) \notin Makes, c \notin Deletes(y)
        PROVE  StatusOf(y)' = StatusOf(y)
    <2>1. Making(y) => y # c
      BY <1>8 DEF Making, Makes, VMKinds
    <2>2. \A d \in Deletes(y) : d \in Cid \ {c}
      BY <1>7, <1>8
    <2>. QED
      BY <1>3, <1>5, <2>1, <2>2 DEF StatusOf
  <1>9. Op(c) \notin Unmakes => \A y \in Cid : c \notin Deletes(y)
    BY DEF Deletes, Unmakes, VMDeletes
  <1>10. ASSUME Op(c) \in Makes
         PROVE  /\ StatusOf(c) = "making"
                /\ StatusOf(c)' \in {"making", "failed", "exists"}
                /\ StatusOf(c)' = "exists" => resp'[c] = "ok"
    <2>1. Making(c) /\ Making(c)' /\ Running(c)
      BY <1>4, <1>5, <1>10 DEF Making, Begun, Makes, VMKinds
    <2>2. Deletes(c) = {} /\ Deletes(c)' = {}
      BY <1>2, <1>5, <1>7
    <2>. QED
      BY <1>4, <2>1, <2>2 DEF StatusOf, Running
  <1>11. ASSUME Op(c) \in Unmakes
         PROVE  \/ /\ StatusOf(x) = "dying"
                   /\ StatusOf(x)' = IF resp'[c] = "ok" THEN "gone" ELSE "dying"
                \/ /\ StatusOf(x) = "gone" /\ StatusOf(x)' = "gone"
                   /\ \E d \in Deletes(x) : resp[d] = "ok"
    <2>1. c \in Deletes(x)
      BY <1>4, <1>11 DEF Deletes, Begun, Unmakes, VMDeletes
    <2>2. Making(x) /\ ~Running(x) /\ resp[x] = "ok" /\ x # c
      BY <1>2, <1>7, <2>1
    <2>3. Making(x)' /\ ~Running(x)' /\ resp'[x] = "ok" /\ Deletes(x)' = Deletes(x)
      BY <1>2, <1>3, <1>5, <2>2
    <2>4. \A d \in Deletes(x) \ {c} : resp'[d] = resp[d]
      BY <1>3, <1>7, <1>2
    <2>5. /\ StatusOf(x) = IF \E d \in Deletes(x) : resp[d] = "ok"
                           THEN "gone" ELSE "dying"
          /\ StatusOf(x)' = IF \E d \in Deletes(x) : resp'[d] = "ok"
                            THEN "gone" ELSE "dying"
      BY <2>1, <2>2, <2>3 DEF StatusOf
    <2>6. CASE \E d \in Deletes(x) : resp[d] = "ok"
      <3>1. \E d \in Deletes(x) : resp'[d] = "ok"
        BY <1>2, <2>4, <2>6
      <3>. QED
        BY <2>5, <2>6, <3>1
    <2>7. CASE ~\E d \in Deletes(x) : resp[d] = "ok"
      <3>1. (\E d \in Deletes(x) : resp'[d] = "ok") <=> resp'[c] = "ok"
        BY <2>1, <2>4, <2>7
      <3>. QED
        BY <2>5, <2>7, <3>1
    <2>. QED
      BY <2>6, <2>7
  <1>. QED
    BY <1>2, <1>6, <1>8, <1>9, <1>10, <1>11 DEF Makes, VMKinds, Unmakes, VMDeletes

\* A thing that a step does not touch is as present as before.
LEMMA PresenceSame ==
  ASSUME NEW n, SameVM(n), n \in disks' <=> n \in disks
  PROVE  HostHas(n)' = HostHas(n)
  BY DEF HostHas, SameVM

\* Of a VM or stemcell that only shrinks, less is left.
LEMMA ShrinksLess ==
  ASSUME NEW n, Shrinks(n), n \notin disks, n \notin disks'
  PROVE  HostHas(n)' \in Promise!Less(HostHas(n))
  BY DEF HostHas, Shrinks, Promise!Less, Promise!Presence

\* A step of a delete call takes away some of its thing; the last leaves none.
LEMMA DeleteAllowed ==
  ASSUME ContractInv, ContractInv', NEW c \in Cid, Step(c), Op(c) \in Unmakes,
         NEW x \in Cid, x = Obj(c)
  PROVE  Allowed(StatusOf(x), HostHas(x), StatusOf(x)', HostHas(x)')
  <1>1. /\ TypeOK /\ CallInv /\ BuiltInv /\ DiskDeleteInv /\ KindInv /\ KindInv'
        /\ DiskDeleteInv' /\ DeletedIsGone /\ DeletedIsGone'
    BY DEF ContractInv, DeleteInv
  <1>2. Moves(c, LabelsOf(Op(c))) /\ call' = call /\ Running(c) /\ HostMoves(c)
    BY <1>1, StepFacts
  <1>3. \/ /\ StatusOf(x) = "dying"
           /\ StatusOf(x)' = IF resp'[c] = "ok" THEN "gone" ELSE "dying"
        \/ /\ StatusOf(x) = "gone" /\ StatusOf(x)' = "gone"
           /\ \E d \in Deletes(x) : resp[d] = "ok"
    BY <1>1, <1>2, StatusMoves
  <1>4. \A d \in Cid : Op(d)' = Op(d) /\ Obj(d)' = Obj(d)
    BY <1>2 DEF Op, Obj
  <1>5. CASE Op(c) \in VMDeletes
    <2>1. Op(x) \in VMKinds /\ x \notin disks /\ x \notin disks'
      BY <1>1, <1>4, <1>5, DeletedWasMade DEF KindInv, VMKinds
    <2>2. Shrinks(x)
      BY <1>2, <1>5 DEF HostMoves
    <2>3. resp'[c] = "ok" => HostHas(x)' = "no"
      BY <1>1, <1>4, <1>5, <2>1 DEF DeletedIsGone, VMDeletes, HostHas
    <2>4. (\E d \in Deletes(x) : resp[d] = "ok") => HostHas(x) = "no"
      <3>1. ASSUME NEW d \in Deletes(x), resp[d] = "ok"
            PROVE  ~vm[x].reg /\ ~vm[x].dir
        BY <1>1, <2>1, <3>1, DeletedWasMade
        DEF Deletes, DeletedIsGone, VMKinds
      <3>. QED
        BY <2>1, <3>1 DEF HostHas
    <2>5. HostHas(x)' \in Promise!Less(HostHas(x))
      BY <2>1, <2>2, ShrinksLess
    <2>. QED
      BY <1>3, <2>3, <2>4, <2>5 DEF Allowed, Promise!Less
  <1>6. CASE Op(c) = "delete_disk"
    <2>1. /\ Op(x) = "create_disk"
          /\ ~vm[x].reg /\ ~vm[x].dir /\ ~vm'[x].reg /\ ~vm'[x].dir
      BY <1>1, <1>4, <1>6, DeletedWasMade DEF KindInv, VMKinds
    <2>2. x \in disks' => x \in disks
      BY <1>2, <1>6 DEF HostMoves
    <2>3. resp'[c] = "ok" => HostHas(x)' = "no"
      BY <1>1, <1>4, <1>6, <2>1 DEF DiskDeleteInv, HostHas
    <2>4. (\E d \in Deletes(x) : resp[d] = "ok") => HostHas(x) = "no"
      <3>1. ASSUME NEW d \in Deletes(x), resp[d] = "ok"
            PROVE  x \notin disks
        BY <1>1, <2>1, <3>1, DeletedWasMade
        DEF Deletes, DiskDeleteInv, VMKinds, VMDeletes
      <3>. QED
        BY <2>1, <3>1 DEF HostHas
    <2>5. HostHas(x)' \in Promise!Less(HostHas(x))
      BY <2>1, <2>2 DEF HostHas, Promise!Less, Promise!Presence
    <2>. QED
      BY <1>3, <2>3, <2>4, <2>5 DEF Allowed, Promise!Less
  <1>. QED
    BY <1>5, <1>6 DEF Unmakes

\* A step of a process is a step of the contract.
LEMMA StepKeeps ==
  ASSUME ContractInv, ContractInv', NEW c \in Cid, Step(c)
  PROVE  [Promise!ContractNext]_(Promise!cvars)
  <1>1. TypeOK /\ CallInv /\ BuiltInv /\ DiskDeleteInv
    BY DEF ContractInv, DeleteInv
  <1>2. PICK x \in Cid : x = Obj(c)
    BY <1>1 DEF TypeOK, Obj
  <1>3. Moves(c, LabelsOf(Op(c))) /\ call' = call /\ Running(c) /\ HostMoves(c)
    BY <1>1, StepFacts
  <1>4. \A y \in Cid \ {x} : StatusOf(y)' = StatusOf(y)
    BY <1>1, <1>2, <1>3, StatusMoves
  <1>5. \A y \in Cid \ {x} : HostHas(y)' = HostHas(y)
    BY <1>2, <1>3, PresenceSame DEF HostMoves
  <1>6. Allowed(StatusOf(x), HostHas(x), StatusOf(x)', HostHas(x)')
    <2>1. CASE Op(c) \in Makes
      <3>1. /\ x = c /\ StatusOf(x) = "making"
            /\ StatusOf(x)' \in {"making", "failed", "exists"}
            /\ StatusOf(x)' = "exists" => resp'[c] = "ok"
        BY <1>1, <1>2, <1>3, <2>1, StatusMoves
      <3>2. resp'[c] = "ok" => Built(c)' \/ c \in disks'
        BY <1>1, <2>1, StepFacts DEF Makes
      <3>3. resp'[c] = "ok" => HostHas(x)' = "whole"
        BY <3>1, <3>2 DEF HostHas, Built
      <3>. QED
        BY <3>1, <3>3 DEF Allowed
    <2>2. CASE Op(c) \in Unmakes
      BY <1>2, <2>2, DeleteAllowed
    <2>3. CASE Op(c) \notin Makes \cup Unmakes
      <3>1. StatusOf(x)' = StatusOf(x)
        BY <1>1, <1>2, <1>3, <2>3, StatusMoves
      <3>2. SameVM(x) /\ disks' = disks
        BY <1>2, <1>3, <2>3 DEF HostMoves, Makes, Unmakes
      <3>. QED
        BY <3>1, <3>2, PresenceSame DEF Allowed
    <2>. QED
      BY <2>1, <2>2, <2>3
  <1>. QED
    BY <1>4, <1>5, <1>6, AllowedIsStep

\* The end of a process is a step of the contract, too: a create call that dies
\* gives up, and a delete call leaves its thing dying.
LEMMA KillKeeps ==
  ASSUME ContractInv, NEW c \in Cid, Kill(c)
  PROVE  [Promise!ContractNext]_(Promise!cvars)
  <1>1. TypeOK /\ CallInv /\ BuiltInv /\ DiskDeleteInv
    BY DEF ContractInv, DeleteInv
  <1>2. PICK x \in Cid : x = Obj(c)
    BY <1>1 DEF TypeOK, Obj
  <1>3. /\ Moves(c, LabelsOf(Op(c))) /\ call' = call /\ Running(c)
        /\ UNCHANGED <<vm, disks>> /\ resp'[c] = "none"
    BY <1>1, KillMoves
  <1>4. \A y \in Cid : HostHas(y)' = HostHas(y)
    BY <1>3 DEF HostHas
  <1>5. \A y \in Cid \ {x} : StatusOf(y)' = StatusOf(y)
    BY <1>1, <1>2, <1>3, StatusMoves
  <1>6. \/ StatusOf(x)' = StatusOf(x)
        \/ StatusOf(x) = "making" /\ StatusOf(x)' \in {"making", "failed"}
    BY <1>1, <1>2, <1>3, StatusMoves
  <1>. QED
    BY <1>4, <1>5, <1>6, AllowedIsStep DEF Allowed

\* When the director begins a call, it begins to make or to delete a thing.
LEMMA BeginKeeps ==
  ASSUME ContractInv, NEW c \in Cid, Begin(c)
  PROVE  [Promise!ContractNext]_(Promise!cvars)
  <1>1. TypeOK /\ CallInv /\ DiskDeleteInv
    BY DEF ContractInv, DeleteInv
  <1>2. PICK x \in Cid : x = Obj(c)'
    BY <1>1, Begins
  <1>3. /\ pc[c] = "idle" /\ resp[c] = "none" /\ resp' = resp
        /\ Running(c)' /\ Begun(c)' /\ ~Begun(c)
        /\ \A d \in Cid \ {c} : /\ Op(d)' = Op(d) /\ Obj(d)' = Obj(d)
                                /\ Running(d)' = Running(d) /\ Begun(d)' = Begun(d)
    BY <1>1, Begins DEF CallInv, Running, Begun
  <1>4. \A y \in Cid : HostHas(y)' = HostHas(y)
    BY <1>1, Begins DEF HostHas
  <1>5. \A y \in Cid :
          Deletes(y)' = Deletes(y) \cup
                          (IF y = x /\ Op(c)' \in Unmakes THEN {c} ELSE {})
    BY <1>2, <1>3 DEF Deletes, Unmakes, VMDeletes
  <1>6. /\ ~Making(c) /\ (Making(c)' <=> Op(c)' \in Makes)
        /\ \A y \in Cid \ {c} : (Making(y)' <=> Making(y))
    BY <1>3 DEF Making, Makes, VMKinds
  <1>7. Op(c)' \in Makes => x = c
    BY <1>1, <1>2, Begins DEF Makes, VMKinds, Creates
  <1>8. ASSUME NEW y \in Cid, y # x \/ Op(c)' \notin Makes \cup Unmakes
        PROVE  StatusOf(y)' = StatusOf(y)
    <2>1. Deletes(y)' = Deletes(y) /\ (Making(y)' <=> Making(y))
      BY <1>5, <1>6, <1>7, <1>8
    <2>2. CASE ~Making(y)
      BY <2>1, <2>2 DEF StatusOf
    <2>3. CASE Making(y)
      <3>1. y # c
        BY <1>6, <2>3
      <3>. QED
        BY <1>3, <2>1, <3>1 DEF StatusOf
    <2>. QED
      BY <2>2, <2>3
  <1>9. CASE Op(c)' \in Makes
    <2>1. StatusOf(x) = "absent" /\ StatusOf(x)' = "making"
      BY <1>3, <1>6, <1>7, <1>9 DEF StatusOf
    <2>. QED
      BY <1>4, <1>8, <2>1, AllowedIsStep DEF Allowed
  <1>10. CASE Op(c)' \in Unmakes
    <2>1. resp[x] = "ok" /\ Op(x) \in Makes
      BY <1>1, <1>2, <1>10, Begins DEF Unmakes, VMDeletes, Known, Makes, VMKinds
    <2>2. x # c /\ Making(x) /\ ~Running(x)
      BY <1>1, <1>3, <2>1 DEF CallInv, Making, Begun, Running, Makes, VMKinds
    <2>3. /\ Making(x)' /\ ~Running(x)' /\ resp'[x] = "ok"
          /\ Deletes(x)' = Deletes(x) \cup {c}
      BY <1>3, <1>5, <1>6, <1>10, <2>1, <2>2
    <2>4. (\E d \in Deletes(x)' : resp'[d] = "ok")
             <=> \E d \in Deletes(x) : resp[d] = "ok"
      BY <1>3, <2>3
    <2>5. StatusOf(x) = IF Deletes(x) = {} THEN "exists"
                        ELSE IF \E d \in Deletes(x) : resp[d] = "ok"
                             THEN "gone" ELSE "dying"
      BY <2>1, <2>2 DEF StatusOf
    <2>6. StatusOf(x)' = IF \E d \in Deletes(x)' : resp'[d] = "ok"
                         THEN "gone" ELSE "dying"
      BY <2>3 DEF StatusOf
    <2>7. \/ StatusOf(x) = "exists" /\ StatusOf(x)' = "dying"
          \/ StatusOf(x)' = StatusOf(x)
      BY <2>4, <2>5, <2>6
    <2>. QED
      BY <1>4, <1>8, <2>7, AllowedIsStep DEF Allowed
  <1>11. CASE Op(c)' \notin Makes \cup Unmakes
    BY <1>2, <1>4, <1>8, <1>11, AllowedIsStep DEF Allowed
  <1>. QED
    BY <1>9, <1>10, <1>11

\* A step that leaves calls and the presence of things alone is a stutter.
LEMMA SameKeeps ==
  ASSUME UNCHANGED <<pc, call, resp, disks>>, \A n \in Cid : SameVM(n)
  PROVE  [Promise!ContractNext]_(Promise!cvars)
  <1>1. \A n \in Cid : HostHas(n)' = HostHas(n)
    BY PresenceSame
  <1>2. \A n \in Cid : StatusOf(n)' = StatusOf(n)
    BY DEF StatusOf, Making, Begun, Deletes, Running, Op, Obj
  <1>. QED
    BY <1>1, <1>2 DEF Promise!cvars

\* At first the imported stemcells exist, and nothing else.
LEMMA ContractStarts == Init => Promise!ContractInit
  <1>. SUFFICES ASSUME Init
                PROVE  \A x \in Cid :
                         /\ StatusOf(x) = IF x \in Imported THEN "exists" ELSE "absent"
                         /\ HostHas(x) = IF x \in Imported THEN "whole" ELSE "no"
    BY DEF Promise!ContractInit
  <1>. TAKE x \in Cid
  <1>1. /\ pc = [c \in Cid |-> IF c \in Imported THEN "done" ELSE "idle"]
        /\ resp = [c \in Cid |-> IF c \in Imported THEN "ok" ELSE "none"]
        /\ \A c \in Cid : Op(c) = IF c \in Imported THEN "create_stemcell"
                                                    ELSE "unknown"
    BY DEF Init, Op
  <1>2. Deletes(x) = {}
    BY <1>1 DEF Deletes
  <1>3. StatusOf(x) = IF x \in Imported THEN "exists" ELSE "absent"
    BY <1>1, <1>2 DEF StatusOf, Making, Begun, Running
  <1>4. HostHas(x) = IF x \in Imported THEN "whole" ELSE "no"
    BY DEF Init, HostHas, Stemcell, NoVM
  <1>. QED
    BY <1>3, <1>4

\* The create and delete methods keep the contract, for any number of calls
\* that overlap in any way, on one thing too, with failing commands, lost
\* replies, processes that die and a host that reboots.
THEOREM ImplementsContract == Spec => KeepsContract
  <1>1. ContractInv /\ ContractInv' /\ [Next]_vars
          => [Promise!ContractNext]_(Promise!cvars)
    <2>. SUFFICES ASSUME ContractInv, ContractInv', [Next]_vars
                  PROVE  [Promise!ContractNext]_(Promise!cvars)
      OBVIOUS
    <2>1. TypeOK
      BY DEF ContractInv, DeleteInv
    <2>2. ASSUME NEW c \in Cid, Begin(c) PROVE [Promise!ContractNext]_(Promise!cvars)
      BY <2>2, BeginKeeps
    <2>3. ASSUME NEW c \in Cid, Step(c) PROVE [Promise!ContractNext]_(Promise!cvars)
      BY <2>3, StepKeeps
    <2>4. ASSUME NEW c \in Cid, Kill(c) PROVE [Promise!ContractNext]_(Promise!cvars)
      BY <2>4, KillKeeps
    <2>5. ASSUME NEW c \in Cid, PowerOn(c) \/ HostStep(c) \/ PowerOnFails(c)
          PROVE  [Promise!ContractNext]_(Promise!cvars)
      BY <2>1, <2>5, PowerSame, SameKeeps
    <2>6. CASE Reboot \/ Quiet \/ UNCHANGED vars
      BY <2>6, SameKeeps DEF Reboot, Quiet, vars, SameVM
    <2>. QED
      BY <2>2, <2>3, <2>4, <2>5, <2>6 DEF Next
  <1>. QED
    BY <1>1, ContractStarts, ContractInvariant, PTL
    DEF Spec, KeepsContract, Promise!ContractSpec
-----------------------------------------------------------------------------
(* has_vm agrees with the contract: it looks at one moment, and at that    *)
(* moment a thing that exists is whole and one that is gone is not there;  *)
(* that a delete has begun, which a "no" tells of, is not undone before    *)
(* the answer is written.                                                  *)

Promises == \A x \in Cid : /\ StatusOf(x) = "exists" => HostHas(x) = "whole"
                           /\ StatusOf(x) = "gone" => HostHas(x) = "no"

\* It is an invariant of the contract itself.
LEMMA ContractPromises ==
  /\ Promise!ContractInit => Promises
  /\ Promises /\ [Promise!ContractNext]_(Promise!cvars) => Promises'
  <1>. DEFINE S == [y \in Cid |-> StatusOf(y)]
              H == [y \in Cid |-> HostHas(y)]
  <1>1. Promises <=> \A x \in Cid : /\ S[x] = "exists" => H[x] = "whole"
                                    /\ S[x] = "gone" => H[x] = "no"
    BY DEF Promises
  <1>2. Promises' <=> \A x \in Cid : /\ S'[x] = "exists" => H'[x] = "whole"
                                     /\ S'[x] = "gone" => H'[x] = "no"
    BY DEF Promises
  <1>3. Promise!ContractInit => Promises
    <2>. HIDE DEF S, H
    <2>1. Promise!ContractInit <=>
            /\ S = [x \in Cid |-> IF x \in Imported THEN "exists" ELSE "absent"]
            /\ H = [x \in Cid |-> IF x \in Imported THEN "whole" ELSE "no"]
      BY DEF S, H, Promise!ContractInit
    <2>. QED
      BY <1>1, <2>1
  <1>4. ASSUME Promises, NEW x \in Cid, NEW s, NEW p, Promise!Become(x, s, p),
               s = "exists" => p = "whole", s = "gone" => p = "no"
        PROVE  Promises'
    <2>1. S' = [S EXCEPT ![x] = s] /\ H' = [H EXCEPT ![x] = p]
      BY <1>4 DEF Promise!Become
    <2>2. S = [S EXCEPT ![x] = S[x]] /\ DOMAIN S = Cid /\ DOMAIN H = Cid
      OBVIOUS
    <2>. HIDE DEF S, H
    <2>. QED
      BY <1>1, <1>2, <1>4, <2>1, <2>2
  <1>5. ASSUME Promises, Promise!ContractNext PROVE Promises'
    BY <1>4, <1>5
    DEF Promise!ContractNext, Promise!BeginCreate, Promise!Build, Promise!Created,
      Promise!GiveUp, Promise!BeginDelete, Promise!TakeAway, Promise!Deleted
  <1>6. ASSUME Promises, UNCHANGED Promise!cvars PROVE Promises'
    BY <1>1, <1>2, <1>6 DEF Promise!cvars
  <1>. QED
    BY <1>3, <1>5, <1>6

\* A process that runs gets its response from its own step, if from any, and
\* no other step takes it to a place in its code.
LEMMA OwnResponse ==
  ASSUME TypeOK, CallInv, [Next]_vars, NEW c \in Cid, ~Step(c)
  PROVE  /\ resp[c] = "none" => resp'[c] = "none"
         /\ pc'[c] \in {"present", "absent"} => pc'[c] = pc[c]
  <1>. DEFINE Unmoved == /\ resp[c] = "none" => resp'[c] = "none"
                         /\ pc'[c] \in {"present", "absent"} => pc'[c] = pc[c]
  <1>1. ASSUME NEW d \in Cid, Begin(d) PROVE Unmoved
    <2>1. pc'[d] = First(Op(d)') /\ \A e \in Cid \ {d} : pc'[e] = pc[e]
      BY <1>1, Begins
    <2>2. pc'[d] \notin {"present", "absent"}
      BY <2>1 DEF First
    <2>. QED
      BY <1>1, <2>1, <2>2 DEF Begin
  <1>2. ASSUME NEW d \in Cid, Step(d) PROVE Unmoved
    BY <1>2, StepMoves DEF Moves, TypeOK
  <1>3. ASSUME NEW d \in Cid, PowerOn(d) \/ HostStep(d) \/ PowerOnFails(d)
        PROVE  Unmoved
    BY <1>3, PowerSame
  <1>4. ASSUME NEW d \in Cid, Kill(d) PROVE Unmoved
    BY <1>4 DEF Kill, Respond, TypeOK
  <1>5. CASE Reboot \/ Quiet \/ UNCHANGED vars
    BY <1>5 DEF Reboot, Quiet, vars
  <1>. QED
    BY <1>1, <1>2, <1>3, <1>4, <1>5 DEF Next

\* A call that has begun remains, with its request.
LEMMA BegunStays ==
  ASSUME TypeOK, CallInv, [Next]_vars, NEW d \in Cid, Begun(d)
  PROVE  Begun(d)' /\ Op(d)' = Op(d) /\ Obj(d)' = Obj(d)
  <1>. DEFINE Stays == Begun(d)' /\ Op(d)' = Op(d) /\ Obj(d)' = Obj(d)
  <1>1. ASSUME NEW e \in Cid, Begin(e) PROVE Stays
    BY <1>1, Begins DEF Begun
  <1>2. ASSUME NEW e \in Cid, Moves(e, LabelsOf(Op(e))), call' = call PROVE Stays
    <2>1. Op(e) \in AllOps
      BY DEF TypeOK, Op
    <2>2. "idle" \notin LabelsOf(Op(e))
      BY <2>1 DEF LabelsOf, AllOps, CreateVmLabels, IsoLabels, DestroyLabels
    <2>. QED
      BY <1>2, <2>2 DEF Moves, TypeOK, Begun, Op, Obj
  <1>3. ASSUME NEW e \in Cid, Step(e) \/ Kill(e) PROVE Stays
    BY <1>2, <1>3, StepMoves, KillMoves
  <1>4. ASSUME NEW e \in Cid, PowerOn(e) \/ HostStep(e) \/ PowerOnFails(e)
        PROVE  Stays
    BY <1>4, PowerSame DEF Begun, Op, Obj
  <1>5. CASE Reboot \/ Quiet \/ UNCHANGED vars
    BY <1>5 DEF Reboot, Quiet, vars, Begun, Op, Obj
  <1>. QED
    BY <1>1, <1>3, <1>4, <1>5 DEF Next

\* A process that is about to answer "no" speaks of a VM being deleted.
AbsentInv ==
  \A c \in Cid : Op(c) = "has_vm" /\ pc[c] = "absent" => Deletes(Obj(c)) # {}

\* The VM that has_vm is asked about was made: it exists until it is deleted.
LEMMA KnownStatus ==
  ASSUME CallInv, NEW c \in Cid, Op(c) = "has_vm"
  PROVE  StatusOf(Obj(c)) = "exists" <=> Deletes(Obj(c)) = {}
  BY DEF CallInv, Known, StatusOf, Making, Begun, Running

\* What a step of has_vm does.
LEMMA HasVMLooks ==
  ASSUME ContractInv, Promises, NEW c \in Cid, Step(c), Op(c) = "has_vm"
  PROVE  /\ call' = call
         /\ pc[c] = "has" /\ pc'[c] = "present" => StatusOf(Obj(c)) # "gone"
         /\ pc'[c] = "absent" => Deletes(Obj(c)) # {}
         /\ resp'[c] = "no" => pc[c] = "absent"
  <1>1. TypeOK /\ CallInv /\ KindInv
    BY DEF ContractInv, DeleteInv
  <1>2. pc[c] \in {"has", "present", "absent"} /\ call' = call /\ resp[c] = "none"
    BY <1>1, StepMoves DEF LabelsOf, CallInv, Running
  <1>3. HasVM(c) \/ ServeFound(c)
    BY <1>2 DEF Step, HasVMCall, CreateStemcellCall, DeleteStemcellCall,
      CreateVMCall, DeleteVMCall, CreateDiskCall, DeleteDiskCall, AttachDiskCall,
      DetachDiskCall, Info, Unsupported, NotImplemented
  <1>4. Obj(c) \in Cid /\ Obj(c) \notin disks
    BY <1>1 DEF CallInv, Known, KindInv
  <1>5. /\ HostHas(Obj(c)) = "whole" => vm[Obj(c)].reg
        /\ HostHas(Obj(c)) = "no" => ~vm[Obj(c)].reg
    BY <1>4 DEF HostHas
  <1>6. CASE HasVM(c)
    <2>1. \/ /\ pc'[c] = IF vm[Obj(c)].reg THEN "present" ELSE "absent"
             /\ resp'[c] = "none"
          \/ pc'[c] = "done" /\ resp'[c] \in {"none", "error"}
      BY <1>1, <1>2, <1>6
      DEF HasVM, Ask, Goto, GotoWith, MayFail, Fail, Respond, TypeOK, VmState
    <2>2. /\ vm[Obj(c)].reg => StatusOf(Obj(c)) # "gone"
          /\ ~vm[Obj(c)].reg => StatusOf(Obj(c)) # "exists"
      BY <1>4, <1>5 DEF Promises
    <2>. QED
      BY <1>1, <1>2, <2>1, <2>2, KnownStatus
  <1>7. CASE ServeFound(c)
    BY <1>1, <1>2, <1>7 DEF ServeFound, Respond, TypeOK
  <1>. QED
    BY <1>3, <1>6, <1>7

LEMMA AbsentStep ==
  ContractInv /\ Promises /\ AbsentInv /\ [Next]_vars => AbsentInv'
  <1>. SUFFICES ASSUME ContractInv, Promises, AbsentInv, [Next]_vars,
                       NEW c \in Cid, Op(c)' = "has_vm", pc'[c] = "absent"
                PROVE  Deletes(Obj(c))' # {}
    BY DEF AbsentInv
  <1>1. TypeOK /\ CallInv /\ TypeOK'
    BY TypeStep DEF ContractInv, DeleteInv
  <1>2. ~Step(c) => pc[c] = "absent"
    BY <1>1, OwnResponse
  <1>3. Begun(c)
    BY <1>1, <1>2, StepMoves DEF CallInv, Running, Begun
  <1>4. Op(c) = "has_vm" /\ Obj(c)' = Obj(c)
    BY <1>1, <1>3, BegunStays
  <1>5. PICK d \in Cid : d \in Deletes(Obj(c))
    <2>1. CASE Step(c)
      BY <1>4, <2>1, HasVMLooks DEF Deletes
    <2>2. CASE ~Step(c)
      BY <1>2, <1>4, <2>2 DEF AbsentInv, Deletes
    <2>. QED
      BY <2>1, <2>2
  <1>6. Begun(d)' /\ Op(d)' = Op(d) /\ Obj(d)' = Obj(d)
    BY <1>1, <1>5, BegunStays DEF Deletes
  <1>. QED
    BY <1>4, <1>5, <1>6 DEF Deletes

\* However other calls overtake it, has_vm does not find a VM that a delete has
\* reported gone, nor answer that one is missing which nobody deletes.
THEOREM HasVMAnswers == Spec => HasVMAgrees
  <1>1. ContractInv /\ Promises /\ AbsentInv /\ [Next]_vars =>
          [\A c \in Cid : Op(c) = "has_vm" =>
             /\ pc[c] = "has" /\ pc'[c] = "present" => StatusOf(Obj(c)) # "gone"
             /\ resp[c] = "none" /\ resp'[c] = "no"
                  => StatusOf(Obj(c)) # "exists"]_vars
    <2>. SUFFICES ASSUME ContractInv, Promises, AbsentInv, [Next]_vars,
                         NEW c \in Cid, Op(c) = "has_vm"
                  PROVE  /\ pc[c] = "has" /\ pc'[c] = "present"
                              => StatusOf(Obj(c)) # "gone"
                         /\ resp[c] = "none" /\ resp'[c] = "no"
                              => StatusOf(Obj(c)) # "exists"
      OBVIOUS
    <2>1. TypeOK /\ CallInv
      BY DEF ContractInv, DeleteInv
    <2>2. pc[c] = "has" => resp[c] = "none"
      BY <2>1 DEF CallInv
    <2>3. CASE Step(c)
      BY <2>1, <2>3, HasVMLooks, KnownStatus DEF AbsentInv
    <2>4. CASE ~Step(c)
      BY <2>1, <2>2, <2>4, OwnResponse
    <2>. QED
      BY <2>3, <2>4
  <1>2. Init => AbsentInv
    BY DEF Init, AbsentInv
  <1>3. Spec => []Promises
    BY ImplementsContract, ContractPromises, PTL
    DEF KeepsContract, Promise!ContractSpec
  <1>. QED
    BY <1>1, <1>2, <1>3, AbsentStep, ContractInvariant, PTL DEF Spec, HasVMAgrees
=============================================================================
