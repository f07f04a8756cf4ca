---------------------------- MODULE CpiDiskProofs ----------------------------
(***************************************************************************)
(* What the calls on a VM that is there do to its devices, its iso and its *)
(* cdrom, for any number of calls and any faults.                          *)
(*                                                                         *)
(* With one call on a VM at a time (Exclusive) nothing but the call itself *)
(* touches its VM while it runs, so what its steps have done stays done    *)
(* (DiskInv).  Without that, a cdrom that is out is still somebody's work  *)
(* (CdromInv): the call that took it out has not put it in again.          *)
(***************************************************************************)
EXTENDS CpiStartProofs

DiskOps == {"attach_disk", "detach_disk"}

\* The director runs one call at a time on a thing.
DistinctInv == Exclusive =>
  \A c, d \in Cid : Running(c) /\ Running(d) /\ c # d => Obj(c) # Obj(d)

\* A disk call q at label l, with the record r of its VM and its memory m.
DevicesDone(q, l, r, m) ==
  /\ l = "remove" => m.slot \in Slots /\ r.devs[m.slot] = q.arg
  /\ q.op = "attach_disk" /\ l # "attach" => \E s \in Slots : r.devs[s] = q.arg

IsoDone(q, l, r, m) ==
  /\ l \in IsoLabels => (q.arg \in m.env.disks <=> q.op = "attach_disk")
  /\ l \in {"disconnect", "eject", "upload"} => Made(m.iso, m.env)
  /\ l \in {"insert", "connect"} => Made(r.iso, m.env)

CdromDone(l, r) ==
  /\ l = "eject" => ~r.cdOn
  /\ l = "upload" => ~r.cdIn
  /\ l = "connect" => r.cdIn

DiskReady(q, l, r, m) == DevicesDone(q, l, r, m) /\ IsoDone(q, l, r, m)

Working(c) == Op(c) \in DiskOps /\ pc[c] # "done"

DiskInv == Exclusive => \A c \in Cid :
  /\ Working(c) => DiskReady(call[c], pc[c], vm[Obj(c)], mem[c])
  /\ CdromDone(pc[c], vm[Obj(c)])

\* Only what create_vm has made has devices for disks, and an iso.
BareInv == \A n \in Cid : Op(n) # "create_vm" =>
  /\ vm[n].iso = NoFile
  /\ \A s \in Slots : vm[n].devs[s] = NoDisk

\* A disk call on v that has not succeeded.
Witness(c, v) == Op(c) \in DiskOps /\ Obj(c) = v /\ resp[c] # "ok"

CdromInv == \A v \in Known("create_vm") : vm[v].reg =>
  /\ ~vm[v].cdIn => \E c \in Cid : Witness(c, v) /\ pc[c] # "connect"
  /\ ~vm[v].cdOn => \E c \in Cid : Witness(c, v)

DiskCallInv == DistinctInv /\ DiskInv /\ BareInv /\ CdromInv

-----------------------------------------------------------------------------
(* The steps of a disk call                                                *)

Goes(c, l, r, m) == pc'[c] = l /\ vm'[Obj(c)] = r /\ mem'[c] = m

\* A govc command on the VM of the call.
LEMMA CommandGoes ==
  ASSUME TypeOK, NEW c \in Cid, NEW l, NEW ok, NEW r,
         Govc(c, Obj(c), ok, r, Goto(c, l))
  PROVE  Ends(c) \/ (ok /\ Goes(c, l, r, mem[c]))
  <1>1. Obj(c) \in Cid /\ vm \in [Cid -> VM]
    BY DEF TypeOK, HostTypeOK, Obj
  <1>. QED
    BY <1>1, EndsOrGoes DEF Govc, Goes

LEMMA IsoStepGoes ==
  ASSUME TypeOK, NEW c \in Cid, IsoStep(c)
  PROVE  \/ Ends(c)
         \/ pc[c] = "trunc" /\ Goes(c, "write", vm[Obj(c)], mem[c])
         \/ pc[c] = "trunc" /\ Goes(c, "mkiso", vm[Obj(c)], mem[c])
         \/ pc[c] = "write" /\ Goes(c, "mkiso", vm[Obj(c)], mem[c])
         \/ /\ pc[c] = "mkiso"
            /\ \E i : /\ Goes(c, "disconnect", vm[Obj(c)], [mem[c] EXCEPT !.iso = i])
                      /\ Made(i, mem[c].env)
         \/ /\ pc[c] = "disconnect"
            /\ Goes(c, "eject", DisconnectCdrom(vm[Obj(c)]), mem[c])
         \/ /\ pc[c] = "eject"
            /\ Goes(c, "upload", EjectCdrom(vm[Obj(c)]), mem[c])
         \/ /\ pc[c] = "upload"
            /\ Goes(c, "insert", Upload(vm[Obj(c)], mem[c].iso), mem[c])
         \/ /\ pc[c] = "insert"
            /\ Goes(c, "connect", InsertCdrom(vm[Obj(c)]), mem[c])
         \/ /\ pc[c] = "connect" /\ Op(c) = "create_vm"
            /\ Goes(c, "start", ConnectCdrom(vm[Obj(c)]), mem[c])
  <1>1. Obj(c) \in Cid /\ vm \in [Cid -> VM]
    BY DEF TypeOK, HostTypeOK, Obj
  <1>2. CASE Trunc(c) \/ Write(c)
    BY <1>2, EndsOrGoes DEF Trunc, Write, Goes
  <1>3. CASE MkIso(c)
    <2>1. CASE Ask(c, GotoWith(c, "disconnect", [mem[c] EXCEPT !.iso = mem[c].env]))
      BY <1>3, <2>1, EndsOrGoes DEF MkIso, Ask, Goes, Made
    <2>2. CASE /\ "iso" \in Faults /\ UNCHANGED vm
               /\ GotoWith(c, "disconnect", [mem[c] EXCEPT !.iso = Torn])
      BY <1>3, <2>2, EndsOrGoes DEF MkIso, Goes, Made
    <2>. QED
      BY <1>3, <2>1, <2>2 DEF MkIso
  <1>4. CASE Disconnect(c)
    BY <1>4, CommandGoes DEF Disconnect
  <1>5. CASE Eject(c)
    BY <1>5, CommandGoes DEF Eject
  <1>6. CASE UploadIso(c)
    BY <1>1, <1>6, EndsOrGoes DEF UploadIso, Govc, Goes
  <1>7. CASE Insert(c)
    BY <1>7, CommandGoes DEF Insert
  <1>8. CASE Connect(c)
    BY <1>1, <1>8, EndsOrGoes DEF Connect, Govc, Goes
  <1>. QED
    BY <1>2, <1>3, <1>4, <1>5, <1>6, <1>7, <1>8 DEF IsoStep

\* What the commands do to the parts of a record that matter here.
LEMMA IsoFields ==
  ASSUME NEW r \in VM
  PROVE  /\ DisconnectCdrom(r).devs = r.devs /\ EjectCdrom(r).devs = r.devs
         /\ InsertCdrom(r).devs = r.devs /\ ConnectCdrom(r).devs = r.devs
         /\ \A i : Upload(r, i).devs = r.devs /\ Upload(r, i).iso = i
                   /\ Upload(r, i).cdIn = r.cdIn /\ Upload(r, i).cdOn = r.cdOn
         /\ ~DisconnectCdrom(r).cdOn /\ ConnectCdrom(r).cdOn
         /\ ~EjectCdrom(r).cdIn /\ InsertCdrom(r).cdIn
         /\ DisconnectCdrom(r).cdIn = r.cdIn /\ ConnectCdrom(r).cdIn = r.cdIn
         /\ EjectCdrom(r).cdOn = r.cdOn /\ InsertCdrom(r).cdOn = r.cdOn
         /\ DisconnectCdrom(r).iso = r.iso /\ EjectCdrom(r).iso = r.iso
         /\ InsertCdrom(r).iso = r.iso /\ ConnectCdrom(r).iso = r.iso
         /\ \A s \in {DisconnectCdrom(r), EjectCdrom(r), InsertCdrom(r), ConnectCdrom(r)} :
              s.reg = r.reg /\ s.nics = r.nics
         /\ \A i : Upload(r, i).reg = r.reg /\ Upload(r, i).nics = r.nics
  BY DEF DisconnectCdrom, EjectCdrom, Upload, InsertCdrom, ConnectCdrom, VM

LEMMA IsoMemory ==
  ASSUME NEW m \in Memory, NEW i
  PROVE  LET n == [m EXCEPT !.iso = i] IN
           n.iso = i /\ n.env = m.env /\ n.slot = m.slot /\ n.pon = m.pon
  BY DEF Memory

\* An iso is uploaded while it is out of the cdrom, and connected when in.
LEMMA IsoStepCdrom ==
  ASSUME TypeOK, NEW c \in Cid, IsoStep(c)
  PROVE  CdromDone(pc'[c], vm'[Obj(c)])
  <1>1. vm[Obj(c)] \in VM
    BY DEF TypeOK, HostTypeOK, Obj
  <1>2. /\ pc'[c] = "eject" => vm'[Obj(c)] = DisconnectCdrom(vm[Obj(c)])
        /\ pc'[c] = "upload" => vm'[Obj(c)] = EjectCdrom(vm[Obj(c)])
    BY IsoStepGoes DEF Goes, Ends
  <1>3. ASSUME pc'[c] = "connect" PROVE vm'[Obj(c)] = InsertCdrom(vm[Obj(c)])
    BY <1>3, IsoStepGoes DEF Goes, Ends
  <1>. QED
    BY <1>1, <1>2, <1>3, IsoFields DEF CdromDone

LEMMA IsoStepReady ==
  ASSUME TypeOK, NEW c \in Cid, IsoStep(c), Op(c) \in DiskOps,
         DiskReady(call[c], pc[c], vm[Obj(c)], mem[c])
  PROVE  pc'[c] = "done" \/ DiskReady(call[c], pc'[c], vm'[Obj(c)], mem'[c])
  <1>1. vm[Obj(c)] \in VM /\ mem[c] \in Memory
    BY BuildingTypes DEF TypeOK, HostTypeOK, Obj
  <1>. USE DEF DiskReady, DevicesDone, IsoDone, Goes, IsoLabels
  <1>2. CASE Ends(c)
    BY <1>2 DEF Ends
  <1>3. CASE \/ pc[c] = "trunc" /\ Goes(c, "write", vm[Obj(c)], mem[c])
             \/ pc[c] = "trunc" /\ Goes(c, "mkiso", vm[Obj(c)], mem[c])
             \/ pc[c] = "write" /\ Goes(c, "mkiso", vm[Obj(c)], mem[c])
    BY <1>3
  <1>4. CASE /\ pc[c] = "mkiso"
             /\ \E i : /\ Goes(c, "disconnect", vm[Obj(c)], [mem[c] EXCEPT !.iso = i])
                       /\ Made(i, mem[c].env)
    BY <1>1, <1>4, IsoMemory
  <1>5. CASE /\ pc[c] = "disconnect"
             /\ Goes(c, "eject", DisconnectCdrom(vm[Obj(c)]), mem[c])
    BY <1>1, <1>5, IsoFields
  <1>6. CASE pc[c] = "eject" /\ Goes(c, "upload", EjectCdrom(vm[Obj(c)]), mem[c])
    BY <1>1, <1>6, IsoFields
  <1>7. CASE /\ pc[c] = "upload"
             /\ Goes(c, "insert", Upload(vm[Obj(c)], mem[c].iso), mem[c])
    BY <1>1, <1>7, IsoFields
  <1>8. CASE pc[c] = "insert" /\ Goes(c, "connect", InsertCdrom(vm[Obj(c)]), mem[c])
    BY <1>1, <1>8, IsoFields
  <1>. QED
    BY <1>2, <1>3, <1>4, <1>5, <1>6, <1>7, <1>8, IsoStepGoes DEF DiskOps

LEMMA DiskStepReady ==
  ASSUME TypeOK, CallInv, NEW c \in Cid, Step(c), Op(c) \in DiskOps,
         DiskReady(call[c], pc[c], vm[Obj(c)], mem[c])
  PROVE  pc'[c] = "done" \/ DiskReady(call[c], pc'[c], vm'[Obj(c)], mem'[c])
  <1>1. /\ vm \in [Cid -> VM] /\ Obj(c) \in Cid /\ vm[Obj(c)] \in VM
        /\ mem[c] \in Memory /\ pc[c] \in LabelsOf(Op(c))
        /\ Op(c) = call[c].op /\ Arg(c) = call[c].arg
    BY BuildingTypes, StepMoves DEF TypeOK, HostTypeOK, Obj, Op, Arg
  <1>2. CASE IsoStep(c)
    BY <1>2, IsoStepReady
  <1>3. CASE Op(c) = "attach_disk" /\ Attach(c)
    <2>1. CASE Fail(c)
      BY <2>1, EndsOrGoes DEF Ends
    <2>2. CASE ~Fail(c)
      <3>1. PICK s \in Slots :
              Govc(c, Obj(c), vm[Obj(c)].reg /\ Arg(c) \in disks,
                   AttachDisk(vm[Obj(c)], Arg(c), s), Goto(c, "readenv"))
        BY <1>3, <2>2 DEF Attach
      <3>2. Ends(c) \/ Goes(c, "readenv", AttachDisk(vm[Obj(c)], Arg(c), s), mem[c])
        BY <3>1, CommandGoes
      <3>3. AttachDisk(vm[Obj(c)], Arg(c), s).devs[s] = Arg(c)
        BY <1>1 DEF AttachDisk, VM
      <3>. QED
        BY <1>1, <1>3, <3>2, <3>3
        DEF Goes, Ends, DiskReady, DevicesDone, IsoDone, IsoLabels
    <2>. QED
      BY <2>1, <2>2
  <1>4. CASE Op(c) = "detach_disk" /\ Find(c)
    <2>1. CASE Fail(c)
      BY <2>1, EndsOrGoes DEF Ends
    <2>2. CASE ~Fail(c)
      <3>1. PICK s \in Slots : /\ vm[Obj(c)].devs[s] = Arg(c) /\ vm' = vm
                               /\ GotoWith(c, "remove", [mem[c] EXCEPT !.slot = s])
        BY <1>4, <2>2 DEF Find
      <3>2. pc'[c] = "remove" /\ mem'[c] = [mem[c] EXCEPT !.slot = s]
        BY <3>1, EndsOrGoes
      <3>3. mem'[c].slot = s
        BY <1>1, <3>2 DEF Memory
      <3>. QED
        BY <1>1, <1>4, <3>1, <3>2, <3>3
        DEF DiskReady, DevicesDone, IsoDone, IsoLabels
    <2>. QED
      BY <2>1, <2>2
  <1>5. CASE Op(c) = "detach_disk" /\ Remove(c)
    <2>1. pc'[c] \in {"done", "readenv"}
      BY <1>5, EndsOrGoes DEF Remove, Govc, Ends
    <2>. QED
      BY <1>1, <1>5, <2>1 DEF DiskReady, DevicesDone, IsoDone, IsoLabels
  <1>6. CASE ReadEnv(c)
    <2>1. CASE Fail(c) \/ Panic(c)
      BY <2>1, EndsOrGoes DEF Ends, Panic
    <2>2. CASE ~(Fail(c) \/ Panic(c))
      <3>. DEFINE e == [envJson EXCEPT !.disks = IF Op(c) = "attach_disk"
                          THEN @ \cup {Arg(c)} ELSE @ \ {Arg(c)}]
      <3>1. /\ envJson \in Env /\ vm' = vm /\ pc[c] = "readenv"
            /\ GotoWith(c, "trunc", [mem[c] EXCEPT !.env = e])
        BY <1>6, <2>2 DEF ReadEnv
      <3>2. pc'[c] = "trunc" /\ mem'[c] = [mem[c] EXCEPT !.env = e]
        BY <3>1, EndsOrGoes
      <3>3. mem'[c].env = e
        BY <1>1, <3>2 DEF Memory
      <3>4. e.disks = IF Op(c) = "attach_disk" THEN envJson.disks \cup {Arg(c)}
                                               ELSE envJson.disks \ {Arg(c)}
        BY <3>1 DEF Env
      <3>5. Arg(c) \in mem'[c].env.disks <=> Op(c) = "attach_disk"
        BY <3>3, <3>4
      <3>. QED
        BY <1>1, <3>1, <3>2, <3>5 DEF DiskReady, DevicesDone, IsoDone, IsoLabels
    <2>. QED
      BY <2>1, <2>2
  <1>. QED
    BY <1>1, <1>2, <1>3, <1>4, <1>5, <1>6
    DEF DiskOps, LabelsOf, IsoLabels, Step, CreateStemcellCall, CreateVMCall,
      DeleteVMCall, DeleteStemcellCall, HasVMCall, CreateDiskCall, DeleteDiskCall,
      AttachDiskCall, DetachDiskCall, Info, Unsupported, NotImplemented

\* Any step leaves the cdrom of its call's VM as its label says.
LEMMA StepCdrom ==
  ASSUME TypeOK, CallInv, NEW c \in Cid, Step(c)
  PROVE  CdromDone(pc'[c], vm'[Obj(c)])
  <1>1. CASE IsoStep(c)
    BY <1>1, IsoStepCdrom
  <1>2. CASE ~IsoStep(c)
    <2>1. pc'[c] \notin {"eject", "upload", "connect"}
      <3>1. CASE StemcellStep(c)
        BY <3>1, EndsOrGoes DEF StemcellStep, ExtractOvf, ImportOvf, Ends
      <3>2. CASE CreateVMStep(c)
        <4>1. CASE CloudProps(c) \/ Copy(c) \/ Register(c)
          BY <4>1, EndsOrGoes DEF CloudProps, Copy, Register, Govc, Ask, Ends
        <4>2. CASE Hardware(c) \/ Resources(c) \/ Ephemeral(c)
          BY <4>2, EndsOrGoes DEF Hardware, Resources, Ephemeral, Govc, Ends
        <4>3. CASE Network(c)
          BY <4>3, EndsOrGoes DEF Network, Govc, Ends
        <4>4. CASE StartVM(c)
          BY <4>4, EndsOrGoes DEF StartVM
        <4>5. CASE Poll(c)
          BY <4>5, EndsOrGoes DEF Poll, Ask, Ends
        <4>6. CASE Answer(c)
          BY <4>6, EndsOrGoes DEF Answer, Govc, Ask, Ends
        <4>. QED
          BY <3>2, <4>1, <4>2, <4>3, <4>4, <4>5, <4>6 DEF CreateVMStep
      <3>3. CASE DiskStep(c)
        <4>1. CASE Attach(c) \/ Remove(c)
          BY <4>1, EndsOrGoes DEF Attach, Remove, Govc, Ends
        <4>2. CASE Find(c)
          BY <4>2, EndsOrGoes DEF Find, Ends
        <4>3. CASE ReadEnv(c)
          BY <4>3, EndsOrGoes DEF ReadEnv, Panic, Ends
        <4>4. CASE CreateDisk(c) \/ DiskPathExists(c) \/ DeleteDisk(c)
          BY <4>4, EndsOrGoes DEF CreateDisk, DiskPathExists, DeleteDisk, Ask, Ends
        <4>. QED
          BY <3>3, <4>1, <4>2, <4>3, <4>4 DEF DiskStep
      <3>4. CASE DestroyStep(c)
        BY <3>4, EndsOrGoes
        DEF DestroyStep, DestroyState, Stop, PowerOff, Destroy,
          DatastorePathExists, DeleteDir, Govc, Ask, Ends
      <3>5. CASE MiscStep(c)
        BY <3>5, EndsOrGoes
        DEF MiscStep, HasVM, ServeFound, Info, Unsupported, NotImplemented, Ask,
          Panic, Ends
      <3>. QED
        BY <1>2, <3>1, <3>2, <3>3, <3>4, <3>5, StepGroups
    <2>. QED
      BY <2>1 DEF CdromDone
  <1>. QED
    BY <1>1, <1>2

-----------------------------------------------------------------------------
(* What a step of any method does to the record of its object.             *)

\* Of the iso, the cdrom and the devices; who unmounts an iso; and what makes
\* a VM appear, or adds an adapter.
RecordMoves(c) ==
  LET r == vm[Obj(c)]
      s == vm'[Obj(c)]
  IN  /\ s.iso = r.iso \/ (pc[c] = "upload" /\ s.iso = mem[c].iso)
      /\ \/ s.cdIn = r.cdIn /\ s.cdOn = r.cdOn
         \/ ~s.reg
         \/ Op(c) \in DiskOps \cup {"create_vm", "create_stemcell"}
      /\ \A u \in Slots :
           \/ s.devs[u] = r.devs[u]
           \/ Op(c) \in VMDeletes /\ ~s.reg /\ s.devs[u] = NoDisk
           \/ pc[c] = "attach" /\ r.devs[u] = NoDisk
           \/ pc[c] = "remove" /\ u = mem[c].slot
      /\ Mounted(r) /\ s.reg /\ ~Mounted(s) =>
           Op(c) = "create_stemcell" \/ pc[c] \in {"disconnect", "eject"}
      /\ s.reg /\ (~r.reg \/ s.nics # r.nics) =>
           pc[c] \in {"import", "register", "network"}

LEMMA RecordSame ==
  ASSUME NEW c, vm'[Obj(c)] = vm[Obj(c)]
  PROVE  RecordMoves(c)
  BY DEF RecordMoves

LEMMA IsoRecord ==
  ASSUME TypeOK, CallInv, NEW c \in Cid, IsoStep(c),
         Op(c) \in DiskOps \cup {"create_vm"}
  PROVE  RecordMoves(c)
  <1>1. vm \in [Cid -> VM] /\ Obj(c) \in Cid /\ vm[Obj(c)] \in VM
    BY DEF TypeOK, HostTypeOK, Obj
  <1>2. CASE Trunc(c) \/ Write(c) \/ MkIso(c)
    BY <1>2, RecordSame DEF Trunc, Write, MkIso, Ask
  <1>3. CASE Disconnect(c)
    BY <1>1, <1>3, IsoFields DEF Disconnect, Govc, RecordMoves
  <1>4. CASE Eject(c)
    BY <1>1, <1>4, IsoFields DEF Eject, Govc, RecordMoves
  <1>5. CASE UploadIso(c)
    <2>1. /\ pc[c] = "upload" /\ vm'[Obj(c)].devs = vm[Obj(c)].devs
          /\ vm'[Obj(c)].cdIn = vm[Obj(c)].cdIn /\ vm'[Obj(c)].cdOn = vm[Obj(c)].cdOn
          /\ vm'[Obj(c)].reg = vm[Obj(c)].reg /\ vm'[Obj(c)].nics = vm[Obj(c)].nics
          /\ vm'[Obj(c)].iso \in {vm[Obj(c)].iso, mem[c].iso}
      BY <1>1, <1>5, IsoFields DEF UploadIso, Govc
    <2>. QED
      BY <2>1 DEF RecordMoves, Mounted
  <1>6. CASE Insert(c)
    BY <1>1, <1>6, IsoFields DEF Insert, Govc, RecordMoves, Mounted
  <1>7. CASE Connect(c)
    BY <1>1, <1>7, IsoFields DEF Connect, Govc, RecordMoves, Mounted
  <1>. QED
    BY <1>2, <1>3, <1>4, <1>5, <1>6, <1>7 DEF IsoStep

LEMMA CreateVMRecord ==
  ASSUME TypeOK, NEW c \in Cid, CreateVMStep(c), Op(c) = "create_vm", Obj(c) = c
  PROVE  RecordMoves(c)
  <1>1. vm \in [Cid -> VM] /\ vm[c] \in VM
    BY DEF TypeOK, HostTypeOK
  <1>2. SUFFICES /\ vm'[c].iso = vm[c].iso /\ vm'[c].devs = vm[c].devs
                 /\ vm'[c].cdIn = vm[c].cdIn /\ vm'[c].cdOn = vm[c].cdOn
                 /\ \/ vm'[c].reg = vm[c].reg /\ vm'[c].nics = vm[c].nics
                    \/ pc[c] \in {"register", "network"}
    BY DEF RecordMoves, Mounted
  <1>3. CASE CloudProps(c) \/ StartVM(c) \/ Poll(c)
    BY <1>3 DEF CloudProps, StartVM, Poll, Ask
  <1>4. CASE Copy(c)
    BY <1>1, <1>4 DEF Copy, Govc, CopyDatastoreStemcell, VM
  <1>5. CASE Register(c)
    BY <1>1, <1>5 DEF Register, Govc, RegisterDatastoreVm, VM
  <1>6. CASE Hardware(c)
    BY <1>1, <1>6 DEF Hardware, Govc, ConfigVMHardware, VM
  <1>7. CASE Resources(c)
    BY <1>1, <1>7 DEF Resources, Govc, SetVMResources, VM
  <1>8. CASE Network(c)
    <2>1. \A net, mac : LET r == AddNetwork(vm[c], net, mac) IN
                          /\ r.iso = vm[c].iso /\ r.devs = vm[c].devs
                          /\ r.cdIn = vm[c].cdIn /\ r.cdOn = vm[c].cdOn
      BY <1>1 DEF AddNetwork, VM
    <2>2. vm'[c] = vm[c] \/ \E net, mac : vm'[c] = AddNetwork(vm[c], net, mac)
      BY <1>1, <1>8 DEF Network, Govc
    <2>3. pc[c] = "network"
      BY <1>8 DEF Network
    <2>. QED
      BY <2>1, <2>2, <2>3
  <1>9. CASE Ephemeral(c)
    BY <1>1, <1>9 DEF Ephemeral, Govc, CreateEphemeralDisk, VM
  <1>10. CASE Answer(c)
    <2>1. LET r == AnswerCopyQuestion(vm[c]) IN
            /\ r.iso = vm[c].iso /\ r.devs = vm[c].devs
            /\ r.cdIn = vm[c].cdIn /\ r.cdOn = vm[c].cdOn
            /\ r.reg = vm[c].reg /\ r.nics = vm[c].nics
      BY <1>1 DEF AnswerCopyQuestion, VM
    <2>2. vm'[c] \in {vm[c], AnswerCopyQuestion(vm[c])}
      BY <1>1, <1>10 DEF Answer, Govc, Ask
    <2>. QED
      BY <2>1, <2>2
  <1>. QED
    BY <1>3, <1>4, <1>5, <1>6, <1>7, <1>8, <1>9, <1>10 DEF CreateVMStep

LEMMA DestroyRecord ==
  ASSUME TypeOK, NEW c \in Cid, DestroyStep(c), Op(c) \in VMDeletes
  PROVE  RecordMoves(c)
  <1>1. vm \in [Cid -> VM] /\ Obj(c) \in Cid /\ vm[Obj(c)] \in VM
    BY DEF TypeOK, HostTypeOK, Obj
  <1>2. LET r == vm[Obj(c)]
            s == StopVM(r)
            d == DeleteDatastoreDir(r)
        IN  /\ s.iso = r.iso /\ s.devs = r.devs /\ s.cdIn = r.cdIn /\ s.cdOn = r.cdOn
            /\ d.iso = r.iso /\ d.devs = r.devs /\ d.cdIn = r.cdIn /\ d.cdOn = r.cdOn
            /\ s.reg = r.reg /\ s.nics = r.nics /\ d.reg = r.reg /\ d.nics = r.nics
    BY <1>1 DEF StopVM, DeleteDatastoreDir, VM
  <1>3. CASE DestroyState(c) \/ DatastorePathExists(c)
    BY <1>3, RecordSame DEF DestroyState, DatastorePathExists, Ask
  <1>4. CASE Stop(c)
    BY <1>1, <1>2, <1>4 DEF Stop, Govc, RecordMoves, Mounted
  <1>5. CASE PowerOff(c)
    <2>1. vm'[Obj(c)] \in {vm[Obj(c)], StopVM(vm[Obj(c)])}
      BY <1>1, <1>5 DEF PowerOff
    <2>. QED
      BY <1>2, <2>1 DEF RecordMoves, Mounted
  <1>6. CASE Destroy(c)
    <2>1. \A left \in BOOLEAN :
            LET s == DestroyVm(vm[Obj(c)], left) IN
              /\ ~s.reg /\ s.iso = vm[Obj(c)].iso
              /\ \A u \in Slots : s.devs[u] = NoDisk
      BY DEF DestroyVm, NoVM
    <2>2. \/ vm'[Obj(c)] = vm[Obj(c)]
          \/ \E left \in BOOLEAN : vm'[Obj(c)] = DestroyVm(vm[Obj(c)], left)
      BY <1>1, <1>6 DEF Destroy, Govc
    <2>. QED
      BY <2>1, <2>2 DEF RecordMoves, Mounted
  <1>7. CASE DeleteDir(c)
    <2>1. vm'[Obj(c)] \in {vm[Obj(c)], DeleteDatastoreDir(vm[Obj(c)])}
      BY <1>1, <1>7 DEF DeleteDir, Govc
    <2>. QED
      BY <1>2, <2>1 DEF RecordMoves, Mounted
  <1>. QED
    BY <1>3, <1>4, <1>5, <1>6, <1>7 DEF DestroyStep

LEMMA DeviceRecord ==
  ASSUME TypeOK, NEW c \in Cid, Attach(c) \/ Remove(c)
  PROVE  RecordMoves(c)
  <1>1. vm \in [Cid -> VM] /\ Obj(c) \in Cid /\ vm[Obj(c)] \in VM
    BY DEF TypeOK, HostTypeOK, Obj
  <1>2. CASE Attach(c)
    <2>1. \/ vm'[Obj(c)] = vm[Obj(c)]
          \/ \E s \in Slots : /\ vm[Obj(c)].devs[s] = NoDisk
                              /\ vm'[Obj(c)] = AttachDisk(vm[Obj(c)], Arg(c), s)
      BY <1>1, <1>2 DEF Attach, Govc
    <2>2. \A s \in Slots :
            LET r == AttachDisk(vm[Obj(c)], Arg(c), s) IN
              /\ r.iso = vm[Obj(c)].iso
              /\ r.cdIn = vm[Obj(c)].cdIn /\ r.cdOn = vm[Obj(c)].cdOn
              /\ r.reg = vm[Obj(c)].reg /\ r.nics = vm[Obj(c)].nics
              /\ \A u \in Slots \ {s} : r.devs[u] = vm[Obj(c)].devs[u]
      BY <1>1 DEF AttachDisk, VM
    <2>3. pc[c] = "attach"
      BY <1>2 DEF Attach
    <2>. QED
      BY <2>1, <2>2, <2>3 DEF RecordMoves, Mounted
  <1>3. CASE Remove(c)
    <2>1. vm'[Obj(c)] \in {vm[Obj(c)], DetachDisk(vm[Obj(c)], mem[c].slot)}
      BY <1>1, <1>3 DEF Remove, Govc
    <2>2. LET r == DetachDisk(vm[Obj(c)], mem[c].slot) IN
              /\ r.iso = vm[Obj(c)].iso
              /\ r.cdIn = vm[Obj(c)].cdIn /\ r.cdOn = vm[Obj(c)].cdOn
              /\ r.reg = vm[Obj(c)].reg /\ r.nics = vm[Obj(c)].nics
              /\ \A u \in Slots \ {mem[c].slot} : r.devs[u] = vm[Obj(c)].devs[u]
      BY <1>1 DEF DetachDisk, VM
    <2>3. pc[c] = "remove"
      BY <1>3 DEF Remove
    <2>. QED
      BY <2>1, <2>2, <2>3 DEF RecordMoves, Mounted
  <1>. QED
    BY <1>2, <1>3

LEMMA StepRecord ==
  ASSUME TypeOK, CallInv, StartInv, BareInv, NEW c \in Cid, Step(c)
  PROVE  RecordMoves(c)
  <1>1. vm \in [Cid -> VM] /\ (Op(c) \in Creates => Obj(c) = c)
    BY DEF TypeOK, HostTypeOK, CallInv
  <1>2. CASE CreateStemcellCall(c)
    <2>1. Op(c) = "create_stemcell" /\ Obj(c) = c
      BY <1>1, <1>2 DEF CreateStemcellCall, Creates
    <2>2. /\ vm[c].iso = NoFile /\ \A u \in Slots : vm[c].devs[u] = NoDisk
          /\ Stemcell.iso = NoFile /\ \A u \in Slots : Stemcell.devs[u] = NoDisk
      BY <2>1 DEF BareInv, Stemcell, NoVM
    <2>3. vm'[c] = vm[c] \/ (vm'[c] = Stemcell /\ pc[c] = "import")
      BY <1>1, <1>2 DEF CreateStemcellCall, ExtractOvf, ImportOvf
    <2>. QED
      BY <2>1, <2>2, <2>3 DEF RecordMoves
  <1>3. CASE CreateVMCall(c)
    BY <1>1, <1>3, CreateVMRecord, IsoRecord DEF CreateVMCall, Creates
  <1>4. CASE DeleteVMCall(c) \/ DeleteStemcellCall(c)
    BY <1>4, DestroyRecord DEF DeleteVMCall, DeleteStemcellCall, VMDeletes
  <1>5. CASE AttachDiskCall(c) \/ DetachDiskCall(c)
    <2>1. CASE IsoStep(c)
      BY <1>5, <2>1, IsoRecord DEF AttachDiskCall, DetachDiskCall, DiskOps
    <2>2. CASE Attach(c) \/ Remove(c)
      BY <2>2, DeviceRecord
    <2>3. CASE Find(c) \/ ReadEnv(c)
      BY <2>3, RecordSame DEF Find, ReadEnv
    <2>. QED
      BY <1>5, <2>1, <2>2, <2>3 DEF AttachDiskCall, DetachDiskCall
  <1>6. CASE HasVMCall(c) \/ CreateDiskCall(c) \/ DeleteDiskCall(c)
    BY <1>6, RecordSame
    DEF HasVMCall, HasVM, ServeFound, CreateDiskCall, CreateDisk, DeleteDiskCall,
      DiskPathExists, DeleteDisk, Ask
  <1>7. CASE Info(c) \/ Unsupported(c) \/ NotImplemented(c)
    BY <1>7, RecordSame DEF Info, Unsupported, NotImplemented
  <1>. QED
    BY <1>2, <1>3, <1>4, <1>5, <1>6, <1>7 DEF Step

\* The host and the goroutine change the power alone.
LEMMA PowerRecord ==
  ASSUME TypeOK, NEW c \in Cid, PowerOn(c) \/ HostStep(c) \/ PowerOnFails(c)
  PROVE  \A n \in Cid : /\ vm'[n].reg = vm[n].reg /\ vm'[n].iso = vm[n].iso
                        /\ vm'[n].cdIn = vm[n].cdIn /\ vm'[n].cdOn = vm[n].cdOn
                        /\ vm'[n].devs = vm[n].devs /\ vm'[n].nics = vm[n].nics
  <1>1. vm \in [Cid -> VM] /\ vm[c] \in VM
    BY DEF TypeOK, HostTypeOK
  <1>2. CASE PowerOn(c)
    BY <1>1, <1>2 DEF PowerOn, PowerOnVm, VM
  <1>3. CASE HostStep(c)
    BY <1>1, <1>3 DEF HostStep, HostAsks, HostBoots, VM
  <1>4. CASE PowerOnFails(c)
    BY <1>1, <1>4 DEF PowerOnFails, HostFails, VM
  <1>. QED
    BY <1>2, <1>3, <1>4

-----------------------------------------------------------------------------
(* The invariant is kept by the steps of processes.                        *)

LEMMA StepKeepsDistinct ==
  ASSUME TypeOK, CallInv, KindInv, StartInv, DistinctInv, NEW c \in Cid, Step(c)
  PROVE  DistinctInv'
  <1>1. /\ call' = call /\ Running(c)
        /\ \A d \in Cid \ {c} : pc'[d] = pc[d]
    BY StepMoves DEF Moves, TypeOK
  <1>2. \A d \in Cid : Obj(d)' = Obj(d) /\ (Running(d)' => Running(d))
    BY <1>1 DEF Obj, Running
  <1>. QED
    BY <1>2 DEF DistinctInv

LEMMA StepKeepsBare ==
  ASSUME TypeOK, CallInv, StartInv, BareInv, NEW c \in Cid, Step(c)
  PROVE  BareInv'
  <1>1. /\ call' = call /\ \A n \in Cid : Op(n)' = Op(n)
        /\ pc[c] \in LabelsOf(Op(c)) /\ Op(c) \in AllOps
    BY StepMoves DEF Op, TypeOK
  <1>. SUFFICES ASSUME NEW n \in Cid, Op(n) # "create_vm"
                PROVE  vm'[n].iso = NoFile /\ \A s \in Slots : vm'[n].devs[s] = NoDisk
    BY <1>1 DEF BareInv
  <1>2. vm[n].iso = NoFile /\ \A s \in Slots : vm[n].devs[s] = NoDisk
    BY DEF BareInv
  <1>3. CASE n # Obj(c)
    BY <1>2, <1>3, StepLocal
  <1>4. CASE n = Obj(c)
    <2>1. Op(c) \notin DiskOps \cup {"create_vm"}
      BY <1>4 DEF CallInv, Known, DiskOps, Creates
    <2>2. pc[c] \notin {"attach", "remove", "upload"}
      BY <1>1, <2>1 DEF LabelsOf, AllOps, DiskOps, CreateVmLabels, IsoLabels,
        DestroyLabels
    <2>. QED
      BY <1>2, <1>4, <2>2, StepRecord DEF RecordMoves
  <1>. QED
    BY <1>3, <1>4

LEMMA StepKeepsDisk ==
  ASSUME TypeOK, CallInv, KindInv, DistinctInv, DiskInv, NEW c \in Cid, Step(c)
  PROVE  DiskInv'
  <1>. SUFFICES ASSUME Exclusive, NEW d \in Cid
                PROVE  /\ Working(d)' => DiskReady(call[d], pc'[d], vm'[Obj(d)], mem'[d])
                       /\ CdromDone(pc'[d], vm'[Obj(d)])
    BY StepMoves DEF DiskInv, Obj
  <1>1. /\ call' = call /\ Running(c) /\ Op(d)' = Op(d)
        /\ d # c => pc'[d] = pc[d] /\ mem'[d] = mem[d]
    BY StepMoves, StepLocal DEF Moves, TypeOK, Op
  <1>2. CASE d = c
    <2>1. CdromDone(pc'[c], vm'[Obj(c)])
      BY StepCdrom
    <2>2. ASSUME Working(c)'
          PROVE  DiskReady(call[c], pc'[c], vm'[Obj(c)], mem'[c])
      <3>1. Working(c) /\ Op(c) \in DiskOps /\ pc'[c] # "done"
        BY <1>1, <1>2, <2>2 DEF Working, Running
      <3>. QED
        BY <3>1, DiskStepReady DEF DiskInv
    <2>. QED
      BY <1>2, <2>1, <2>2
  <1>3. CASE d # c /\ Running(d)
    <2>1. Obj(d) # Obj(c) /\ Obj(d) \in Cid
      BY <1>1, <1>3 DEF DistinctInv, TypeOK, Obj
    <2>2. vm'[Obj(d)] = vm[Obj(d)]
      BY <2>1, StepLocal
    <2>. QED
      BY <1>1, <1>3, <2>2 DEF DiskInv, Working
  <1>4. CASE d # c /\ ~Running(d)
    <2>1. pc'[d] \in {"idle", "done"}
      BY <1>1, <1>4 DEF Running
    <2>2. CdromDone(pc'[d], vm'[Obj(d)])
      BY <2>1 DEF CdromDone
    <2>3. ~Working(d)'
      BY <1>1, <1>4, <2>1 DEF Working, KindInv, DiskOps
    <2>. QED
      BY <2>2, <2>3
  <1>. QED
    BY <1>2, <1>3, <1>4

\* A disk call succeeds when its last command has connected the cdrom.
LEMMA DiskSucceeds ==
  ASSUME TypeOK, CallInv, NEW c \in Cid, Step(c), Op(c) \in DiskOps, resp'[c] = "ok"
  PROVE  /\ pc[c] = "connect" /\ vm'[Obj(c)] = ConnectCdrom(vm[Obj(c)])
         /\ pc'[c] = "done" /\ mem[c] \in Memory
  <1>1. /\ vm \in [Cid -> VM] /\ Obj(c) \in Cid /\ resp[c] = "none"
        /\ resp \in [Cid -> Responses] /\ pc \in [Cid -> Labels]
        /\ pc[c] \in LabelsOf(Op(c)) /\ mem[c] \in Memory
    BY StepMoves, BuildingTypes DEF TypeOK, HostTypeOK, Obj, CallInv, Running
  <1>2. /\ \A l, m : GotoWith(c, l, m) => resp'[c] # "ok"
        /\ \A l : Goto(c, l) => resp'[c] # "ok"
        /\ \A r : Respond(c, r) => resp'[c] = r /\ pc'[c] = "done"
        /\ ~Fail(c) /\ ~MayFail(c) /\ ~Panic(c)
    BY <1>1 DEF GotoWith, Goto, Respond, Fail, MayFail, Panic, DiskOps
  <1>3. AttachDiskCall(c) \/ DetachDiskCall(c)
    BY <1>1 DEF DiskOps, LabelsOf, IsoLabels, Step, CreateStemcellCall, CreateVMCall,
      DeleteVMCall, DeleteStemcellCall, HasVMCall, CreateDiskCall, DeleteDiskCall,
      Info, Unsupported, NotImplemented
  <1>4. ~Attach(c) /\ ~Remove(c)
    BY <1>2 DEF Attach, Remove, Govc
  <1>5. ~Find(c)
    BY <1>2 DEF Find
  <1>6. ~ReadEnv(c)
    BY <1>2 DEF ReadEnv
  <1>7. ~Trunc(c) /\ ~Write(c)
    BY <1>2 DEF Trunc, Write
  <1>8. ~MkIso(c)
    BY <1>2 DEF MkIso, Ask
  <1>9. ~Disconnect(c) /\ ~Eject(c) /\ ~UploadIso(c) /\ ~Insert(c)
    BY <1>2 DEF Disconnect, Eject, UploadIso, Insert, Govc
  <1>10. Connect(c)
    BY <1>3, <1>4, <1>5, <1>6, <1>7, <1>8, <1>9
    DEF AttachDiskCall, DetachDiskCall, IsoStep
  <1>. QED
    BY <1>1, <1>2, <1>10 DEF Connect, Govc, DiskOps

\* And a create_vm, when the question has been answered, its VM complete.
LEMMA CreateSucceeds ==
  ASSUME TypeOK, CallInv, StartInv, NEW c \in Cid, Step(c), Op(c) = "create_vm",
         resp'[c] = "ok"
  PROVE  vm'[c].cdIn /\ vm'[c].cdOn
  <1>1. /\ vm \in [Cid -> VM] /\ vm[c] \in VM /\ Obj(c) = c /\ resp[c] = "none"
        /\ resp \in [Cid -> Responses] /\ pc \in [Cid -> Labels]
        /\ pc[c] \in LabelsOf(Op(c)) /\ pc[c] # "done"
    BY StepMoves, BuildingTypes
    DEF TypeOK, HostTypeOK, CallInv, Running, Creates
  <1>2. /\ \A l, m : GotoWith(c, l, m) => resp'[c] # "ok"
        /\ \A l : Goto(c, l) => resp'[c] # "ok"
        /\ ~Fail(c) /\ ~MayFail(c)
    BY <1>1 DEF GotoWith, Goto, Respond, Fail, MayFail
  <1>3. CreateVMStep(c) \/ IsoStep(c)
    BY <1>1 DEF Step, CreateStemcellCall, DeleteStemcellCall, CreateVMCall,
      DeleteVMCall, HasVMCall, CreateDiskCall, DeleteDiskCall, AttachDiskCall,
      DetachDiskCall, Info, Unsupported, NotImplemented, LabelsOf,
      CreateVmLabels, IsoLabels
  <1>4. ~EarlyStep(c)
    BY <1>1, EarlyIsUnseen, StepMoves DEF Fails, Moves
  <1>5. ~StartVM(c)
    BY <1>2 DEF StartVM
  <1>6. ~Poll(c)
    BY <1>2 DEF Poll, Ask
  <1>7. Answer(c)
    BY <1>3, <1>4, <1>5, <1>6 DEF CreateVMStep, EarlyStep
  <1>8. vm[c].cdIn /\ vm[c].cdOn
    <2>1. Ready(c, pc[c], vm[c], mem[c]) /\ pc[c] = "answer"
      BY <1>1, <1>7 DEF Answer, StartInv, BuildInv, Building
    <2>. QED
      BY <2>1 DEF Ready, HardwareDone
  <1>9. LET r == AnswerCopyQuestion(vm[c]) IN r.cdIn = vm[c].cdIn /\ r.cdOn = vm[c].cdOn
    BY <1>1 DEF AnswerCopyQuestion, VM
  <1>10. vm'[c] \in {vm[c], AnswerCopyQuestion(vm[c])}
    BY <1>1, <1>7 DEF Answer, Govc, Ask
  <1>. QED
    BY <1>8, <1>9, <1>10

\* Only the calls in DiskOps take a cdrom out or disconnect it, and they have
\* not succeeded before it is in and connected again.
LEMMA StepKeepsCdrom ==
  ASSUME ContractInv, StartInv, BareInv, CdromInv, NEW c \in Cid, Step(c)
  PROVE  CdromInv'
  <1>. USE DEF ContractInv, DeleteInv
  <1>1. /\ call' = call /\ Running(c) /\ resp[c] = "none"
        /\ \A d \in Cid : Op(d)' = Op(d) /\ Obj(d)' = Obj(d)
        /\ \A d \in Cid \ {c} : pc'[d] = pc[d] /\ resp'[d] = resp[d]
    BY StepMoves DEF Moves, TypeOK, Op, Obj, CallInv, Running
  <1>. SUFFICES ASSUME NEW v \in Cid, Op(v) = "create_vm", resp'[v] = "ok",
                       vm'[v].reg
                PROVE  /\ ~vm'[v].cdIn => \E d \in Cid : Witness(d, v)' /\ pc'[d] # "connect"
                       /\ ~vm'[v].cdOn => \E d \in Cid : Witness(d, v)'
    BY <1>1 DEF CdromInv, Known
  <1>2. CASE v = c
    BY <1>2, CreateSucceeds
  <1>3. CASE v # c
    <2>1. v \in Known("create_vm")
      BY <1>1, <1>3 DEF Known
    <2>2. vm[v].reg
      <3>1. CASE v # Obj(c)
        BY <3>1, StepLocal
      <3>2. CASE v = Obj(c)
        <4>1. Op(c) \notin VMKinds
          BY <1>3, <3>2 DEF CallInv, Creates, VMKinds
        <4>. QED
          BY <3>2, <4>1, StepHost DEF HostMoves, SameVM, Shrinks
      <3>. QED
        BY <3>1, <3>2
    <2>3. /\ ~vm[v].cdIn => \E d \in Cid : Witness(d, v) /\ pc[d] # "connect"
          /\ ~vm[v].cdOn => \E d \in Cid : Witness(d, v)
      BY <2>1, <2>2 DEF CdromInv
    <2>4. \A d \in Cid \ {c} : Witness(d, v)' <=> Witness(d, v)
      BY <1>1 DEF Witness
    <2>5. CASE v # Obj(c)
      <3>1. vm'[v] = vm[v] /\ ~Witness(c, v)
        BY <2>5, StepLocal DEF Witness
      <3>. QED
        BY <1>1, <2>3, <2>4, <3>1
    <2>6. CASE v = Obj(c) /\ Op(c) \notin DiskOps
      <3>1. Op(c) \notin {"create_vm", "create_stemcell"}
        BY <1>3, <2>6 DEF CallInv, Creates
      <3>2. vm'[v].cdIn = vm[v].cdIn /\ vm'[v].cdOn = vm[v].cdOn
        BY <2>6, <3>1, StepRecord DEF RecordMoves
      <3>3. ~Witness(c, v)
        BY <2>6 DEF Witness
      <3>. QED
        BY <1>1, <2>3, <2>4, <3>2, <3>3
    <2>7. CASE v = Obj(c) /\ Op(c) \in DiskOps /\ resp'[c] # "ok"
      <3>1. Witness(c, v)'
        BY <1>1, <2>7 DEF Witness
      <3>2. pc'[c] = "connect" => vm'[v].cdIn
        BY <2>7, StepCdrom DEF CdromDone
      <3>. QED
        BY <3>1, <3>2
    <2>8. CASE v = Obj(c) /\ Op(c) \in DiskOps /\ resp'[c] = "ok"
      <3>1. vm[v] \in VM
        BY DEF TypeOK, HostTypeOK
      <3>2. pc[c] = "connect" /\ vm'[v].cdOn /\ vm'[v].cdIn = vm[v].cdIn
        BY <2>8, <3>1, DiskSucceeds, IsoFields
      <3>3. ASSUME ~vm'[v].cdIn
            PROVE  \E d \in Cid : Witness(d, v)' /\ pc'[d] # "connect"
        <4>1. PICK d \in Cid : Witness(d, v) /\ pc[d] # "connect"
          BY <2>3, <3>2, <3>3
        <4>2. d # c
          BY <3>2, <4>1
        <4>. QED
          BY <1>1, <2>4, <4>1, <4>2
      <3>. QED
        BY <3>2, <3>3
    <2>. QED
      BY <2>5, <2>6, <2>7, <2>8
  <1>. QED
    BY <1>2, <1>3

-----------------------------------------------------------------------------
(* The director, the host and the end of a process                         *)

\* A new call has not done anything yet, and nothing runs on its object.
LEMMA BeginKeepsDiskCall ==
  ASSUME TypeOK, CallInv, KindInv, DiskCallInv, NEW c \in Cid, Begin(c)
  PROVE  DiskCallInv'
  <1>1. /\ pc[c] = "idle" /\ UNCHANGED <<vm, resp, mem>>
        /\ pc'[c] = First(Op(c)') /\ pc'[c] \notin {"idle", "done"}
        /\ Op(c)' \in AllOps
    BY Begins DEF Begin
  <1>2. Op(c) = "unknown" /\ resp[c] = "none"
    BY <1>1 DEF KindInv, CallInv
  <1>3. /\ \A d \in Cid \ {c} : pc'[d] = pc[d] /\ call'[d] = call[d]
        /\ Exclusive => \A d \in Cid : Running(d) => Obj(d) # Obj(c)'
    <2>. DEFINE Calls(op, p) ==
            /\ Exclusive => NotBusy(op, p[1], p[2])
            /\ call' = [call EXCEPT ![c] = [op |-> op, obj |-> p[1], arg |-> p[2]]]
            /\ pc' = [pc EXCEPT ![c] = First(op)]
    <2>1. PICK op, p : Calls(op, p)
      BY DEF Begin
    <2>2. Obj(c)' = p[1]
      BY <2>1 DEF TypeOK, Obj
    <2>3. \A d \in Cid \ {c} : pc'[d] = pc[d] /\ call'[d] = call[d]
      BY <2>1 DEF TypeOK
    <2>4. Exclusive => \A d \in Cid : Running(d) => Obj(d) # p[1]
      BY <2>1 DEF NotBusy
    <2>. QED
      BY <2>2, <2>3, <2>4
  <1>4. \A d \in Cid \ {c} : /\ Op(d)' = Op(d) /\ Obj(d)' = Obj(d)
                             /\ Running(d)' = Running(d) /\ Working(d)' = Working(d)
    BY <1>3 DEF Op, Obj, Running, Working
  <1>5. DistinctInv'
    BY <1>3, <1>4 DEF DiskCallInv, DistinctInv
  <1>6. DiskInv'
    <2>. SUFFICES ASSUME Exclusive, NEW d \in Cid
                  PROVE  /\ Working(d)' => DiskReady(call'[d], pc'[d], vm'[Obj(d)'], mem'[d])
                         /\ CdromDone(pc'[d], vm'[Obj(d)'])
      BY DEF DiskInv, Obj
    <2>1. CASE d # c
      BY <1>1, <1>3, <1>4, <2>1 DEF DiskCallInv, DiskInv
    <2>2. CASE d = c
      <3>1. pc'[c] \notin IsoLabels \cup {"remove"}
        BY <1>1 DEF First, IsoLabels
      <3>2. Op(c)' = call'[c].op /\ (Op(c)' = "attach_disk" => pc'[c] = "attach")
        BY <1>1 DEF First, Op
      <3>. QED
        BY <2>2, <3>1, <3>2
        DEF DiskReady, DevicesDone, IsoDone, CdromDone, IsoLabels
    <2>. QED
      BY <2>1, <2>2
  <1>7. BareInv'
    BY <1>1, <1>2, <1>4 DEF DiskCallInv, BareInv
  <1>8. CdromInv'
    <2>. SUFFICES ASSUME NEW v \in Cid, Op(v)' = "create_vm", resp[v] = "ok", vm[v].reg
                  PROVE  /\ ~vm[v].cdIn => \E d \in Cid : Witness(d, v)' /\ pc'[d] # "connect"
                         /\ ~vm[v].cdOn => \E d \in Cid : Witness(d, v)'
      BY <1>1 DEF CdromInv, Known
    <2>1. v # c
      BY <1>2
    <2>2. v \in Known("create_vm")
      BY <1>4, <2>1 DEF Known
    <2>3. ~Witness(c, v)
      BY <1>2 DEF Witness, DiskOps
    <2>4. \A d \in Cid : Witness(d, v) => Witness(d, v)' /\ pc'[d] = pc[d]
      BY <1>1, <1>3, <1>4, <2>3 DEF Witness
    <2>. QED
      BY <2>2, <2>4 DEF DiskCallInv, CdromInv
  <1>. QED
    BY <1>5, <1>6, <1>7, <1>8 DEF DiskCallInv

\* What changes of the records the power alone, and of the memories nothing
\* that a disk call relies on, keeps the invariant.
LEMMA PowerKeepsDiskCall ==
  ASSUME DiskCallInv, TypeOK, UNCHANGED <<pc, call, resp>>,
         \A n \in Cid : /\ vm'[n].reg = vm[n].reg /\ vm'[n].iso = vm[n].iso
                        /\ vm'[n].cdIn = vm[n].cdIn /\ vm'[n].cdOn = vm[n].cdOn
                        /\ vm'[n].devs = vm[n].devs
                        /\ mem'[n].env = mem[n].env /\ mem'[n].iso = mem[n].iso
                        /\ mem'[n].slot = mem[n].slot
  PROVE  DiskCallInv'
  <1>1. \A d \in Cid : /\ Op(d)' = Op(d) /\ Obj(d)' = Obj(d) /\ Obj(d) \in Cid
                       /\ Running(d)' = Running(d) /\ Working(d)' = Working(d)
                       /\ \A v \in Cid : Witness(d, v)' = Witness(d, v)
    BY DEF Op, Obj, Running, Working, Witness, TypeOK
  <1>2. DistinctInv'
    BY <1>1 DEF DiskCallInv, DistinctInv
  <1>3. DiskInv'
    <2>. SUFFICES ASSUME Exclusive, NEW d \in Cid
                  PROVE  /\ Working(d)' => DiskReady(call[d], pc[d], vm'[Obj(d)], mem'[d])
                         /\ CdromDone(pc[d], vm'[Obj(d)])
      BY <1>1 DEF DiskInv
    <2>1. CdromDone(pc[d], vm'[Obj(d)])
      BY <1>1 DEF DiskCallInv, DiskInv, CdromDone
    <2>2. ASSUME Working(d)'
          PROVE  DiskReady(call[d], pc[d], vm'[Obj(d)], mem'[d])
      <3>1. DiskReady(call[d], pc[d], vm[Obj(d)], mem[d])
        BY <1>1, <2>2 DEF DiskCallInv, DiskInv
      <3>. QED
        BY <1>1, <3>1 DEF DiskReady, DevicesDone, IsoDone
    <2>. QED
      BY <2>1, <2>2
  <1>4. BareInv'
    BY <1>1 DEF DiskCallInv, BareInv
  <1>5. CdromInv'
    <2>. SUFFICES ASSUME NEW v \in Known("create_vm"), vm[v].reg
                  PROVE  /\ ~vm[v].cdIn => \E d \in Cid : Witness(d, v)' /\ pc[d] # "connect"
                         /\ ~vm[v].cdOn => \E d \in Cid : Witness(d, v)'
      BY <1>1 DEF CdromInv, Known
    <2>. QED
      BY <1>1 DEF DiskCallInv, CdromInv, Known
  <1>. QED
    BY <1>2, <1>3, <1>4, <1>5 DEF DiskCallInv

LEMMA HostKeepsDiskCall ==
  ASSUME TypeOK, DiskCallInv, NEW c \in Cid,
         PowerOn(c) \/ HostStep(c) \/ PowerOnFails(c)
  PROVE  DiskCallInv'
  <1>1. UNCHANGED <<pc, call, resp>>
    BY DEF PowerOn, HostStep, PowerOnFails, Local
  <1>2. \A n \in Cid : /\ mem'[n].env = mem[n].env /\ mem'[n].iso = mem[n].iso
                       /\ mem'[n].slot = mem[n].slot
    <2>1. CASE PowerOn(c)
      BY <2>1 DEF PowerOn, TypeOK, Memory
    <2>2. CASE HostStep(c) \/ PowerOnFails(c)
      BY <2>2 DEF HostStep, PowerOnFails
    <2>. QED
      BY <2>1, <2>2
  <1>. QED
    BY <1>1, <1>2, PowerRecord, PowerKeepsDiskCall

\* A disk call that dies has not succeeded.
LEMMA KillKeepsDiskCall ==
  ASSUME TypeOK, DiskCallInv, NEW c \in Cid, Kill(c)
  PROVE  DiskCallInv'
  <1>1. /\ UNCHANGED <<vm, call>> /\ pc'[c] = "done" /\ resp'[c] = "none"
        /\ \A d \in Cid \ {c} : /\ pc'[d] = pc[d] /\ mem'[d] = mem[d]
                                /\ resp'[d] = resp[d]
    BY DEF Kill, Local, Respond, TypeOK
  <1>2. \A d \in Cid : /\ Op(d)' = Op(d) /\ Obj(d)' = Obj(d)
                       /\ Running(d)' => Running(d)
                       /\ Working(d)' => Working(d) /\ d # c
                       /\ \A v : Witness(d, v) => Witness(d, v)'
    BY <1>1 DEF Op, Obj, Running, Working, Witness
  <1>3. DistinctInv'
    BY <1>2 DEF DiskCallInv, DistinctInv
  <1>4. DiskInv'
    BY <1>1, <1>2 DEF DiskCallInv, DiskInv, CdromDone
  <1>5. BareInv'
    BY <1>1, <1>2 DEF DiskCallInv, BareInv
  <1>6. CdromInv'
    <2>. SUFFICES ASSUME NEW v \in Cid, Op(v) = "create_vm", resp'[v] = "ok", vm[v].reg
                  PROVE  /\ ~vm[v].cdIn => \E d \in Cid : Witness(d, v)' /\ pc'[d] # "connect"
                         /\ ~vm[v].cdOn => \E d \in Cid : Witness(d, v)'
      BY <1>1, <1>2 DEF CdromInv, Known
    <2>1. v \in Known("create_vm")
      BY <1>1 DEF Known
    <2>2. \A d \in Cid : pc[d] # "connect" => pc'[d] # "connect"
      BY <1>1
    <2>. QED
      BY <1>2, <2>1, <2>2 DEF DiskCallInv, CdromInv
  <1>. QED
    BY <1>3, <1>4, <1>5, <1>6 DEF DiskCallInv

\* DiskCallInv is an invariant of the CPI.
THEOREM DiskCallInvariant == Spec => [](ContractInv /\ StartInv /\ DiskCallInv)
  <1>1. Init => DiskCallInv
    <2>. SUFFICES ASSUME Init PROVE DiskCallInv
      OBVIOUS
    <2>1. \A c \in Cid : /\ pc[c] \in {"idle", "done"}
                         /\ Op(c) \in {"create_stemcell", "unknown"}
                         /\ vm[c] \in {NoVM, Stemcell}
      BY DEF Init, Op
    <2>2. /\ NoVM.iso = NoFile /\ Stemcell.iso = NoFile
          /\ \A s \in Slots : NoVM.devs[s] = NoDisk /\ Stemcell.devs[s] = NoDisk
      BY DEF NoVM, Stemcell
    <2>. QED
      BY <2>1, <2>2 DEF DiskCallInv, DistinctInv, DiskInv, BareInv, CdromInv,
        Running, Working, CdromDone, DiskOps, Known
  <1>2. ContractInv /\ StartInv /\ DiskCallInv /\ [Next]_vars => DiskCallInv'
    <2>. SUFFICES ASSUME ContractInv, StartInv, DiskCallInv, [Next]_vars
                  PROVE  DiskCallInv'
      OBVIOUS
    <2>1. TypeOK /\ CallInv /\ KindInv
      BY DEF ContractInv, DeleteInv
    <2>2. ASSUME NEW c \in Cid, Begin(c) PROVE DiskCallInv'
      BY <2>1, <2>2, BeginKeepsDiskCall
    <2>3. ASSUME NEW c \in Cid, Step(c) PROVE DiskCallInv'
      BY <2>1, <2>3, StepKeepsDistinct, StepKeepsDisk, StepKeepsBare,
        StepKeepsCdrom DEF DiskCallInv
    <2>4. ASSUME NEW c \in Cid, PowerOn(c) \/ HostStep(c) \/ PowerOnFails(c)
          PROVE  DiskCallInv'
      BY <2>1, <2>4, HostKeepsDiskCall
    <2>5. ASSUME NEW c \in Cid, Kill(c) PROVE DiskCallInv'
      BY <2>1, <2>5, KillKeepsDiskCall
    <2>6. CASE Reboot \/ UNCHANGED vars
      <3>1. UNCHANGED <<vm, pc, call, resp, mem>>
        BY <2>6 DEF Reboot, vars
      <3>. QED
        BY <2>1, <3>1, PowerKeepsDiskCall
    <2>. QED
      BY <2>2, <2>3, <2>4, <2>5, <2>6 DEF Next, Quiet
  <1>. QED
    BY <1>1, <1>2, StartInvariant, PTL DEF Spec

-----------------------------------------------------------------------------
(* What it gives                                                           *)

\* A VM that the director knows keeps its environment mounted, however many
\* calls overlap on it and whatever fails or dies, but for disk calls on it
\* that run or did not succeed.
THEOREM EnvironmentMounted == Spec => []EnvStaysMounted
  <1>1. DiskCallInv => EnvStaysMounted
    BY DEF DiskCallInv, CdromInv, EnvStaysMounted, Mounted, Witness, DiskOps
  <1>. QED
    BY <1>1, DiskCallInvariant, PTL

\* With one call on a VM at a time, no step of any call changes the iso of a
\* VM that has it mounted.
THEOREM IsoStable == Spec => IsoUntouchedWhileMounted
  <1>1. ContractInv /\ StartInv /\ DiskCallInv /\ [Next]_vars => [IsoKept]_vars
    <2>. SUFFICES ASSUME ContractInv, StartInv, DiskCallInv, Next, Exclusive,
                         NEW n \in Cid, Mounted(vm[n])
                  PROVE  vm'[n].iso = vm[n].iso
      BY DEF IsoKept, vars
    <2>. USE DEF ContractInv, DeleteInv
    <2>1. ASSUME NEW c \in Cid, Step(c) PROVE vm'[n].iso = vm[n].iso
      <3>1. CASE n # Obj(c)
        BY <2>1, <3>1, StepLocal
      <3>2. CASE n = Obj(c)
        <4>1. RecordMoves(c)
          BY <2>1, StepRecord DEF DiskCallInv
        <4>2. vm[n].cdIn /\ CdromDone(pc[c], vm[n])
          BY <3>2 DEF DiskCallInv, DiskInv, Mounted
        <4>. QED
          BY <3>2, <4>1, <4>2 DEF RecordMoves, CdromDone
      <3>. QED
        BY <3>1, <3>2
    <2>2. ASSUME NEW c \in Cid, PowerOn(c) \/ HostStep(c) \/ PowerOnFails(c)
          PROVE  vm'[n].iso = vm[n].iso
      BY <2>2, PowerRecord
    <2>3. ASSUME NEW c \in Cid, Begin(c) \/ Kill(c) PROVE vm'[n].iso = vm[n].iso
      BY <2>3 DEF Begin, Kill
    <2>4. CASE Reboot \/ Quiet
      BY <2>4 DEF Reboot, Quiet, vars
    <2>. QED
      BY <2>1, <2>2, <2>3, <2>4 DEF Next
  <1>. QED
    BY <1>1, DiskCallInvariant, PTL DEF Spec, IsoUntouchedWhileMounted

\* With one call on a VM at a time, the device name that detach_disk read still
\* denotes its disk's device when it removes it, and nothing else removes one.
THEOREM DetachesItsDisk == Spec => DetachRemovesItsDisk
  <1>1. ContractInv /\ StartInv /\ DiskCallInv /\ [Next]_vars => [DeviceKept]_vars
    <2>. SUFFICES ASSUME ContractInv, StartInv, DiskCallInv, Next, Exclusive,
                         NEW n \in Cid, NEW s \in Slots,
                         vm[n].devs[s] # NoDisk, vm'[n].devs[s] # vm[n].devs[s],
                         vm'[n].reg
                  PROVE  \E c \in Cid : /\ pc[c] = "remove" /\ pc'[c] # "remove"
                                        /\ Obj(c) = n /\ Arg(c) = vm[n].devs[s]
      BY DEF DeviceKept, vars
    <2>. USE DEF ContractInv, DeleteInv
    <2>1. PICK c \in Cid : Step(c)
      <3>1. \A c \in Cid : ~(PowerOn(c) \/ HostStep(c) \/ PowerOnFails(c))
        BY PowerRecord
      <3>2. vm' # vm
        OBVIOUS
      <3>. QED
        BY <3>1, <3>2 DEF Next, Begin, Kill, Reboot, Quiet, vars
    <2>2. n = Obj(c)
      BY <2>1, StepLocal
    <2>3. pc[c] = "remove" /\ s = mem[c].slot
      BY <2>1, <2>2, StepRecord DEF DiskCallInv, RecordMoves
    <2>4. Op(c) = "detach_disk" /\ Remove(c)
      BY <2>1, <2>3 DEF Step, CreateStemcellCall, ExtractOvf, ImportOvf,
        CreateVMCall, DeleteVMCall, DeleteStemcellCall, DestroyStep, DestroyState,
        Stop, PowerOff, Destroy, DatastorePathExists, DeleteDir, HasVMCall, HasVM,
        ServeFound, CreateDiskCall, CreateDisk, DeleteDiskCall, DiskPathExists, DeleteDisk,
        AttachDiskCall, Attach, ReadEnv, DetachDiskCall, Find, IsoStep, Trunc,
        Write, MkIso, Disconnect, Eject, UploadIso, Insert, Connect, CreateVMStep,
        CloudProps, Copy, Register, Hardware, Resources, Network, Ephemeral,
        StartVM, Poll, Answer, Info, Unsupported, NotImplemented
    <2>5. pc'[c] # "remove"
      BY <2>4, EndsOrGoes DEF Remove, Govc, Ends
    <2>6. DiskReady(call[c], pc[c], vm[n], mem[c])
      BY <2>2, <2>3, <2>4 DEF DiskCallInv, DiskInv, Working, DiskOps
    <2>7. Arg(c) = vm[n].devs[s]
      BY <2>3, <2>6 DEF DiskReady, DevicesDone, Arg
    <2>. QED
      BY <2>2, <2>3, <2>5, <2>7
  <1>. QED
    BY <1>1, DiskCallInvariant, PTL DEF Spec, DetachRemovesItsDisk

\* With one call on a VM at a time, a disk call that succeeds leaves the VM
\* with a mounted environment that names the disk after attach_disk and does
\* not after detach_disk, whatever happened to /tmp/env.json, if only writing
\* the iso does not fail silently.
THEOREM AgentIsTold ==
  ASSUME "iso" \notin Faults
  PROVE  Spec => DiskCallsTellTheAgent
  <1>1. ContractInv /\ StartInv /\ DiskCallInv /\ [Next]_vars => [AgentTold]_vars
    <2>. SUFFICES ASSUME ContractInv, StartInv, DiskCallInv, [Next]_vars, Exclusive,
                         NEW c \in Cid, pc[c] = "connect", resp'[c] = "ok"
                  PROVE  /\ Mounted(vm'[Obj(c)])
                         /\ vm'[Obj(c)].iso \in Env
                         /\ (Op(c) = "attach_disk") <=> (Arg(c) \in vm'[Obj(c)].iso.disks)
                         /\ Op(c) = "attach_disk" =>
                              \E s \in Slots : vm'[Obj(c)].devs[s] = Arg(c)
      BY DEF AgentTold
    <2>. USE DEF ContractInv, DeleteInv
    <2>1. resp[c] = "none" /\ resp'[c] # resp[c]
      BY DEF CallInv
    <2>2. Step(c)
      <3>1. \A d \in Cid : Step(d) => d = c
        BY <2>1, StepMoves DEF Moves, TypeOK
      <3>2. \A d \in Cid : ~Kill(d)
        BY <2>1 DEF Kill, Respond, TypeOK
      <3>3. resp' # resp
        BY <2>1
      <3>. QED
        BY <3>1, <3>2, <3>3 DEF Next, Begin, PowerOn, HostStep, PowerOnFails,
          Reboot, Quiet, vars
    <2>3. Op(c) \in DiskOps
      <3>1. Op(c) \in DiskOps \cup {"create_vm"}
        BY StepMoves, <2>2 DEF LabelsOf, AllOps, TypeOK, Op, DiskOps,
          CreateVmLabels, IsoLabels, DestroyLabels
      <3>2. CASE Op(c) = "create_vm"
        <4>1. pc'[c] # "done" \/ Fails(c)
          <5>1. EarlyStep(c)
            BY <2>2, <3>2 DEF Step, CreateStemcellCall, DeleteStemcellCall,
              CreateVMCall, DeleteVMCall, HasVMCall, CreateDiskCall,
              DeleteDiskCall, AttachDiskCall, DetachDiskCall, Info, Unsupported,
              NotImplemented, CreateVMStep, StartVM, Poll, Answer, EarlyStep
          <5>. QED
            BY <3>2, <5>1, EarlyIsUnseen
        <4>. QED
          BY <2>1, <2>2, <4>1, StepMoves DEF Moves, Fails, TypeOK
      <3>. QED
        BY <3>1, <3>2
    <2>4. vm'[Obj(c)] = ConnectCdrom(vm[Obj(c)]) /\ mem[c] \in Memory
      BY <2>2, <2>3, DiskSucceeds
    <2>5. /\ DiskReady(call[c], "connect", vm[Obj(c)], mem[c])
          /\ vm[Obj(c)].cdIn
      BY <2>3 DEF DiskCallInv, DiskInv, Working, CdromDone
    <2>6. vm[Obj(c)] \in VM
      BY DEF TypeOK, HostTypeOK, Obj
    <2>7. /\ Mounted(vm'[Obj(c)]) /\ vm'[Obj(c)].iso = vm[Obj(c)].iso
          /\ vm'[Obj(c)].devs = vm[Obj(c)].devs
      BY <2>4, <2>5, <2>6, IsoFields DEF Mounted
    <2>8. /\ vm[Obj(c)].iso = mem[c].env
          /\ Arg(c) \in mem[c].env.disks <=> Op(c) = "attach_disk"
          /\ Op(c) = "attach_disk" => \E s \in Slots : vm[Obj(c)].devs[s] = Arg(c)
      BY <2>5 DEF DiskReady, DevicesDone, IsoDone, IsoLabels, Op, Arg, Made
    <2>9. mem[c].env \in Env
      BY <2>4 DEF Memory
    <2>. QED
      BY <2>7, <2>8, <2>9
  <1>. QED
    BY <1>1, DiskCallInvariant, PTL DEF Spec, DiskCallsTellTheAgent
\* With one call on a VM at a time, only a call that holds a whole new
\* environment, with its disk listed or not as it was asked, takes from a VM
\* the one it has, whatever became of /tmp/env.json; writing the iso must not
\* fail silently.
THEOREM GivenUpForNew ==
  ASSUME Exclusive, "iso" \notin Faults
  PROVE  Spec => EnvGivenUpForNew
  <1>1. ContractInv /\ StartInv /\ DiskCallInv /\ [Next]_vars => [EnvGivenUp]_vars
    <2>. SUFFICES ASSUME ContractInv, StartInv, DiskCallInv, Next,
                         NEW n \in Cid, Mounted(vm[n]), vm'[n].reg, ~Mounted(vm'[n])
                  PROVE  \E c \in Cid :
                           /\ pc[c] = "disconnect" /\ Obj(c) = n
                           /\ mem[c].iso \in Env
                           /\ (Op(c) = "attach_disk") <=> (Arg(c) \in mem[c].iso.disks)
      BY DEF EnvGivenUp, vars
    <2>. USE DEF ContractInv, DeleteInv
    <2>1. PICK c \in Cid : Step(c)
      <3>1. \A c \in Cid : ~(PowerOn(c) \/ HostStep(c) \/ PowerOnFails(c))
        BY PowerRecord DEF Mounted
      <3>2. vm' # vm
        OBVIOUS
      <3>. QED
        BY <3>1, <3>2 DEF Next, Begin, Kill, Reboot, Quiet, vars
    <2>2. n = Obj(c)
      BY <2>1, StepLocal
    <2>3. Op(c) # "create_stemcell"
      BY <2>2 DEF CallInv, Creates, StartInv, RestInv, Mounted
    <2>4. pc[c] \in {"disconnect", "eject"}
      BY <2>1, <2>2, <2>3, StepRecord DEF DiskCallInv, RecordMoves
    <2>5. pc[c] = "disconnect"
      BY <2>2, <2>4 DEF DiskCallInv, DiskInv, CdromDone, Mounted
    <2>6. pc[c] \in LabelsOf(Op(c)) /\ Op(c) \in AllOps
      BY <2>1, StepMoves DEF TypeOK, Op
    <2>7. Op(c) \in DiskOps \cup {"create_vm"}
      BY <2>5, <2>6 DEF LabelsOf, AllOps, DestroyLabels, DiskOps
    <2>8. mem[c].env \in Env
      BY BuildingTypes DEF Memory
    <2>9. mem[c].iso = mem[c].env /\ (Arg(c) \in mem[c].env.disks <=> Op(c) = "attach_disk")
      <3>1. CASE Op(c) \in DiskOps
        <4>1. DiskReady(call[c], pc[c], vm[n], mem[c])
          BY <2>2, <2>5, <3>1 DEF DiskCallInv, DiskInv, Working
        <4>. QED
          BY <2>5, <4>1 DEF DiskReady, IsoDone, IsoLabels, Made, Op, Arg
      <3>2. CASE Op(c) = "create_vm"
        <4>1. Ready(c, pc[c], vm[c], mem[c])
          BY <2>5, <3>2 DEF StartInv, BuildInv, Building
        <4>2. mem[c].iso = mem[c].env /\ mem[c].env.disks = {}
          BY <2>5, <4>1 DEF Ready, EnvironmentDone, Made
        <4>. QED
          BY <3>2, <4>2
      <3>. QED
        BY <2>7, <3>1, <3>2
    <2>. QED
      BY <2>2, <2>5, <2>8, <2>9
  <1>. QED
    BY <1>1, DiskCallInvariant, PTL DEF Spec, EnvGivenUpForNew
=============================================================================
