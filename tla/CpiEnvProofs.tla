----------------------------- MODULE CpiEnvProofs -----------------------------
(***************************************************************************)
(* What becomes of an environment on its way from a process's memory to    *)
(* /tmp/env.json, to an iso and back into the memory of a later process,   *)
(* for any number of calls and any faults but those a theorem excludes.    *)
(*                                                                         *)
(* The way is short (StepEnv): a file or an iso is made only of the memory *)
(* of the step's process, and a disk call's environment only of the file.  *)
(* So what holds of every environment a create_vm starts with, and of      *)
(* every one that a disk call makes of another, holds wherever one is.     *)
(***************************************************************************)
EXTENDS CpiDiskProofs

-----------------------------------------------------------------------------
(* The way of an environment                                               *)

\* The file changes only in ioutil.WriteFile.
FileMoves(c) ==
  \/ envJson' = envJson /\ pc[c] # "write" /\ pc'[c] # "write"
  \/ pc[c] = "trunc" /\ pc'[c] = "write" /\ envJson' = Empty
  \/ pc[c] = "write" /\ pc'[c] = "mkiso" /\ envJson' = mem[c].env
  \/ /\ pc[c] = "write" /\ pc'[c] = "mkiso"
     /\ envJson' = Torn \/ envJson' = envJson
     /\ envJson \in {NoFile, Empty} => "write" \in Faults

\* What ReadEnv makes of the environment e in the file.
Updated(c, e) == [e EXCEPT !.disks = IF Op(c) = "attach_disk" THEN @ \cup {Arg(c)}
                                                              ELSE @ \ {Arg(c)}]

\* A process has an environment for the host from its own create_vm or from
\* the file, and what it has it keeps.
MemoryMoves(c) ==
  /\ pc'[c] \in IsoLabels =>
       \/ pc[c] \in IsoLabels /\ mem'[c].env = mem[c].env
       \/ Op(c) = "create_vm" /\ mem'[c].env = mem[c].env
       \/ /\ pc[c] = "readenv" /\ pc'[c] = "trunc" /\ vm' = vm /\ Op(c) \in DiskOps
          /\ envJson' = envJson /\ envJson \in Env /\ mem'[c].env = Updated(c, envJson)
  /\ pc'[c] \in IsoLabels \ {"trunc"} => pc[c] \in IsoLabels
  /\ pc[c] = "trunc" => pc'[c] = "write" \/ "write" \in Faults
  /\ \/ mem'[c].iso \in {mem[c].iso, NoFile}
     \/ pc[c] = "mkiso" /\ Made(mem'[c].iso, mem[c].env)

\* A process that ends has nothing in memory.
LEMMA EndsEmpty ==
  ASSUME TypeOK, NEW c \in Cid
  PROVE  /\ \A r : Respond(c, r) => mem'[c].iso = NoFile
         /\ Fail(c) => mem'[c].iso = NoFile
         /\ MayFail(c) => mem'[c].iso = NoFile
  BY DEF TypeOK, Fail, MayFail, Respond, FreshMemory

\* A process that goes on with the memory it had.
LEMMA SameMemory ==
  ASSUME NEW c, pc[c] \notin IsoLabels \cup {"network"}, envJson' = envJson,
         \/ pc'[c] = "done" /\ mem'[c].iso = NoFile
         \/ pc'[c] \notin IsoLabels /\ mem'[c].iso = mem[c].iso
  PROVE  FileMoves(c) /\ MemoryMoves(c)
  BY DEF FileMoves, MemoryMoves, IsoLabels

LEMMA IsoStepEnv ==
  ASSUME TypeOK, NEW c \in Cid, IsoStep(c)
  PROVE  FileMoves(c) /\ MemoryMoves(c)
  <1>1. mem[c] \in Memory
    BY BuildingTypes
  <1>. USE DEF FileMoves, MemoryMoves, IsoLabels
  <1>2. CASE Trunc(c)
    BY <1>2, EndsOrGoes DEF Trunc
  <1>3. CASE Write(c)
    BY <1>3, EndsOrGoes DEF Write
  <1>4. CASE MkIso(c)
    <2>1. envJson' = envJson /\ pc[c] = "mkiso"
      BY <1>4 DEF MkIso, Local
    <2>2. CASE pc'[c] = "done" /\ mem'[c].iso = NoFile
      BY <2>1, <2>2
    <2>3. CASE ~(pc'[c] = "done" /\ mem'[c].iso = NoFile)
      <3>1. PICK i : /\ Made(i, mem[c].env)
                     /\ GotoWith(c, "disconnect", [mem[c] EXCEPT !.iso = i])
        BY <1>4, <2>3, EndsOrGoes, EndsEmpty DEF MkIso, Ask, Made, Ends
      <3>2. pc'[c] = "disconnect" /\ mem'[c] = [mem[c] EXCEPT !.iso = i]
        BY <3>1, EndsOrGoes
      <3>3. mem'[c].iso = i /\ mem'[c].env = mem[c].env
        BY <1>1, <3>2, IsoMemory
      <3>. QED
        BY <2>1, <3>1, <3>2, <3>3
    <2>. QED
      BY <2>2, <2>3
  <1>5. CASE Disconnect(c) \/ Eject(c) \/ UploadIso(c) \/ Insert(c)
    BY <1>5, EndsOrGoes, EndsEmpty
    DEF Disconnect, Eject, UploadIso, Insert, Govc, Local, Ends
  <1>6. CASE Connect(c)
    BY <1>6, EndsOrGoes, EndsEmpty DEF Connect, Govc, Ends
  <1>. QED
    BY <1>2, <1>3, <1>4, <1>5, <1>6 DEF IsoStep

LEMMA CreateVMEnv ==
  ASSUME TypeOK, NEW c \in Cid, CreateVMStep(c), Op(c) = "create_vm"
  PROVE  FileMoves(c) /\ MemoryMoves(c)
  <1>1. mem[c] \in Memory
    BY BuildingTypes
  <1>2. envJson' = envJson
    BY DEF CreateVMStep, CloudProps, Copy, Register, Hardware, Resources, Network,
      Ephemeral, StartVM, Poll, Answer, Local
  <1>3. CASE CloudProps(c) \/ Copy(c) \/ Register(c)
    BY <1>2, <1>3, EndsOrGoes, EndsEmpty, SameMemory
    DEF CloudProps, Copy, Register, Govc, Ask, Ends, IsoLabels
  <1>4. CASE Hardware(c) \/ Resources(c)
    BY <1>2, <1>4, EndsOrGoes, EndsEmpty, SameMemory
    DEF Hardware, Resources, Govc, Ends, IsoLabels
  <1>5. CASE Network(c)
    <2>1. pc[c] = "network"
      BY <1>5 DEF Network
    <2>2. CASE pc'[c] = "done" /\ mem'[c].iso = NoFile
      BY <1>2, <2>1, <2>2 DEF FileMoves, MemoryMoves, IsoLabels
    <2>3. CASE ~(pc'[c] = "done" /\ mem'[c].iso = NoFile)
      <3>1. PICK net, mac :
              GotoWith(c, "network", [mem[c] EXCEPT !.todo = @ \ {net},
                                        !.env.nics = @ \cup {<<net, mac>>}])
        BY <1>5, <2>3, EndsOrGoes, EndsEmpty DEF Network, Govc, Ends
      <3>2. /\ pc'[c] = "network"
            /\ mem'[c] = [mem[c] EXCEPT !.todo = @ \ {net},
                                        !.env.nics = @ \cup {<<net, mac>>}]
        BY <3>1, EndsOrGoes
      <3>3. mem'[c].iso = mem[c].iso
        BY <1>1, <3>2 DEF Memory
      <3>. QED
        BY <1>2, <2>1, <3>2, <3>3 DEF FileMoves, MemoryMoves, IsoLabels
    <2>. QED
      BY <2>2, <2>3
  <1>6. CASE Ephemeral(c)
    <2>1. pc[c] = "network" /\ mem'[c].iso \in {mem[c].iso, NoFile}
          /\ (pc'[c] = "done" \/ (pc'[c] = "trunc" /\ mem'[c] = mem[c]))
      BY <1>6, EndsOrGoes, EndsEmpty DEF Ephemeral, Govc, Ends
    <2>. QED
      BY <1>2, <2>1 DEF FileMoves, MemoryMoves, IsoLabels
  <1>7. CASE StartVM(c)
    <2>1. pc'[c] = "poll" /\ mem'[c] = [mem[c] EXCEPT !.pon = TRUE] /\ pc[c] = "start"
      BY <1>7, EndsOrGoes DEF StartVM
    <2>2. mem'[c].iso = mem[c].iso
      BY <1>1, <2>1 DEF Memory
    <2>. QED
      BY <1>2, <2>1, <2>2, SameMemory DEF IsoLabels
  <1>8. CASE Poll(c)
    BY <1>2, <1>8, EndsOrGoes, EndsEmpty, SameMemory DEF Poll, Ask, Ends, IsoLabels
  <1>9. CASE Answer(c)
    BY <1>2, <1>9, EndsOrGoes, EndsEmpty, SameMemory DEF Answer, Govc, Ask, Ends, IsoLabels
  <1>. QED
    BY <1>3, <1>4, <1>5, <1>6, <1>7, <1>8, <1>9 DEF CreateVMStep

LEMMA DiskEnv ==
  ASSUME TypeOK, NEW c \in Cid, DiskStep(c), pc[c] = "readenv" => Op(c) \in DiskOps
  PROVE  FileMoves(c) /\ MemoryMoves(c)
  <1>1. mem[c] \in Memory
    BY BuildingTypes
  <1>2. envJson' = envJson
    BY DEF DiskStep, Attach, Find, Remove, ReadEnv, CreateDisk, DiskPathExists,
      DeleteDisk, Local
  <1>3. CASE Attach(c)
    BY <1>2, <1>3, EndsOrGoes, EndsEmpty, SameMemory DEF Attach, Govc, Ends, IsoLabels
  <1>4. CASE Remove(c)
    BY <1>2, <1>4, EndsOrGoes, EndsEmpty, SameMemory DEF Remove, Govc, Ends, IsoLabels
  <1>5. CASE Find(c)
    <2>1. \A s : [mem[c] EXCEPT !.slot = s].iso = mem[c].iso
      BY <1>1 DEF Memory
    <2>2. pc[c] = "find" /\ (pc'[c] = "remove" \/ pc'[c] = "done")
      BY <1>5, EndsOrGoes DEF Find, Ends
    <2>3. CASE Fail(c)
      BY <1>2, <2>2, <2>3, EndsOrGoes, EndsEmpty, SameMemory DEF Ends, IsoLabels
    <2>4. CASE ~Fail(c)
      <3>1. PICK s : GotoWith(c, "remove", [mem[c] EXCEPT !.slot = s])
        BY <1>5, <2>4 DEF Find
      <3>a. pc'[c] = "remove" /\ mem'[c] = [mem[c] EXCEPT !.slot = s]
        BY <3>1, EndsOrGoes
      <3>2. pc'[c] = "remove" /\ mem'[c].iso = mem[c].iso
        BY <2>1, <3>a
      <3>. QED
        BY <1>2, <2>2, <3>2, SameMemory DEF IsoLabels
    <2>. QED
      BY <2>3, <2>4
  <1>6. CASE ReadEnv(c)
    <2>1. pc[c] = "readenv" /\ vm' = vm
      BY <1>6 DEF ReadEnv
    <2>2. CASE Fail(c) \/ Panic(c)
      BY <1>2, <2>1, <2>2, EndsOrGoes, EndsEmpty, SameMemory DEF Panic, Ends, IsoLabels
    <2>3. CASE ~(Fail(c) \/ Panic(c))
      <3>1. envJson \in Env /\ GotoWith(c, "trunc", [mem[c] EXCEPT !.env = Updated(c, envJson)])
        BY <1>6, <2>3 DEF ReadEnv, Updated
      <3>2. /\ pc'[c] = "trunc"
            /\ mem'[c] = [mem[c] EXCEPT !.env = Updated(c, envJson)]
        BY <3>1, EndsOrGoes
      <3>3. mem'[c].iso = mem[c].iso /\ mem'[c].env = Updated(c, envJson)
        BY <1>1, <3>2 DEF Memory
      <3>. QED
        BY <1>2, <2>1, <3>1, <3>2, <3>3 DEF FileMoves, MemoryMoves, IsoLabels
    <2>. QED
      BY <2>2, <2>3
  <1>7. CASE CreateDisk(c) \/ DiskPathExists(c) \/ DeleteDisk(c)
    BY <1>2, <1>7, EndsOrGoes, EndsEmpty, SameMemory
    DEF CreateDisk, DiskPathExists, DeleteDisk, Ask, Ends, IsoLabels
  <1>. QED
    BY <1>3, <1>4, <1>5, <1>6, <1>7 DEF DiskStep

\* Where the environments that a step leaves behind come from.
LEMMA StepEnv ==
  ASSUME TypeOK, CallInv, NEW c \in Cid, Step(c)
  PROVE  FileMoves(c) /\ MemoryMoves(c)
  <1>1. pc[c] \in LabelsOf(Op(c)) /\ Op(c) \in AllOps
    BY StepMoves DEF TypeOK, Op
  <1>2. CASE CreateVMCall(c)
    BY <1>2, CreateVMEnv, IsoStepEnv DEF CreateVMCall
  <1>3. CASE AttachDiskCall(c) \/ DetachDiskCall(c)
    BY <1>3, DiskEnv, IsoStepEnv DEF AttachDiskCall, DetachDiskCall, DiskStep, DiskOps
  <1>4. CASE CreateDiskCall(c) \/ DeleteDiskCall(c)
    <2>1. DiskStep(c) /\ pc[c] # "readenv"
      BY <1>4 DEF CreateDiskCall, DeleteDiskCall, DiskStep, CreateDisk,
        DiskPathExists, DeleteDisk
    <2>. QED
      BY <2>1, DiskEnv
  <1>5. CASE StemcellStep(c)
    BY <1>5, EndsOrGoes, EndsEmpty, SameMemory
    DEF StemcellStep, ExtractOvf, ImportOvf, Ends, IsoLabels
  <1>6. CASE DestroyStep(c)
    <2>1. CASE DestroyState(c) \/ Stop(c) \/ PowerOff(c)
      BY <2>1, EndsOrGoes, EndsEmpty, SameMemory
      DEF DestroyState, Stop, PowerOff, Govc, Ask, Local, Ends, IsoLabels
    <2>2. CASE Destroy(c) \/ DatastorePathExists(c) \/ DeleteDir(c)
      BY <2>2, EndsOrGoes, EndsEmpty, SameMemory
      DEF Destroy, DatastorePathExists, DeleteDir, Govc, Ask, Local, Ends, IsoLabels
    <2>. QED
      BY <1>6, <2>1, <2>2 DEF DestroyStep
  <1>7. CASE MiscStep(c)
    BY <1>7, EndsOrGoes, EndsEmpty, SameMemory
    DEF MiscStep, HasVM, ServeFound, Info, Unsupported, NotImplemented, Ask, Panic,
      Local, Ends, IsoLabels
  <1>. QED
    BY <1>2, <1>3, <1>4, <1>5, <1>6, <1>7
    DEF Step, CreateStemcellCall, StemcellStep, DeleteVMCall, DeleteStemcellCall,
      HasVMCall, MiscStep

-----------------------------------------------------------------------------
(* The steps that have no part in it                                       *)

\* What the invariants below are about.
LEMMA StepPlace ==
  ASSUME TypeOK, CallInv, NEW c \in Cid, Step(c)
  PROVE  /\ call' = call /\ Running(c) /\ pc[c] \in LabelsOf(Op(c))
         /\ Op(c) \in AllOps /\ Obj(c) \in Cid /\ resp[c] = "none"
         /\ \A d \in Cid : Op(d)' = Op(d) /\ Obj(d)' = Obj(d) /\ Arg(d)' = Arg(d)
         /\ \A d \in Cid \ {c} : /\ pc'[d] = pc[d] /\ resp'[d] = resp[d]
                                 /\ mem'[d] = mem[d]
         /\ \A n \in Cid \ {Obj(c)} : vm'[n] = vm[n]
         /\ pc[c] \in IsoLabels => Op(c) \in DiskOps \cup {"create_vm"}
  <1>1. /\ call' = call /\ Running(c) /\ pc[c] \in LabelsOf(Op(c))
        /\ Op(c) \in AllOps /\ Obj(c) \in Cid
        /\ \A d \in Cid \ {c} : pc'[d] = pc[d] /\ resp'[d] = resp[d]
    BY StepMoves DEF Moves, TypeOK, Op, Obj
  <1>2. resp[c] = "none"
    BY <1>1 DEF CallInv, Running
  <1>3. pc[c] \in IsoLabels => Op(c) \in DiskOps \cup {"create_vm"}
    BY <1>1 DEF LabelsOf, AllOps, IsoLabels, DestroyLabels, DiskOps
  <1>. QED
    BY <1>1, <1>2, <1>3, StepLocal DEF Op, Obj, Arg

\* A process that dies.
LEMMA KillPlace ==
  ASSUME TypeOK, CallInv, NEW c \in Cid, Kill(c)
  PROVE  /\ UNCHANGED <<vm, call, envJson>> /\ Running(c) /\ resp[c] = "none"
         /\ pc'[c] = "done" /\ resp'[c] = "none" /\ mem'[c].iso = NoFile
         /\ \A d \in Cid \ {c} : /\ pc'[d] = pc[d] /\ resp'[d] = resp[d]
                                 /\ mem'[d] = mem[d]
         /\ \A d \in Cid : Op(d)' = Op(d) /\ Obj(d)' = Obj(d) /\ Arg(d)' = Arg(d)
  <1>1. /\ UNCHANGED <<vm, call, envJson>> /\ Running(c)
        /\ pc'[c] = "done" /\ resp'[c] = "none" /\ mem'[c] = FreshMemory(c)
        /\ \A d \in Cid \ {c} : /\ pc'[d] = pc[d] /\ resp'[d] = resp[d]
                                /\ mem'[d] = mem[d]
    BY DEF Kill, Local, Respond, TypeOK
  <1>2. resp[c] = "none"
    BY <1>1 DEF CallInv, Running
  <1>. QED
    BY <1>1, <1>2 DEF FreshMemory, Op, Obj, Arg

\* A call that begins.
LEMMA BeginPlace ==
  ASSUME TypeOK, CallInv, KindInv, NEW c \in Cid, Begin(c)
  PROVE  /\ UNCHANGED <<vm, resp, mem, envJson>>
         /\ Op(c) = "unknown" /\ resp[c] = "none" /\ pc[c] = "idle"
         /\ pc'[c] \notin IsoLabels \cup {"idle", "done"}
         /\ \A d \in Cid \ {c} : /\ Op(d)' = Op(d) /\ Obj(d)' = Obj(d)
                                 /\ Arg(d)' = Arg(d) /\ pc'[d] = pc[d]
  <1>1. UNCHANGED <<vm, resp, mem, envJson>> /\ pc[c] = "idle"
    BY DEF Begin
  <1>2. Op(c) = "unknown" /\ resp[c] = "none"
    BY <1>1 DEF KindInv, CallInv
  <1>3. pc'[c] \notin IsoLabels \cup {"idle", "done"}
    BY Begins DEF First, IsoLabels
  <1>4. \A d \in Cid \ {c} : Arg(d)' = Arg(d)
    BY DEF Begin, TypeOK, Arg
  <1>. QED
    BY <1>1, <1>2, <1>3, <1>4, Begins

\* The goroutine and the host.
LEMMA PowerPlace ==
  ASSUME TypeOK, NEW c \in Cid, PowerOn(c) \/ HostStep(c) \/ PowerOnFails(c)
  PROVE  /\ UNCHANGED <<pc, call, resp, envJson>>
         /\ \A d \in Cid : /\ mem'[d].env = mem[d].env /\ mem'[d].iso = mem[d].iso
                           /\ Op(d)' = Op(d) /\ Obj(d)' = Obj(d) /\ Arg(d)' = Arg(d)
  <1>1. UNCHANGED <<pc, call, resp, envJson>>
    BY DEF PowerOn, HostStep, PowerOnFails, Local
  <1>2. \A d \in Cid : mem'[d].env = mem[d].env /\ mem'[d].iso = mem[d].iso
    <2>1. CASE PowerOn(c)
      BY <2>1 DEF PowerOn, TypeOK, Memory
    <2>2. CASE HostStep(c) \/ PowerOnFails(c)
      BY <2>2 DEF HostStep, PowerOnFails
    <2>. QED
      BY <2>1, <2>2
  <1>. QED
    BY <1>1, <1>2 DEF Op, Obj, Arg

-----------------------------------------------------------------------------
(* Whose environment it is                                                 *)

\* The environment e in a state with the given calls, places and VMs: its VM
\* was asked for by a create_vm that has given it all its adapters, and e has
\* their MACs.
MadeFor(e, calls, places, vms) ==
  /\ calls[e.vm].op = "create_vm"
  /\ places[e.vm] \in Iso \cup {"done"}
  /\ vms[e.vm].reg => e.nics = vms[e.vm].nics

\* Every environment was made for one VM; and a VM has another's in its iso
\* only from a disk call.
OwnersInv ==
  /\ envJson \in Env => MadeFor(envJson, call, pc, vm)
  /\ \A n \in Cid : vm[n].iso \in Env => MadeFor(vm[n].iso, call, pc, vm)
  /\ \A c \in Cid : mem[c].iso \in Env => MadeFor(mem[c].iso, call, pc, vm)
  /\ \A c \in Cid : pc[c] \in IsoLabels => MadeFor(mem[c].env, call, pc, vm)
  /\ \A n \in Cid : vm[n].iso \in Env /\ vm[n].iso.vm # n =>
       \E c \in Cid : Op(c) \in DiskOps /\ Obj(c) = n

\* A create_vm that has added its networks adds no more.
LEMMA NetworksOver ==
  ASSUME TypeOK, CallInv, NEW c \in Cid, Step(c), Op(c) = "create_vm", pc[c] \in Iso
  PROVE  pc'[c] \in Iso \cup {"done"}
  <1>1. IsoStep(c) \/ CreateVMStep(c)
    BY DEF Step, CreateStemcellCall, DeleteStemcellCall, CreateVMCall, DeleteVMCall,
      HasVMCall, CreateDiskCall, DeleteDiskCall, AttachDiskCall, DetachDiskCall,
      Info, Unsupported, NotImplemented, Iso, IsoLabels
  <1>2. CASE IsoStep(c)
    BY <1>2, IsoStepGoes DEF Goes, Ends, Iso, IsoLabels
  <1>3. CASE CreateVMStep(c)
    <2>1. StartVM(c) \/ Poll(c) \/ Answer(c)
      BY <1>3 DEF CreateVMStep, CloudProps, Copy, Register, Hardware, Resources,
        Network, Ephemeral, Iso, IsoLabels
    <2>. QED
      BY <2>1, EndsOrGoes DEF StartVM, Poll, Answer, Govc, Ask, Ends, Iso
  <1>. QED
    BY <1>1, <1>2, <1>3

\* What an environment was made for, it remains made for.
LEMMA MadeForStays ==
  ASSUME ContractInv, StartInv, BareInv, [Next]_vars,
         NEW e \in Env, MadeFor(e, call, pc, vm)
  PROVE  MadeFor(e, call', pc', vm')
  <1>. USE DEF ContractInv, DeleteInv
  <1>. DEFINE x == e.vm
  <1>1. x \in Cid /\ Op(x) = "create_vm" /\ pc[x] \in Iso \cup {"done"} /\ Begun(x)
    BY DEF Env, MadeFor, Op, Begun, Iso, IsoLabels
  <1>2. call'[x].op = "create_vm"
    BY <1>1, BegunStays DEF Op
  <1>. DEFINE Stays == /\ pc'[x] \in Iso \cup {"done"}
                       /\ vm'[x].reg => e.nics = vm'[x].nics
  <1>3. ASSUME NEW c \in Cid, Begin(c) PROVE Stays
    BY <1>1, <1>3, BeginPlace DEF MadeFor, Begun
  <1>4. ASSUME NEW c \in Cid, Step(c) PROVE Stays
    <2>1. pc'[x] \in Iso \cup {"done"}
      BY <1>1, <1>4, NetworksOver, StepPlace DEF Running
    <2>2. CASE x # Obj(c)
      BY <1>1, <1>4, <2>1, <2>2, StepPlace DEF MadeFor
    <2>3. CASE x = Obj(c) /\ pc[c] \in {"import", "register", "network"}
      <3>1. Op(c) \in Creates
        BY <1>4, <2>3, StepPlace
        DEF LabelsOf, AllOps, IsoLabels, CreateVmLabels, DestroyLabels, Creates
      <3>. QED
        BY <1>1, <2>3, <3>1 DEF CallInv, Iso, IsoLabels
    <2>4. CASE x = Obj(c) /\ pc[c] \notin {"import", "register", "network"}
      BY <1>4, <2>1, <2>4, StepRecord DEF RecordMoves, MadeFor
    <2>. QED
      BY <2>2, <2>3, <2>4
  <1>5. ASSUME NEW c \in Cid, PowerOn(c) \/ HostStep(c) \/ PowerOnFails(c)
        PROVE  Stays
    BY <1>1, <1>5, PowerPlace, PowerRecord DEF MadeFor
  <1>6. ASSUME NEW c \in Cid, Kill(c) PROVE Stays
    BY <1>1, <1>6, KillPlace DEF MadeFor
  <1>7. ASSUME Reboot \/ Quiet \/ UNCHANGED vars PROVE Stays
    BY <1>1, <1>7 DEF Reboot, Quiet, vars, MadeFor
  <1>8. Stays
    BY <1>3, <1>4, <1>5, <1>6, <1>7 DEF Next
  <1>. QED
    BY <1>2, <1>8 DEF MadeFor

LEMMA StepKeepsOwners ==
  ASSUME ContractInv, StartInv, BareInv, OwnersInv, NEW c \in Cid, Step(c)
  PROVE  OwnersInv'
  <1>. USE DEF ContractInv, DeleteInv
  <1>1. /\ FileMoves(c) /\ MemoryMoves(c) /\ RecordMoves(c)
        /\ mem[c] \in Memory /\ mem[c].env \in Env /\ mem'[c] \in Memory
    BY StepEnv, StepRecord, BuildingTypes, TypeStep DEF Memory, Next, TypeOK
  <1>2. \A x \in Cid : Op(x)' = Op(x) /\ Obj(x)' = Obj(x)
    BY StepPlace
  <1>3. \A e \in Env : MadeFor(e, call, pc, vm) => MadeFor(e, call', pc', vm')
    BY MadeForStays DEF Next
  <1>4. pc[c] \in IsoLabels => MadeFor(mem[c].env, call', pc', vm')
    BY <1>1, <1>3 DEF OwnersInv
  <1>5. envJson' \in Env => MadeFor(envJson', call', pc', vm')
    BY <1>1, <1>3, <1>4, FileAssumption DEF FileMoves, OwnersInv, IsoLabels
  <1>6. \A n \in Cid : vm'[n].iso \in Env => MadeFor(vm'[n].iso, call', pc', vm')
    BY <1>1, <1>3, StepPlace DEF RecordMoves, OwnersInv
  <1>7. mem'[c].iso \in Env => MadeFor(mem'[c].iso, call', pc', vm')
    BY <1>1, <1>3, <1>4, FileAssumption DEF MemoryMoves, OwnersInv, Made, IsoLabels
  <1>8. pc'[c] \in IsoLabels => MadeFor(mem'[c].env, call', pc', vm')
    <2>. SUFFICES ASSUME pc'[c] \in IsoLabels PROVE MadeFor(mem'[c].env, call', pc', vm')
      OBVIOUS
    <2>1. CASE pc[c] \in IsoLabels /\ mem'[c].env = mem[c].env
      BY <1>4, <2>1
    <2>2. CASE Op(c) = "create_vm"
      <3>1. Ready(c, pc'[c], vm'[c], mem'[c])
        BY <1>2, <2>2, StepKeepsStart DEF StartInv, BuildInv, Building, IsoLabels
      <3>2. mem'[c].env.vm = c /\ mem'[c].env.nics = vm'[c].nics
        BY <3>1 DEF Ready, EnvironmentDone
      <3>. QED
        BY <1>2, <2>2, <3>2 DEF MadeFor, Op, Iso
    <2>3. CASE envJson \in Env /\ mem'[c].env = Updated(c, envJson)
      <3>1. mem'[c].env.vm = envJson.vm /\ mem'[c].env.nics = envJson.nics
        BY <2>3 DEF Updated, Env
      <3>2. MadeFor(envJson, call', pc', vm')
        BY <1>3, <2>3 DEF OwnersInv
      <3>. QED
        BY <3>1, <3>2 DEF MadeFor
    <2>. QED
      BY <1>1, <2>1, <2>2, <2>3 DEF MemoryMoves
  <1>9. \A d \in Cid \ {c} : pc'[d] = pc[d] /\ mem'[d] = mem[d] /\ mem[d].env \in Env
    BY StepPlace, BuildingTypes DEF Memory
  <1>10. \A d \in Cid : mem'[d].iso \in Env => MadeFor(mem'[d].iso, call', pc', vm')
    BY <1>3, <1>7, <1>9 DEF OwnersInv
  <1>11. \A d \in Cid : pc'[d] \in IsoLabels => MadeFor(mem'[d].env, call', pc', vm')
    BY <1>3, <1>8, <1>9 DEF OwnersInv
  <1>12. ASSUME NEW n \in Cid, vm'[n].iso \in Env, vm'[n].iso.vm # n
         PROVE  \E d \in Cid : Op(d) \in DiskOps /\ Obj(d) = n
    <2>1. CASE vm'[n].iso = vm[n].iso
      BY <1>12, <2>1 DEF OwnersInv
    <2>2. CASE vm'[n].iso # vm[n].iso
      <3>1. n = Obj(c) /\ pc[c] = "upload" /\ vm'[n].iso = mem[c].iso
        BY <1>1, <2>2, StepPlace DEF RecordMoves
      <3>2. Op(c) # "create_vm"
        <4>. SUFFICES ASSUME Op(c) = "create_vm" PROVE FALSE
          OBVIOUS
        <4>1. n = c /\ Ready(c, pc[c], vm[c], mem[c])
          BY <3>1 DEF StartInv, BuildInv, Building, CallInv, Creates
        <4>2. mem[c].env.vm = c /\ Made(mem[c].iso, mem[c].env)
          BY <3>1, <4>1 DEF Ready, EnvironmentDone
        <4>. QED
          BY <1>12, <3>1, <4>1, <4>2, FileAssumption DEF Made
      <3>. QED
        BY <3>1, <3>2, StepPlace DEF IsoLabels
    <2>. QED
      BY <2>1, <2>2
  <1>. QED
    BY <1>2, <1>5, <1>6, <1>10, <1>11, <1>12 DEF OwnersInv

\* A step that makes no environment.
LEMMA SameKeepsOwners ==
  ASSUME ContractInv, StartInv, BareInv, [Next]_vars, OwnersInv,
         \A c \in Cid : Op(c) \in DiskOps => Op(c)' = Op(c) /\ Obj(c)' = Obj(c),
         envJson' \in {envJson, NoFile},
         \A n \in Cid : vm'[n].iso = vm[n].iso,
         \A c \in Cid : /\ mem'[c].iso \in {mem[c].iso, NoFile}
                        /\ pc'[c] \in IsoLabels =>
                            pc[c] \in IsoLabels /\ mem'[c].env = mem[c].env
  PROVE  OwnersInv'
  <1>1. \A e \in Env : MadeFor(e, call, pc, vm) => MadeFor(e, call', pc', vm')
    BY MadeForStays
  <1>2. \A c \in Cid : mem[c].env \in Env
    BY BuildingTypes DEF Memory, ContractInv, DeleteInv
  <1>3. envJson' \in Env => MadeFor(envJson', call', pc', vm')
    BY <1>1, FileAssumption DEF OwnersInv
  <1>4. \A n \in Cid : vm'[n].iso \in Env => MadeFor(vm'[n].iso, call', pc', vm')
    BY <1>1 DEF OwnersInv
  <1>5. ASSUME NEW c \in Cid, mem'[c].iso \in Env
        PROVE  MadeFor(mem'[c].iso, call', pc', vm')
    BY <1>1, <1>5, FileAssumption DEF OwnersInv
  <1>6. ASSUME NEW c \in Cid, pc'[c] \in IsoLabels
        PROVE  MadeFor(mem'[c].env, call', pc', vm')
    BY <1>1, <1>2, <1>6 DEF OwnersInv
  <1>7. ASSUME NEW n \in Cid, vm'[n].iso \in Env, vm'[n].iso.vm # n
        PROVE  \E c \in Cid : Op(c)' \in DiskOps /\ Obj(c)' = n
    BY <1>7 DEF OwnersInv
  <1>. QED
    BY <1>3, <1>4, <1>5, <1>6, <1>7 DEF OwnersInv

\* OwnersInv is an invariant of the CPI.
THEOREM OwnersInvariant ==
  Spec => [](ContractInv /\ StartInv /\ DiskCallInv /\ OwnersInv)
  <1>1. Init => OwnersInv
    <2>. SUFFICES ASSUME Init PROVE OwnersInv
      OBVIOUS
    <2>1. \A c \in Cid : /\ pc[c] \in {"idle", "done"} /\ mem[c].iso = NoFile
                        /\ vm[c] \in {NoVM, Stemcell}
      BY DEF Init, FreshMemory
    <2>2. NoVM.iso = NoFile /\ Stemcell.iso = NoFile
      BY DEF NoVM, Stemcell
    <2>3. NoFile \notin Env /\ envJson = NoFile
      BY FileAssumption DEF Init
    <2>. QED
      BY <2>1, <2>2, <2>3 DEF OwnersInv, IsoLabels
  <1>2. ContractInv /\ StartInv /\ DiskCallInv /\ OwnersInv /\ [Next]_vars => OwnersInv'
    <2>. SUFFICES ASSUME ContractInv, StartInv, DiskCallInv, OwnersInv, [Next]_vars
                  PROVE  OwnersInv'
      OBVIOUS
    <2>1. TypeOK /\ CallInv /\ KindInv /\ BareInv
      BY DEF ContractInv, DeleteInv, DiskCallInv
    <2>2. ASSUME NEW c \in Cid, Begin(c) PROVE OwnersInv'
      <3>1. \A d \in Cid : Op(d) \in DiskOps => Op(d)' = Op(d) /\ Obj(d)' = Obj(d)
        BY <2>1, <2>2, BeginPlace DEF DiskOps
      <3>. QED
        BY <2>1, <2>2, <3>1, BeginPlace, SameKeepsOwners
    <2>3. ASSUME NEW c \in Cid, Step(c) PROVE OwnersInv'
      BY <2>1, <2>3, StepKeepsOwners
    <2>4. ASSUME NEW c \in Cid, PowerOn(c) \/ HostStep(c) \/ PowerOnFails(c)
          PROVE  OwnersInv'
      BY <2>1, <2>4, PowerPlace, PowerRecord, SameKeepsOwners
    <2>5. ASSUME NEW c \in Cid, Kill(c) PROVE OwnersInv'
      <3>1. pc'[c] \notin IsoLabels
        BY <2>1, <2>5, KillPlace DEF IsoLabels
      <3>. QED
        BY <2>1, <2>5, <3>1, KillPlace, SameKeepsOwners
    <2>6. CASE Reboot \/ UNCHANGED vars
      <3>1. UNCHANGED <<vm, pc, call, mem>> /\ envJson' \in {envJson, NoFile}
        BY <2>6 DEF Reboot, vars
      <3>2. \A x \in Cid : Op(x)' = Op(x) /\ Obj(x)' = Obj(x)
        BY <3>1 DEF Op, Obj
      <3>. QED
        BY <2>1, <3>1, <3>2, SameKeepsOwners
    <2>. QED
      BY <2>2, <2>3, <2>4, <2>5, <2>6 DEF Next, Quiet
  <1>. QED
    BY <1>1, <1>2, DiskCallInvariant, PTL DEF Spec

\* However calls overlap, fail or die, what an iso holds is one VM's
\* environment, with its id and its MACs: the file is read whole or not at all,
\* a disk call changes nothing in it but its own disk, and only a disk call
\* carries one VM's environment to another.
THEOREM IsosStayOneVMs == Spec => []IsosAreOneVMs
  <1>1. OwnersInv => IsosAreOneVMs
    BY DEF OwnersInv, MadeFor, IsosAreOneVMs, DiskOps
  <1>. QED
    BY <1>1, OwnersInvariant, PTL

-----------------------------------------------------------------------------
(* The disks that an environment lists                                     *)

\* The one VM that has ever been asked for.
Sole(n) == Op(n) = "create_vm" /\ OnlyVM(n)

Lists(e, d) == e \in Env /\ d \in e.disks

\* The iso of n lists d, or may come to by a disk call that does not attach it.
Listed(n, d) ==
  \/ Lists(envJson, d)
  \/ Lists(vm[n].iso, d)
  \/ \E c \in Cid : Op(c) \in DiskOps /\ pc[c] \in IsoLabels /\ Lists(mem[c].env, d)

\* A detach_disk of d from n that has not succeeded.
Detaching(c, n, d) ==
  Op(c) = "detach_disk" /\ Obj(c) = n /\ Arg(c) = d /\ resp[c] # "ok"

Accounted(n, d) ==
  \/ \E s \in Slots : vm[n].devs[s] = d
  \/ \E c \in Cid : Detaching(c, n, d)
  \/ n \in Known("create_vm") /\ ~vm[n].reg

\* Once a detach_disk has opened the file, the file does not list its disk.
FileInv == \A n, c \in Cid :
  Sole(n) /\ Op(c) = "detach_disk" /\ pc[c] \in IsoLabels \ {"trunc"} =>
    ~Lists(envJson, Arg(c))

ListInv == \A n, d \in Cid : Sole(n) /\ Listed(n, d) => Accounted(n, d)

\* One process at a time works on the sole VM.
LEMMA SoleUser ==
  ASSUME Exclusive, CallInv, DistinctInv, NEW n \in Cid, Sole(n),
         NEW c \in Cid, Running(c), Op(c) \in DiskOps \cup {"create_vm"}
  PROVE  /\ Obj(c) = n
         /\ \A d \in Cid : Running(d) /\ Op(d) \in DiskOps \cup {"create_vm"} => d = c
  <1>1. \A d \in Cid : Op(d) \in DiskOps \cup {"create_vm"} => Obj(d) = n
    BY DEF Sole, OnlyVM, CallInv, Known, DiskOps, Creates
  <1>. QED
    BY <1>1 DEF DistinctInv

\* What a create_vm writes lists no disks, and a disk call lists those that it
\* found in the file, but for its own.
LEMMA StepLists ==
  ASSUME ContractInv, StartInv, DiskCallInv, Exclusive,
         NEW n \in Cid, NEW d \in Cid, NEW c \in Cid, Step(c), Listed(n, d)'
  PROVE  \/ Listed(n, d)
         \/ /\ pc[c] = "readenv" /\ vm' = vm /\ Op(c) = "attach_disk" /\ Arg(c) = d
  <1>. USE DEF ContractInv, DeleteInv, DiskCallInv
  <1>1. FileMoves(c) /\ MemoryMoves(c) /\ RecordMoves(c)
    BY StepEnv, StepRecord
  <1>2. /\ \A e \in Cid : Op(e)' = Op(e)
        /\ \A e \in Cid \ {c} : pc'[e] = pc[e] /\ mem'[e] = mem[e]
        /\ \A m \in Cid \ {Obj(c)} : vm'[m] = vm[m]
        /\ pc[c] \in IsoLabels => Op(c) \in DiskOps \cup {"create_vm"}
        /\ Running(c)
    BY StepPlace
  <1>3. Op(c) = "create_vm" => Obj(c) = c /\ Ready(c, pc[c], vm[c], mem[c])
    BY <1>2 DEF StartInv, BuildInv, Building, Running, CallInv, Creates
  <1>4. Op(c) = "create_vm" => mem[c].env.disks = {}
    BY <1>3 DEF Ready, EnvironmentDone
  <1>5. pc[c] \in IsoLabels /\ Lists(mem[c].env, d) => Listed(n, d)
    BY <1>2, <1>4 DEF Lists, Listed
  <1>6. pc[c] = "upload" => Made(mem[c].iso, mem[c].env)
    <2>1. CASE Op(c) = "create_vm"
      BY <1>3, <2>1 DEF Ready, EnvironmentDone
    <2>2. CASE Op(c) \in DiskOps
      BY <1>2, <2>2 DEF DiskInv, Working, Running, DiskReady, IsoDone
    <2>. QED
      BY <1>2, <2>1, <2>2 DEF IsoLabels
  <1>7. CASE Lists(envJson', d)
    BY <1>1, <1>5, <1>7, FileAssumption DEF FileMoves, Lists, Listed, IsoLabels
  <1>8. CASE Lists(vm'[n].iso, d)
    <2>1. CASE vm'[n].iso = vm[n].iso
      BY <1>8, <2>1 DEF Listed
    <2>2. CASE vm'[n].iso # vm[n].iso
      <3>1. pc[c] = "upload" /\ vm'[n].iso = mem[c].iso
        BY <1>1, <1>2, <2>2 DEF RecordMoves
      <3>2. Lists(mem[c].env, d)
        BY <1>6, <1>8, <3>1, FileAssumption DEF Made, Lists
      <3>. QED
        BY <1>5, <3>1, <3>2 DEF IsoLabels
    <2>. QED
      BY <2>1, <2>2
  <1>9. ASSUME NEW e \in Cid, Op(e) \in DiskOps, pc'[e] \in IsoLabels,
               Lists(mem'[e].env, d)
        PROVE  \/ Listed(n, d)
               \/ /\ pc[c] = "readenv" /\ vm' = vm
                  /\ Op(c) = "attach_disk" /\ Arg(c) = d
    <2>1. CASE e # c
      BY <1>2, <1>9, <2>1 DEF Listed
    <2>2. CASE e = c /\ pc[c] \in IsoLabels /\ mem'[c].env = mem[c].env
      BY <1>5, <1>9, <2>2
    <2>3. CASE /\ e = c /\ pc[c] = "readenv" /\ vm' = vm /\ envJson \in Env
               /\ mem'[c].env = Updated(c, envJson)
      <3>1. d \in Updated(c, envJson).disks
        BY <1>9, <2>3 DEF Lists
      <3>2. d \in envJson.disks \/ (Op(c) = "attach_disk" /\ d = Arg(c))
        BY <2>3, <3>1 DEF Updated, Env
      <3>. QED
        BY <2>3, <3>2 DEF Lists, Listed
    <2>. QED
      BY <1>1, <1>9, <2>1, <2>2, <2>3 DEF MemoryMoves, DiskOps
  <1>10. \/ Lists(envJson', d)
         \/ Lists(vm'[n].iso, d)
         \/ \E e \in Cid : Op(e) \in DiskOps /\ pc'[e] \in IsoLabels /\ Lists(mem'[e].env, d)
    BY <1>2 DEF Listed, Lists
  <1>. QED
    BY <1>7, <1>8, <1>9, <1>10

\* A detach_disk that succeeds has had its disk taken off every list.
LEMMA DetachUnlists ==
  ASSUME ContractInv, StartInv, DiskCallInv, FileInv, Exclusive,
         NEW n \in Cid, Sole(n), NEW c \in Cid, Step(c), Op(c) = "detach_disk",
         resp'[c] = "ok"
  PROVE  ~Listed(n, Arg(c))'
  <1>. USE DEF ContractInv, DeleteInv, DiskCallInv
  <1>1. pc[c] = "connect" /\ pc'[c] = "done" /\ Running(c)
    BY DiskSucceeds, StepPlace DEF DiskOps
  <1>2. Obj(c) = n
    BY <1>1, SoleUser DEF DiskOps
  <1>3. DiskReady(call[c], pc[c], vm[n], mem[c])
    BY <1>1, <1>2 DEF DiskInv, Working, DiskOps
  <1>4. ~(Arg(c) \in mem[c].env.disks) /\ Made(vm[n].iso, mem[c].env)
    BY <1>1, <1>3 DEF DiskReady, IsoDone, IsoLabels, Op, Arg
  <1>5. FileMoves(c) /\ RecordMoves(c)
    BY StepEnv, StepRecord
  <1>6. vm'[n].iso = vm[n].iso /\ envJson' = envJson
    BY <1>1, <1>2, <1>5 DEF RecordMoves, FileMoves
  <1>7. ~Lists(envJson', Arg(c))
    BY <1>1, <1>6 DEF FileInv, IsoLabels
  <1>8. ~Lists(vm'[n].iso, Arg(c))
    BY <1>4, <1>6, FileAssumption DEF Made, Lists
  <1>9. \A e \in Cid : ~(Op(e) \in DiskOps /\ pc'[e] \in IsoLabels)
    <2>. SUFFICES ASSUME NEW e \in Cid, Op(e) \in DiskOps, pc'[e] \in IsoLabels
                  PROVE  FALSE
      OBVIOUS
    <2>1. e # c /\ pc'[e] = pc[e]
      BY <1>1, StepPlace DEF IsoLabels
    <2>2. Running(e)
      BY <2>1 DEF Running, IsoLabels
    <2>. QED
      BY <1>1, <2>1, <2>2, SoleUser DEF DiskOps
  <1>10. \A e \in Cid : Op(e)' = Op(e) /\ Arg(e)' = Arg(e)
    BY StepPlace
  <1>. QED
    BY <1>7, <1>8, <1>9, <1>10 DEF Listed, Lists

\* What accounts for a listed disk goes only with the disk from the lists.
LEMMA StepKeepsLists ==
  ASSUME ContractInv, StartInv, DiskCallInv, FileInv, ListInv, Exclusive,
         NEW c \in Cid, Step(c)
  PROVE  ListInv'
  <1>. USE DEF ContractInv, DeleteInv, DiskCallInv
  <1>1. /\ \A e \in Cid : Op(e)' = Op(e) /\ Obj(e)' = Obj(e) /\ Arg(e)' = Arg(e)
        /\ \A e \in Cid \ {c} : pc'[e] = pc[e] /\ resp'[e] = resp[e]
        /\ \A m \in Cid \ {Obj(c)} : vm'[m] = vm[m]
        /\ Running(c) /\ resp[c] = "none" /\ pc[c] \in LabelsOf(Op(c))
        /\ Op(c) \in AllOps
    BY StepPlace
  <1>. SUFFICES ASSUME NEW n \in Cid, NEW d \in Cid, Sole(n), Listed(n, d)'
                PROVE  Accounted(n, d)'
    BY <1>1 DEF ListInv, Sole, OnlyVM
  <1>2. \A x \in Known("create_vm") : x # c /\ x \in Known("create_vm")'
    BY <1>1 DEF Known
  <1>3. d # NoDisk
    BY NoDiskAssumption
  <1>4. CASE pc[c] = "readenv" /\ vm' = vm /\ Op(c) = "attach_disk" /\ Arg(c) = d
    <2>1. Obj(c) = n
      BY <1>1, <1>4, SoleUser DEF DiskOps
    <2>2. DiskReady(call[c], pc[c], vm[n], mem[c])
      BY <1>1, <1>4, <2>1 DEF DiskInv, Working, Running, DiskOps
    <2>3. \E s \in Slots : vm[n].devs[s] = d
      BY <1>4, <2>2 DEF DiskReady, DevicesDone, Op, Arg
    <2>. QED
      BY <1>4, <2>3 DEF Accounted
  <1>5. ASSUME NEW s \in Slots, vm[n].devs[s] = d, vm'[n].devs[s] # d
        PROVE  Accounted(n, d)'
    <2>1. Obj(c) = n /\ RecordMoves(c)
      BY <1>1, <1>5, StepRecord
    <2>2. CASE Op(c) \in VMDeletes /\ ~vm'[n].reg
      <3>1. n \in Known("create_vm")
        BY <2>1, <2>2 DEF CallInv, Known, VMDeletes, Sole
      <3>. QED
        BY <1>2, <2>2, <3>1 DEF Accounted
    <2>3. CASE pc[c] = "remove" /\ s = mem[c].slot
      <3>1. Op(c) = "detach_disk"
        BY <1>1, <2>3 DEF LabelsOf, AllOps, CreateVmLabels, IsoLabels, DestroyLabels
      <3>2. DiskReady(call[c], pc[c], vm[n], mem[c])
        BY <1>1, <2>1, <3>1 DEF DiskInv, Working, Running, DiskOps
      <3>3. Arg(c) = d
        BY <1>5, <2>3, <3>2 DEF DiskReady, DevicesDone, Arg
      <3>4. resp'[c] # "ok"
        BY <2>3, <3>1, DiskSucceeds DEF DiskOps
      <3>. QED
        BY <1>1, <2>1, <3>1, <3>3, <3>4 DEF Accounted, Detaching
    <2>. QED
      BY <1>3, <1>5, <2>1, <2>2, <2>3 DEF RecordMoves
  <1>6. ASSUME NEW e \in Cid, Detaching(e, n, d)
        PROVE  Accounted(n, d)'
    <2>1. resp'[e] # "ok"
      BY <1>1, <1>6, DetachUnlists DEF Detaching
    <2>. QED
      BY <1>1, <1>6, <2>1 DEF Accounted, Detaching
  <1>7. CASE n \in Known("create_vm") /\ ~vm[n].reg
    <2>1. ~vm'[n].reg
      BY <1>2, <1>7, StepAppears DEF Appears
    <2>. QED
      BY <1>2, <1>7, <2>1 DEF Accounted
  <1>8. CASE Listed(n, d)
    <2>1. Accounted(n, d)
      BY <1>8 DEF ListInv
    <2>2. ASSUME NEW s \in Slots, vm[n].devs[s] = d PROVE Accounted(n, d)'
      BY <1>5, <2>2 DEF Accounted
    <2>. QED
      BY <1>6, <1>7, <2>1, <2>2 DEF Accounted
  <1>. QED
    BY <1>4, <1>8, StepLists

\* The file is emptied before it is written, and a detach_disk writes an
\* environment without its disk; with no write failing it gets no further
\* before it has opened the file.
LEMMA StepKeepsFile ==
  ASSUME ContractInv, StartInv, DiskCallInv, FileInv, Exclusive,
         "write" \notin Faults, NEW c \in Cid, Step(c)
  PROVE  FileInv'
  <1>. USE DEF ContractInv, DeleteInv, DiskCallInv
  <1>1. /\ \A e \in Cid : Op(e)' = Op(e) /\ Arg(e)' = Arg(e)
        /\ \A e \in Cid \ {c} : pc'[e] = pc[e]
        /\ pc[c] \in IsoLabels => Op(c) \in DiskOps \cup {"create_vm"}
        /\ Running(c)
    BY StepPlace
  <1>2. FileMoves(c) /\ MemoryMoves(c)
    BY StepEnv
  <1>. SUFFICES ASSUME NEW n \in Cid, NEW e \in Cid, Sole(n), Op(e) = "detach_disk",
                       pc'[e] \in IsoLabels \ {"trunc"}
                PROVE  ~Lists(envJson', Arg(e))
    BY <1>1 DEF FileInv, Sole, OnlyVM, Lists
  <1>3. CASE e = c
    <2>1. pc[c] \in IsoLabels
      BY <1>2, <1>3 DEF MemoryMoves
    <2>2. CASE pc[c] = "trunc"
      <3>1. envJson' = Empty
        BY <1>2, <2>2 DEF MemoryMoves, FileMoves
      <3>. QED
        BY <3>1, FileAssumption DEF Lists
    <2>3. CASE pc[c] # "trunc"
      <3>1. ~Lists(envJson, Arg(c))
        BY <1>3, <2>1, <2>3 DEF FileInv
      <3>2. DiskReady(call[c], pc[c], vm[Obj(c)], mem[c])
        BY <1>1, <1>3 DEF DiskInv, Working, Running, DiskOps
      <3>3. ~Lists(mem[c].env, Arg(c))
        BY <1>3, <2>1, <3>2 DEF DiskReady, IsoDone, Lists, Op, Arg
      <3>. QED
        BY <1>2, <1>3, <2>3, <3>1, <3>3, FileAssumption DEF FileMoves, Lists
    <2>. QED
      BY <2>2, <2>3
  <1>4. CASE e # c
    <2>1. pc[e] \in IsoLabels \ {"trunc"} /\ Running(e)
      BY <1>1, <1>4 DEF Running, IsoLabels
    <2>2. Op(c) \notin DiskOps \cup {"create_vm"}
      BY <1>1, <1>4, <2>1, SoleUser DEF DiskOps
    <2>3. envJson' = envJson
      BY <1>1, <1>2, <2>2 DEF FileMoves, IsoLabels
    <2>. QED
      BY <2>1, <2>3 DEF FileInv
  <1>. QED
    BY <1>3, <1>4

\* A call that begins lists nothing, and a VM that is asked for first finds
\* no environment anywhere.
LEMMA BeginKeepsLists ==
  ASSUME TypeOK, CallInv, KindInv, OwnersInv, FileInv, ListInv, NEW c \in Cid, Begin(c)
  PROVE  FileInv' /\ ListInv'
  <1>1. /\ UNCHANGED <<vm, resp, mem, envJson>>
        /\ Op(c) = "unknown" /\ resp[c] = "none"
        /\ pc'[c] \notin IsoLabels
        /\ \A e \in Cid \ {c} : /\ Op(e)' = Op(e) /\ Obj(e)' = Obj(e)
                                /\ Arg(e)' = Arg(e) /\ pc'[e] = pc[e]
    BY BeginPlace
  <1>2. \A n \in Cid : Sole(n)' => Sole(n) \/ \A e \in Cid : Op(e) # "create_vm"
    BY <1>1 DEF Sole, OnlyVM
  <1>3. ASSUME \A e \in Cid : Op(e) # "create_vm"
        PROVE  /\ envJson \notin Env
               /\ \A n, d \in Cid : ~Listed(n, d)
    <2>1. \A x \in Env : Op(x.vm) # "create_vm"
      BY <1>3 DEF Env
    <2>2. /\ envJson \notin Env
          /\ \A n \in Cid : vm[n].iso \notin Env
          /\ \A e \in Cid : pc[e] \in IsoLabels => mem[e].env \notin Env
      BY <2>1 DEF OwnersInv, MadeFor, Op
    <2>. QED
      BY <2>2 DEF Listed, Lists
  <1>4. \A n, d \in Cid : Listed(n, d)' => Listed(n, d)
    BY <1>1 DEF Listed, Lists
  <1>5. ASSUME NEW n \in Cid, NEW d \in Cid, Sole(n), Accounted(n, d)
        PROVE  Accounted(n, d)'
    <2>1. n # c
      BY <1>1, <1>5 DEF Sole
    <2>2. \A e \in Cid : Detaching(e, n, d) => Detaching(e, n, d)'
      BY <1>1 DEF Detaching
    <2>. QED
      BY <1>1, <1>5, <2>1, <2>2 DEF Accounted, Known
  <1>6. ListInv'
    BY <1>2, <1>3, <1>4, <1>5 DEF ListInv
  <1>7. FileInv'
    BY <1>1, <1>2, <1>3 DEF FileInv, Lists
  <1>. QED
    BY <1>6, <1>7

\* What makes no environment, moves no device and answers no call.
LEMMA SameKeepsLists ==
  ASSUME FileInv, ListInv, CallInv, envJson' \in {envJson, NoFile}, call' = call,
         \A n \in Cid : /\ vm'[n].iso = vm[n].iso /\ vm'[n].devs = vm[n].devs
                        /\ vm'[n].reg = vm[n].reg,
         \A c \in Cid : /\ resp'[c] = "ok" <=> resp[c] = "ok"
                        /\ pc'[c] \in IsoLabels =>
                             pc'[c] = pc[c] /\ mem'[c].env = mem[c].env
  PROVE  FileInv' /\ ListInv'
  <1>1. \A c \in Cid : Op(c)' = Op(c) /\ Obj(c)' = Obj(c) /\ Arg(c)' = Arg(c)
    BY DEF Op, Obj, Arg
  <1>2. \A n \in Cid : Sole(n)' => Sole(n)
    BY <1>1 DEF Sole, OnlyVM
  <1>3. \A d : Lists(envJson', d) => Lists(envJson, d)
    BY FileAssumption DEF Lists
  <1>4. \A n, d \in Cid : Listed(n, d)' => Listed(n, d)
    BY <1>1, <1>3 DEF Listed, Lists
  <1>5. \A n, d \in Cid : Accounted(n, d) => Accounted(n, d)'
    BY <1>1 DEF Accounted, Detaching, Known
  <1>6. ListInv'
    BY <1>2, <1>4, <1>5 DEF ListInv
  <1>7. FileInv'
    BY <1>1, <1>2, <1>3 DEF FileInv, Lists
  <1>. QED
    BY <1>6, <1>7

\* While only one VM has ever been asked for, a disk that its iso lists is
\* attached to it, but for a detach_disk of that disk that runs or did not
\* succeed: a list goes from the iso through memory and the file to the next
\* iso, and a disk comes off all three before its detach_disk succeeds.  A
\* write of the file that fails without a word would leave the disk listed
\* there, and the next attach_disk would tell the agent of it again.
THEOREM ListedDisksAttached ==
  ASSUME Exclusive, "write" \notin Faults
  PROVE  Spec => []ListedDisksAreAttached
  <1>1. Init => FileInv /\ ListInv
    <2>. SUFFICES ASSUME Init PROVE FileInv /\ ListInv
      OBVIOUS
    <2>1. \A c \in Cid : Op(c) # "create_vm"
      BY DEF Init, Op
    <2>. QED
      BY <2>1 DEF FileInv, ListInv, Sole
  <1>2. /\ ContractInv /\ StartInv /\ DiskCallInv /\ OwnersInv
        /\ FileInv /\ ListInv /\ [Next]_vars
        => (FileInv /\ ListInv)'
    <2>. SUFFICES ASSUME ContractInv, StartInv, DiskCallInv, OwnersInv, FileInv,
                         ListInv, [Next]_vars
                  PROVE  FileInv' /\ ListInv'
      OBVIOUS
    <2>1. TypeOK /\ CallInv /\ KindInv
      BY DEF ContractInv, DeleteInv
    <2>2. ASSUME NEW c \in Cid, Begin(c) PROVE FileInv' /\ ListInv'
      BY <2>1, <2>2, BeginKeepsLists
    <2>3. ASSUME NEW c \in Cid, Step(c) PROVE FileInv' /\ ListInv'
      BY <2>3, StepKeepsFile, StepKeepsLists
    <2>4. ASSUME NEW c \in Cid, PowerOn(c) \/ HostStep(c) \/ PowerOnFails(c)
          PROVE  FileInv' /\ ListInv'
      BY <2>1, <2>4, PowerPlace, PowerRecord, SameKeepsLists
    <2>5. ASSUME NEW c \in Cid, Kill(c) PROVE FileInv' /\ ListInv'
      <3>1. pc'[c] \notin IsoLabels
        BY <2>1, <2>5, KillPlace DEF IsoLabels
      <3>. QED
        BY <2>1, <2>5, <3>1, KillPlace, SameKeepsLists
    <2>6. CASE Reboot \/ UNCHANGED vars
      <3>1. UNCHANGED <<vm, pc, call, mem, resp>> /\ envJson' \in {envJson, NoFile}
        BY <2>6 DEF Reboot, vars
      <3>. QED
        BY <2>1, <3>1, SameKeepsLists
    <2>. QED
      BY <2>2, <2>3, <2>4, <2>5, <2>6 DEF Next, Quiet
  <1>3. ListInv /\ OwnersInv => ListedDisksAreAttached
    <2>. SUFFICES ASSUME ListInv, OwnersInv, NEW n \in Cid, OnlyVM(n), vm[n].reg,
                         vm[n].iso \in Env, NEW d \in vm[n].iso.disks
                  PROVE  \/ \E s \in Slots : vm[n].devs[s] = d
                         \/ \E c \in Cid : Detaching(c, n, d)
      BY DEF ListedDisksAreAttached, Detaching
    <2>1. vm[n].iso.vm \in Cid /\ d \in Cid
      BY DEF Env
    <2>2. Sole(n)
      BY <2>1 DEF OwnersInv, MadeFor, Op, OnlyVM, Sole
    <2>3. Accounted(n, d)
      BY <2>1, <2>2 DEF ListInv, Listed, Lists
    <2>. QED
      BY <2>3 DEF Accounted
  <1>. QED
    BY <1>1, <1>2, <1>3, OwnersInvariant, PTL DEF Spec

-----------------------------------------------------------------------------
(* Where a damaged iso comes from                                          *)

WholeInv == \A n \in Cid : vm[n].iso # Torn /\ mem[n].iso # Torn

LEMMA StepKeepsWhole ==
  ASSUME "iso" \notin Faults, TypeOK, CallInv, StartInv, BareInv, WholeInv,
         NEW c \in Cid, Step(c)
  PROVE  WholeInv'
  <1>1. MemoryMoves(c) /\ RecordMoves(c) /\ mem[c].env \in Env
    BY StepEnv, StepRecord, BuildingTypes DEF Memory
  <1>2. /\ \A n \in Cid \ {Obj(c)} : vm'[n] = vm[n]
        /\ \A d \in Cid \ {c} : mem'[d] = mem[d]
        /\ Obj(c) \in Cid
    BY StepPlace
  <1>3. vm'[Obj(c)].iso # Torn
    BY <1>1, <1>2 DEF RecordMoves, WholeInv
  <1>4. mem'[c].iso # Torn
    BY <1>1, FileAssumption DEF MemoryMoves, Made, WholeInv
  <1>. QED
    BY <1>2, <1>3, <1>4 DEF WholeInv

\* Only a failed write of the iso itself damages one: a damaged /tmp/env.json,
\* which overlapping calls, killed processes and failed writes leave behind,
\* never gets into an iso, because ReadEnv's FromBytes refuses it and the iso
\* is made from memory.
THEOREM IsosAreWhole ==
  ASSUME "iso" \notin Faults
  PROVE  Spec => []NoDamagedIso
  <1>1. Init => WholeInv
    BY FileAssumption DEF Init, WholeInv, FreshMemory, NoVM, Stemcell
  <1>2. ContractInv /\ StartInv /\ DiskCallInv /\ WholeInv /\ [Next]_vars => WholeInv'
    <2>. SUFFICES ASSUME ContractInv, StartInv, DiskCallInv, WholeInv, [Next]_vars
                  PROVE  WholeInv'
      OBVIOUS
    <2>1. TypeOK /\ CallInv /\ KindInv /\ BareInv
      BY DEF ContractInv, DeleteInv, DiskCallInv
    <2>2. ASSUME NEW c \in Cid, Begin(c) PROVE WholeInv'
      BY <2>2 DEF Begin, WholeInv
    <2>3. ASSUME NEW c \in Cid, Step(c) PROVE WholeInv'
      BY <2>1, <2>3, StepKeepsWhole
    <2>4. ASSUME NEW c \in Cid, PowerOn(c) \/ HostStep(c) \/ PowerOnFails(c)
          PROVE  WholeInv'
      BY <2>1, <2>4, PowerPlace, PowerRecord DEF WholeInv
    <2>5. ASSUME NEW c \in Cid, Kill(c) PROVE WholeInv'
      <3>1. /\ vm' = vm /\ mem'[c].iso = NoFile
            /\ \A d \in Cid \ {c} : mem'[d] = mem[d]
        BY <2>1, <2>5, KillPlace
      <3>. QED
        BY <3>1, FileAssumption DEF WholeInv
    <2>6. CASE Reboot \/ UNCHANGED vars
      BY <2>6 DEF Reboot, vars, WholeInv
    <2>. QED
      BY <2>2, <2>3, <2>4, <2>5, <2>6 DEF Next, Quiet
  <1>3. WholeInv => NoDamagedIso
    BY DEF WholeInv, NoDamagedIso
  <1>. QED
    BY <1>1, <1>2, <1>3, OwnersInvariant, PTL DEF Spec
=============================================================================
