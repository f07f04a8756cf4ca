-------------------------------- MODULE Cpi --------------------------------
(***************************************************************************)
(* The CPI as a set of concurrent OS processes.  The director starts one   *)
(* process per CPI call (main.go); the process reads one request, runs one *)
(* action against the ESXi host, writes one response and exits.  What      *)
(* processes share is the host (EsxiHost) and the file /tmp/env.json.      *)
(*                                                                         *)
(* A process and the uuid it would generate are identified: c \in Cid is a *)
(* call, and also the cid of the stemcell, VM or disk that call creates.   *)
(* pc[c] is the place in the action's code; each govc command is one step, *)
(* and branches on a command's result are taken in the step that ran it.   *)
(***************************************************************************)
EXTENDS EsxiHost

CONSTANTS Ops,         \* the methods the director calls in this instance
          Imported,    \* calls that created a stemcell before the model starts
          MaxRunning,  \* how many CPI processes the director runs at a time
          Exclusive,   \* the director never runs two calls on one VM or disk
          Faults       \* which faults happen, see below

AllOps == {"create_stemcell", "delete_stemcell", "create_vm", "delete_vm",
           "has_vm", "create_disk", "delete_disk", "attach_disk", "detach_disk",
           "info", "reboot_vm", "unknown"}

\* "host":    a govc command or a local file operation fails, or a command
\*            takes effect and its reply is lost
\* "write":   /tmp/env.json cannot be opened or written
\* "iso":     the iso in the call's temp dir cannot be written
\* "kill":    a CPI process dies
\* "poweron": the host's power-on task fails
\* "reboot":  the machine the CPI runs on restarts and its /tmp is emptied
ASSUME CpiAssumption ==
  /\ Ops \subseteq AllOps
  /\ Imported \subseteq Cid
  /\ Exclusive \in BOOLEAN
  /\ Faults \subseteq {"host", "write", "iso", "kill", "poweron", "reboot"}

VARIABLES pc,       \* place of each call's process in its action's code
          call,     \* the request: method, object worked on, other argument
          resp,     \* what the director got back
          mem,      \* the memory of each call's process
          tmp,      \* temp directories of the call that exist
          envJson   \* /tmp/env.json

vars == <<vm, disks, pc, call, resp, mem, tmp, envJson>>

\* env: the agentEnv; iso: the iso made from it in the call's temp dir; todo:
\* networks the loop of CreateVM has not visited; slot: the device name
\* getVMDiskName returned; pon: StartVM's goroutine has still to send vm.power.
Memory == [env : Env, iso : Env \cup {NoFile, Torn}, todo : SUBSET Nets,
           slot : Slots \cup {NoDisk}, pon : BOOLEAN]

FreshMemory(c) == [env |-> [vm |-> c, disks |-> {}, nics |-> {}],
                   iso |-> NoFile, todo |-> Nets, slot |-> NoDisk, pon |-> FALSE]

IsoLabels == {"trunc", "write", "mkiso", "disconnect", "eject", "upload",
              "insert", "connect"}

CreateVmLabels == {"props", "copy", "register", "hardware", "resources",
                   "network", "start", "poll", "answer"}

DestroyLabels == {"state", "stop", "poweroff", "destroy", "ls", "rm"}

Labels == IsoLabels \cup CreateVmLabels \cup DestroyLabels \cup
          {"idle", "extract", "import", "has", "present", "absent", "mkdisk",
           "lsdisk", "rmdisk", "attach", "find", "remove", "readenv", "info",
           "panic", "notimpl", "done"}

\* "yes" and "no" are has_vm's results.  "garbled": what the process wrote on
\* stdout is not one JSON document.  "none": nothing was written (yet).
Responses == {"none", "ok", "yes", "no", "error", "garbled"}

TypeOK ==
  /\ HostTypeOK
  /\ pc \in [Cid -> Labels]
  /\ call \in [Cid -> [op : AllOps, obj : Cid, arg : Cid]]
  /\ resp \in [Cid -> Responses]
  /\ mem \in [Cid -> Memory]
  /\ tmp \in [Cid -> SUBSET {"agent-settings", "stemcell"}]
  /\ envJson \in Env \cup {NoFile, Empty, Torn}

Init ==
  /\ vm = [c \in Cid |-> IF c \in Imported THEN Stemcell ELSE NoVM]
  /\ disks = {}
  /\ pc = [c \in Cid |-> IF c \in Imported THEN "done" ELSE "idle"]
  /\ call = [c \in Cid |-> [op |-> IF c \in Imported THEN "create_stemcell"
                                                     ELSE "unknown",
                            obj |-> c, arg |-> c]]
  /\ resp = [c \in Cid |-> IF c \in Imported THEN "ok" ELSE "none"]
  /\ mem = [c \in Cid |-> FreshMemory(c)]
  /\ tmp = [c \in Cid |-> IF c \in Imported THEN {"agent-settings", "stemcell"}
                                            ELSE {}]
  /\ envJson = NoFile

-----------------------------------------------------------------------------
Op(c) == call[c].op
Obj(c) == call[c].obj
Arg(c) == call[c].arg
Running(c) == pc[c] \notin {"idle", "done"}

\* The director learns a cid only from the successful response of the call
\* that made it: JSONDispatcher drops the result of an action that failed.
Known(op) == {c \in Cid : Op(c) = op /\ resp[c] = "ok"}

-----------------------------------------------------------------------------
(* The director (not under src/): which call may begin.                    *)

\* The objects a request names: the one it works on and the other argument.
Objects(c, op) ==
  CASE op \in {"create_stemcell", "create_disk"}  -> {<<c, c>>}
    [] op = "create_vm"        -> {c} \X Known("create_stemcell")
    [] op = "delete_stemcell"  -> {<<s, s>> : s \in Known("create_stemcell")}
    [] op \in {"delete_vm", "has_vm"} -> {<<v, v>> : v \in Known("create_vm")}
    [] op = "delete_disk"      -> {<<d, d>> : d \in Known("create_disk")}
    [] op \in {"attach_disk", "detach_disk"} ->
                                  Known("create_vm") \X Known("create_disk")
    [] OTHER                   -> {<<c, c>>}

\* Nothing running works on what the new call names; VMs may be cloned from
\* one stemcell at the same time.
NotBusy(op, o, a) ==
  \A d \in Cid : Running(d) =>
    /\ Obj(d) \notin {o, a}
    /\ Arg(d) # o
    /\ op # "create_vm" => Arg(d) # a

\* The place where each action's code begins.
First(op) ==
  CASE op = "create_stemcell" -> "extract"
    [] op = "create_vm"       -> "props"
    [] op \in {"delete_vm", "delete_stemcell"} -> "state"
    [] op = "has_vm"          -> "has"
    [] op = "create_disk"     -> "mkdisk"
    [] op = "delete_disk"     -> "lsdisk"
    [] op = "attach_disk"     -> "attach"
    [] op = "detach_disk"     -> "find"
    [] op = "info"            -> "info"
    [] op = "reboot_vm"       -> "panic"
    [] OTHER                  -> "notimpl"

\* The temp dirs of a process after main's NewAgentSettings.
NewAgentSettings == {"agent-settings"}

\* main: the agent-settings temp dir is made before the request is read.
Begin(c) ==
  /\ pc[c] = "idle"
  /\ Cardinality({d \in Cid : Running(d)}) < MaxRunning
  /\ \E op \in Ops : \E p \in Objects(c, op) :
       /\ Exclusive => NotBusy(op, p[1], p[2])
       /\ call' = [call EXCEPT ![c] = [op |-> op, obj |-> p[1], arg |-> p[2]]]
       /\ pc' = [pc EXCEPT ![c] = First(op)]
  /\ tmp' = [tmp EXCEPT ![c] = NewAgentSettings]
  /\ UNCHANGED <<vm, disks, resp, mem, envJson>>

-----------------------------------------------------------------------------
(* How a step of a process ends.                                           *)

GotoWith(c, l, m) == /\ pc' = [pc EXCEPT ![c] = l]
                     /\ mem' = [mem EXCEPT ![c] = m]
                     /\ UNCHANGED resp

Goto(c, l) == GotoWith(c, l, mem[c])

\* The process writes its response and exits, the goroutine with it.
Respond(c, r) == /\ pc' = [pc EXCEPT ![c] = "done"]
                 /\ mem' = [mem EXCEPT ![c] = FreshMemory(c)]
                 /\ resp' = [resp EXCEPT ![c] = r]

\* Every action returns at its first error; the dispatcher answers with the
\* error alone.  delete_vm also prints the error on stdout.
Fail(c) == Respond(c, IF Op(c) = "delete_vm" THEN "garbled" ELSE "error")

\* main's deferred HandlePanic exits with status 2 and no response.
Panic(c) == Respond(c, "none")

\* A step may also fail without a cause in the model, or be the last that the
\* process takes before it dies.
MayFail(c) == \/ "host" \in Faults /\ Fail(c)
              \/ "kill" \in Faults /\ Respond(c, "none")

\* One govc command on the record of VM n, which the host accepts if ok holds
\* and which makes the record r.  With a "host" fault it may fail, and its
\* reply may be lost after it took effect.
Govc(c, n, ok, r, Then) ==
  \/ /\ ok
     /\ vm' = [vm EXCEPT ![n] = r]
     /\ Then \/ MayFail(c)
  \/ /\ ~ok \/ "host" \in Faults
     /\ UNCHANGED vm
     /\ Fail(c)

\* The same for a command that only reads.
Ask(c, Then) == /\ Then \/ MayFail(c)
                /\ UNCHANGED vm

Local == <<call, tmp, envJson>>

-----------------------------------------------------------------------------
(* create_stemcell                                                         *)

\* ExtractOvf makes a temp dir, unpacks the tarball into it and looks for
\* image.ovf; the dir is there whichever step after the first fails.
ExtractOvf(c) ==
  /\ pc[c] = "extract"
  /\ \/ /\ tmp' = [tmp EXCEPT ![c] = @ \cup {"stemcell"}]
        /\ Goto(c, "import") \/ MayFail(c)
     \/ MayFail(c) /\ UNCHANGED tmp
  /\ UNCHANGED <<vm, disks, call, envJson>>

\* ExtractOvf has a value receiver: the parentTempDir it sets is that of a
\* copy, and Cleanup removes the directory named by the original's "".
StemcellParentTempDir == {}

ImportOvf(c) ==
  /\ pc[c] = "import"
  /\ \/ /\ vm' = [vm EXCEPT ![c] = Stemcell]
        /\ \/ /\ Respond(c, "ok")
              /\ tmp' = [tmp EXCEPT ![c] = @ \ StemcellParentTempDir]
           \/ MayFail(c) /\ UNCHANGED tmp
     \/ MayFail(c) /\ UNCHANGED <<vm, tmp>>
  /\ UNCHANGED <<disks, call, envJson>>

-----------------------------------------------------------------------------
(* create_vm                                                               *)

CloudProps(c) ==
  /\ pc[c] = "props"
  /\ Ask(c, Goto(c, "copy"))
  /\ UNCHANGED <<disks, Local>>

Copy(c) ==
  /\ pc[c] = "copy"
  /\ Govc(c, c, vm[Arg(c)].dir /\ ~vm[c].dir, CopyDatastoreStemcell(vm[c]),
          Goto(c, "register"))
  /\ UNCHANGED <<disks, Local>>

Register(c) ==
  /\ pc[c] = "register"
  /\ Govc(c, c, vm[c].dir, RegisterDatastoreVm(vm[c]), Goto(c, "hardware"))
  /\ UNCHANGED <<disks, Local>>

Hardware(c) ==
  /\ pc[c] = "hardware"
  /\ Govc(c, c, vm[c].reg, ConfigVMHardware(vm[c]), Goto(c, "resources"))
  /\ UNCHANGED <<disks, Local>>

Resources(c) ==
  /\ pc[c] = "resources"
  /\ Govc(c, c, vm[c].reg, SetVMResources(vm[c]), Goto(c, "network"))
  /\ UNCHANGED <<disks, Local>>

\* Mutant of Network: the agent is told a MAC generated anew.
NetworkNewMac(c) ==
  /\ pc[c] = "network"
  /\ mem[c].todo # {}
  /\ \E net \in mem[c].todo, mac \in Macs, told \in Macs :
       Govc(c, c, vm[c].reg, AddNetwork(vm[c], net, mac),
            GotoWith(c, "network",
                     [mem[c] EXCEPT !.todo = @ \ {net},
                                    !.env.nics = @ \cup {<<net, told>>}]))
  /\ UNCHANGED <<disks, Local>>

\* One turn of the loop over the networks map, in any order: a random MAC, an
\* adapter with it, and the MAC into updatedNetworks for the agent.
Network(c) ==
  /\ pc[c] = "network"
  /\ mem[c].todo # {}
  /\ \E net \in mem[c].todo, mac \in Macs :
       Govc(c, c, vm[c].reg, AddNetwork(vm[c], net, mac),
            GotoWith(c, "network",
                     [mem[c] EXCEPT !.todo = @ \ {net},
                                    !.env.nics = @ \cup {<<net, mac>>}]))
  /\ UNCHANGED <<disks, Local>>

\* After the loop, ForVM (into the env built up so far) and the ephemeral disk.
Ephemeral(c) ==
  /\ pc[c] = "network"
  /\ mem[c].todo = {}
  /\ Govc(c, c, vm[c].reg, CreateEphemeralDisk(vm[c]), Goto(c, "trunc"))
  /\ UNCHANGED <<disks, Local>>

\* StartVM: the power-on runs in a goroutine of its own.
StartVM(c) ==
  /\ pc[c] = "start"
  /\ GotoWith(c, "poll", [mem[c] EXCEPT !.pon = TRUE])
  /\ UNCHANGED <<vm, disks, Local>>

\* Mutant of PowerOn: the power-on is sent again when it had been accepted.
PowerOnAgain(c) ==
  /\ mem[c].pon
  /\ vm[c].reg /\ vm[c].power = "off"
  /\ vm' = [vm EXCEPT ![c] = PowerOnVm(@)]
  /\ UNCHANGED <<disks, pc, resp, mem, Local>>

\* The goroutine sends vm.power; its error is only logged.
PowerOn(c) ==
  /\ mem[c].pon
  /\ mem' = [mem EXCEPT ![c].pon = FALSE]
  /\ \/ /\ vm[c].reg /\ vm[c].power = "off"
        /\ vm' = [vm EXCEPT ![c] = PowerOnVm(@)]
     \/ /\ ~(vm[c].reg /\ vm[c].power = "off") \/ "host" \in Faults
        /\ UNCHANGED vm
  /\ UNCHANGED <<disks, pc, resp, Local>>

\* Mutant of Poll: waits for the VM to be on, which the question prevents.
PollForOn(c) ==
  /\ pc[c] = "poll"
  /\ Ask(c, Goto(c, IF VmState(vm[c]) = "state-on" THEN "answer" ELSE "poll"))
  /\ UNCHANGED <<disks, Local>>

\* The loop leaves only on a blocking question or an error of vm.info.
Poll(c) ==
  /\ pc[c] = "poll"
  /\ Ask(c, Goto(c, IF VmState(vm[c]) = "state-blocking-question"
                      THEN "answer" ELSE "poll"))
  /\ UNCHANGED <<disks, Local>>

\* vm.question: when the question is gone it prints "No pending question" on
\* the process's stdout and succeeds.
Answer(c) ==
  /\ pc[c] = "answer"
  /\ \/ /\ VmState(vm[c]) = "state-blocking-question"
        /\ Govc(c, c, TRUE, AnswerCopyQuestion(vm[c]), Respond(c, "ok"))
     \/ /\ VmState(vm[c]) \in {"state-on", "state-off"}
        /\ Ask(c, Respond(c, "garbled"))
     \/ /\ VmState(vm[c]) = "state-not-found"
        /\ Ask(c, Fail(c))
  /\ UNCHANGED <<disks, Local>>

-----------------------------------------------------------------------------
(* attach_disk and detach_disk, up to the environment they read.           *)

\* Mutant of Attach: the error of vm.disk.attach is not checked.
AttachUnchecked(c) ==
  /\ pc[c] = "attach"
  /\ Goto(c, "readenv")
  /\ \/ \E s \in Slots : /\ vm[Obj(c)].devs[s] = NoDisk
                         /\ vm' = [vm EXCEPT ![Obj(c)] = AttachDisk(@, Arg(c), s)]
     \/ "host" \in Faults /\ UNCHANGED vm
  /\ UNCHANGED <<disks, Local>>

Attach(c) ==
  /\ pc[c] = "attach"
  /\ \/ \E s \in Slots :
          /\ vm[Obj(c)].devs[s] = NoDisk
          /\ Govc(c, Obj(c), vm[Obj(c)].reg /\ Arg(c) \in disks,
                  AttachDisk(vm[Obj(c)], Arg(c), s), Goto(c, "readenv"))
     \/ /\ \A s \in Slots : vm[Obj(c)].devs[s] # NoDisk
        /\ Fail(c)
        /\ UNCHANGED vm
  /\ UNCHANGED <<disks, Local>>

\* Mutant of Find: any disk with a parent will do.
FindAny(c) ==
  /\ pc[c] = "find"
  /\ \E s \in Slots : /\ vm[Obj(c)].devs[s] # NoDisk
                      /\ GotoWith(c, "remove", [mem[c] EXCEPT !.slot = s])
  /\ UNCHANGED <<vm, disks, Local>>

\* getVMDiskName: the name of a device whose backing's parent is the disk;
\* with none the name is "" and device.remove fails on it.
Find(c) ==
  /\ pc[c] = "find"
  /\ \/ /\ vm[Obj(c)].reg
        /\ \E s \in Slots :
             /\ vm[Obj(c)].devs[s] = Arg(c)
             /\ GotoWith(c, "remove", [mem[c] EXCEPT !.slot = s])
     \/ /\ \/ ~vm[Obj(c)].reg
           \/ \A s \in Slots : vm[Obj(c)].devs[s] # Arg(c)
           \/ "host" \in Faults
        /\ Fail(c)
  /\ UNCHANGED <<vm, disks, Local>>

\* Mutant of Remove: the environment is not updated.
RemoveOnly(c) ==
  /\ pc[c] = "remove"
  /\ Govc(c, Obj(c), vm[Obj(c)].reg /\ vm[Obj(c)].devs[mem[c].slot] # NoDisk,
          DetachDisk(vm[Obj(c)], mem[c].slot), Respond(c, "ok"))
  /\ UNCHANGED <<disks, Local>>

Remove(c) ==
  /\ pc[c] = "remove"
  /\ Govc(c, Obj(c), vm[Obj(c)].reg /\ vm[Obj(c)].devs[mem[c].slot] # NoDisk,
          DetachDisk(vm[Obj(c)], mem[c].slot), Goto(c, "readenv"))
  /\ UNCHANGED <<disks, Local>>

\* Mutant of ReadEnv: the VM's own id is put into whatever is in the file.
ReadEnvForVM(c) ==
  /\ pc[c] = "readenv"
  /\ \/ /\ envJson \in Env
        /\ GotoWith(c, "trunc",
             [mem[c] EXCEPT !.env = [envJson EXCEPT !.vm = Obj(c), !.disks =
                IF Op(c) = "attach_disk" THEN @ \cup {Arg(c)} ELSE @ \ {Arg(c)}]])
     \/ envJson \notin Env /\ Fail(c)
  /\ UNCHANGED <<vm, disks, Local>>

\* Mutant of ReadEnv: whatever is in the file is taken for an environment.
ReadEnvUnchecked(c) ==
  /\ pc[c] = "readenv"
  /\ GotoWith(c, "trunc", [mem[c] EXCEPT !.env = envJson])
  /\ UNCHANGED <<vm, disks, Local>>

\* AgentEnvBytesFromFile panics when there is no file; FromBytes refuses what
\* is not JSON.  Then AttachPersistentDisk or DetachPersistentDisk.
ReadEnv(c) ==
  /\ pc[c] = "readenv"
  /\ \/ /\ envJson \in Env
        /\ GotoWith(c, "trunc",
             [mem[c] EXCEPT !.env = [envJson EXCEPT !.disks =
                IF Op(c) = "attach_disk" THEN @ \cup {Arg(c)} ELSE @ \ {Arg(c)}]])
     \/ envJson \in {Empty, Torn} /\ Fail(c)
     \/ envJson = NoFile /\ Panic(c)
  /\ UNCHANGED <<vm, disks, Local>>

-----------------------------------------------------------------------------
(* GenerateAgentEnvIso and UpdateVMIso, shared by create_vm, attach_disk    *)
(* and detach_disk.                                                        *)

\* ioutil.WriteFile opens /tmp/env.json with O_TRUNC, or returns an error,
\* which GenerateAgentEnvIso ignores; ...
Trunc(c) ==
  /\ pc[c] = "trunc"
  /\ \/ Goto(c, "write") /\ envJson' = Empty
     \/ "write" \in Faults /\ Goto(c, "mkiso") /\ UNCHANGED envJson
  /\ UNCHANGED <<vm, disks, call, tmp>>

\* ... and writes from offset 0: over bytes that another process has written
\* since, the tail of those may remain. A write that fails may be a short one.
Write(c) ==
  /\ pc[c] = "write"
  /\ Goto(c, "mkiso")
  /\ \/ envJson' = mem[c].env
     \/ envJson \notin {NoFile, Empty, mem[c].env} /\ envJson' = Torn
     \/ "write" \in Faults /\ envJson' \in {envJson, Torn}
  /\ UNCHANGED <<vm, disks, call, tmp>>

\* Mutant of MkIso: the new iso is uploaded without taking out the old one.
MkIsoThenUpload(c) ==
  /\ pc[c] = "mkiso"
  /\ Ask(c, GotoWith(c, "upload", [mem[c] EXCEPT !.iso = mem[c].env]))
  /\ UNCHANGED <<disks, Local>>

\* The iso in the call's own temp dir is made from memory, not from the file.
\* What WriteBuffer returns is dropped and the err of OpenFile tested again, so
\* that a damaged iso is used like a good one.
MkIso(c) ==
  /\ pc[c] = "mkiso"
  /\ \/ Ask(c, GotoWith(c, "disconnect", [mem[c] EXCEPT !.iso = mem[c].env]))
     \/ /\ "iso" \in Faults
        /\ GotoWith(c, "disconnect", [mem[c] EXCEPT !.iso = Torn])
        /\ UNCHANGED vm
  /\ UNCHANGED <<disks, Local>>

Disconnect(c) ==
  /\ pc[c] = "disconnect"
  /\ Govc(c, Obj(c), vm[Obj(c)].reg, DisconnectCdrom(vm[Obj(c)]), Goto(c, "eject"))
  /\ UNCHANGED <<disks, Local>>

Eject(c) ==
  /\ pc[c] = "eject"
  /\ Govc(c, Obj(c), vm[Obj(c)].reg, EjectCdrom(vm[Obj(c)]), Goto(c, "upload"))
  /\ UNCHANGED <<disks, Local>>

\* datastore.upload names the VM only in the path of the file.
UploadIso(c) ==
  /\ pc[c] = "upload"
  /\ Govc(c, Obj(c), TRUE, Upload(vm[Obj(c)], mem[c].iso), Goto(c, "insert"))
  /\ UNCHANGED <<disks, Local>>

Insert(c) ==
  /\ pc[c] = "insert"
  /\ Govc(c, Obj(c), vm[Obj(c)].reg, InsertCdrom(vm[Obj(c)]), Goto(c, "connect"))
  /\ UNCHANGED <<disks, Local>>

\* Mutant of Connect: the error of device.connect is not checked.
ConnectUnchecked(c) ==
  /\ pc[c] = "connect"
  /\ \/ vm' = [vm EXCEPT ![Obj(c)] = ConnectCdrom(@)]
     \/ "host" \in Faults /\ UNCHANGED vm
  /\ IF Op(c) = "create_vm" THEN Goto(c, "start") ELSE Respond(c, "ok")
  /\ tmp' = [tmp EXCEPT ![c] = @ \ {"agent-settings"}]
  /\ UNCHANGED <<disks, call, envJson>>

\* The temp dirs ds after AgentSettings.Cleanup.
Cleanup(ds) == ds \ {"agent-settings"}

\* The last command of UpdateVMIso, then Cleanup and, in CreateVM, StartVM.
Connect(c) ==
  /\ pc[c] = "connect"
  /\ Govc(c, Obj(c), vm[Obj(c)].reg, ConnectCdrom(vm[Obj(c)]),
          IF Op(c) = "create_vm" THEN Goto(c, "start") ELSE Respond(c, "ok"))
  /\ tmp' = [tmp EXCEPT ![c] = IF pc'[c] = "start" \/ resp'[c] = "ok"
                                 THEN Cleanup(@) ELSE @]
  /\ UNCHANGED <<disks, call, envJson>>

-----------------------------------------------------------------------------
(* delete_vm and delete_stemcell: DestroyVM                                *)

\* Mutant of DestroyState: a VM that is not in the inventory is a success.
DestroyStateGone(c) ==
  /\ pc[c] = "state"
  /\ Ask(c, CASE VmState(vm[Obj(c)]) = "state-on"        -> Goto(c, "stop")
             [] VmState(vm[Obj(c)]) = "state-not-found" -> Respond(c, "ok")
             [] OTHER                                   -> Goto(c, "poweroff"))
  /\ UNCHANGED <<disks, Local>>

DestroyState(c) ==
  /\ pc[c] = "state"
  /\ Ask(c, Goto(c, CASE VmState(vm[Obj(c)]) = "state-on"        -> "stop"
                      [] VmState(vm[Obj(c)]) = "state-not-found" -> "ls"
                      [] OTHER                                   -> "poweroff"))
  /\ UNCHANGED <<disks, Local>>

Stop(c) ==
  /\ pc[c] = "stop"
  /\ Govc(c, Obj(c), vm[Obj(c)].reg /\ vm[Obj(c)].power = "on",
          StopVM(vm[Obj(c)]), Goto(c, "poweroff"))
  /\ UNCHANGED <<disks, Local>>

\* vm.destroy first powers the VM off and ignores how that ends, ...
PowerOff(c) ==
  /\ pc[c] = "poweroff"
  /\ \/ /\ vm[Obj(c)].reg
        /\ \/ /\ vm[Obj(c)].power \in {"on", "asking"}
              /\ vm' = [vm EXCEPT ![Obj(c)] = StopVM(@)]
           \/ UNCHANGED vm
        /\ Goto(c, "destroy") \/ MayFail(c)
     \/ /\ ~vm[Obj(c)].reg \/ "host" \in Faults
        /\ Fail(c)
        /\ UNCHANGED vm
  /\ UNCHANGED <<disks, Local>>

\* ... then destroys it, which the host refuses unless the VM is off.
Destroy(c) ==
  /\ pc[c] = "destroy"
  /\ \E left \in BOOLEAN :
       Govc(c, Obj(c), vm[Obj(c)].reg /\ vm[Obj(c)].power = "off",
            DestroyVm(vm[Obj(c)], left), Goto(c, "ls"))
  /\ UNCHANGED <<disks, Local>>

DatastorePathExists(c) ==
  /\ pc[c] = "ls"
  /\ Ask(c, IF vm[Obj(c)].dir THEN Goto(c, "rm") ELSE Respond(c, "ok"))
  /\ UNCHANGED <<disks, Local>>

\* datastore.rm -f does not mind that the directory is gone.
DeleteDir(c) ==
  /\ pc[c] = "rm"
  /\ Govc(c, Obj(c), TRUE, DeleteDatastoreDir(vm[Obj(c)]), Respond(c, "ok"))
  /\ UNCHANGED <<disks, Local>>

-----------------------------------------------------------------------------
(* The other calls                                                         *)

\* Mutant of HasVM: an error of vm.info is taken for a VM that is not there.
HasVMErrorIsNo(c) ==
  /\ pc[c] = "has"
  /\ \/ Goto(c, IF VmState(vm[Obj(c)]) = "state-not-found"
                   THEN "absent" ELSE "present")
     \/ "host" \in Faults /\ Goto(c, "absent")
  /\ UNCHANGED <<vm, disks, Local>>

HasVM(c) ==
  /\ pc[c] = "has"
  /\ Ask(c, Goto(c, IF VmState(vm[Obj(c)]) = "state-not-found"
                      THEN "absent" ELSE "present"))
  /\ UNCHANGED <<disks, Local>>

\* ServeOnce writes what HasVM found, which may be out of date by then.  (The
\* other responses are part of the step that decides them: what they say is
\* not undone by other calls.)
ServeFound(c) ==
  /\ pc[c] \in {"present", "absent"}
  /\ Respond(c, IF pc[c] = "present" THEN "yes" ELSE "no")
  /\ UNCHANGED <<vm, disks, Local>>

CreateDisk(c) ==
  /\ pc[c] = "mkdisk"
  /\ \/ disks' = CreateDiskFile(disks, c) /\ (Respond(c, "ok") \/ MayFail(c))
     \/ UNCHANGED disks /\ MayFail(c)
  /\ UNCHANGED <<vm, Local>>

DiskPathExists(c) ==
  /\ pc[c] = "lsdisk"
  /\ Ask(c, IF Obj(c) \in disks THEN Goto(c, "rmdisk") ELSE Respond(c, "ok"))
  /\ UNCHANGED <<disks, Local>>

\* The host may refuse to remove a disk whose child is attached.
DeleteDisk(c) ==
  /\ pc[c] = "rmdisk"
  /\ \/ disks' = disks \ {Obj(c)} /\ (Respond(c, "ok") \/ MayFail(c))
     \/ /\ InUse(Obj(c)) \/ "host" \in Faults
        /\ Fail(c)
        /\ UNCHANGED disks
  /\ UNCHANGED <<vm, Local>>

\* info, set_vm_metadata
Info(c) == /\ pc[c] = "info"
           /\ Respond(c, "ok")
           /\ UNCHANGED <<vm, disks, Local>>

\* reboot_vm, get_disks, has_disk, calculate_vm_cloud_properties
Unsupported(c) == /\ pc[c] = "panic"
                  /\ Panic(c)
                  /\ UNCHANGED <<vm, disks, Local>>

\* A malformed request, or a method the action factory does not know.
NotImplemented(c) == /\ pc[c] = "notimpl"
                     /\ Fail(c)
                     /\ UNCHANGED <<vm, disks, Local>>

-----------------------------------------------------------------------------
(* Faults of the environment                                               *)

Kill(c) == /\ "kill" \in Faults
           /\ Running(c)
           /\ Respond(c, "none")
           /\ UNCHANGED <<vm, disks, Local>>

Reboot == /\ "reboot" \in Faults
          /\ \A c \in Cid : ~Running(c)
          /\ envJson' = NoFile
          /\ tmp' = [c \in Cid |-> {}]
          /\ UNCHANGED <<vm, disks, pc, call, resp, mem>>

\* A power-on task of the host.
HostStep(n) == /\ HostAsks(n) \/ HostBoots(n)
               /\ UNCHANGED <<disks, pc, resp, mem, Local>>

PowerOnFails(n) == /\ "poweron" \in Faults
                   /\ HostFails(n)
                   /\ UNCHANGED <<disks, pc, resp, mem, Local>>

\* The director has nothing (more) to call.
Quiet == /\ \A c \in Cid : ~Running(c)
         /\ UNCHANGED vars

-----------------------------------------------------------------------------
CreateVMStep(c) ==
  \/ CloudProps(c) \/ Copy(c) \/ Register(c) \/ Hardware(c) \/ Resources(c)
  \/ Network(c) \/ Ephemeral(c) \/ StartVM(c) \/ Poll(c) \/ Answer(c)

IsoStep(c) ==
  \/ Trunc(c) \/ Write(c) \/ MkIso(c) \/ Disconnect(c) \/ Eject(c)
  \/ UploadIso(c) \/ Insert(c) \/ Connect(c)

DestroyStep(c) ==
  \/ DestroyState(c) \/ Stop(c) \/ PowerOff(c) \/ Destroy(c)
  \/ DatastorePathExists(c) \/ DeleteDir(c)

(* The methods of the CPI, each with the steps its code consists of.       *)

CreateStemcellCall(c) == Op(c) = "create_stemcell" /\ (ExtractOvf(c) \/ ImportOvf(c))
DeleteStemcellCall(c) == Op(c) = "delete_stemcell" /\ DestroyStep(c)
CreateVMCall(c) == Op(c) = "create_vm" /\ (CreateVMStep(c) \/ IsoStep(c))
DeleteVMCall(c) == Op(c) = "delete_vm" /\ DestroyStep(c)
HasVMCall(c) == Op(c) = "has_vm" /\ (HasVM(c) \/ ServeFound(c))
CreateDiskCall(c) == Op(c) = "create_disk" /\ CreateDisk(c)
DeleteDiskCall(c) == Op(c) = "delete_disk" /\ (DiskPathExists(c) \/ DeleteDisk(c))
AttachDiskCall(c) == /\ Op(c) = "attach_disk"
                     /\ Attach(c) \/ ReadEnv(c) \/ IsoStep(c)
DetachDiskCall(c) == /\ Op(c) = "detach_disk"
                     /\ Find(c) \/ Remove(c) \/ ReadEnv(c) \/ IsoStep(c)

\* What the factory's CPI has a method for, and what it has not.
Step(c) == \/ CreateStemcellCall(c) \/ DeleteStemcellCall(c) \/ CreateVMCall(c)
           \/ DeleteVMCall(c) \/ HasVMCall(c) \/ CreateDiskCall(c)
           \/ DeleteDiskCall(c) \/ AttachDiskCall(c) \/ DetachDiskCall(c)
           \/ Info(c) \/ Unsupported(c) \/ NotImplemented(c)

Next == \/ \E c \in Cid : \/ Begin(c) \/ Step(c) \/ PowerOn(c) \/ Kill(c)
                          \/ HostStep(c) \/ PowerOnFails(c)
        \/ Reboot
        \/ Quiet

Spec == Init /\ [][Next]_vars

\* The scheduler runs every process and goroutine, and the host's power-on
\* tasks advance.
Fairness == \A c \in Cid : /\ WF_vars(Step(c))
                           /\ WF_vars(PowerOn(c))
                           /\ WF_vars(HostStep(c))

FairSpec == Spec /\ Fairness

-----------------------------------------------------------------------------
(* Safety                                                                  *)

\* A successful delete_vm or delete_stemcell leaves neither an inventory entry
\* nor a datastore directory, whatever DestroyVM found (powered on, off,
\* asking, gone, or the rest of an earlier delete that failed halfway), and
\* nothing brings them back.
DeletedIsGone ==
  \A c \in Cid :
    Op(c) \in {"delete_vm", "delete_stemcell"} /\ resp[c] = "ok" =>
      ~vm[Obj(c)].reg /\ ~vm[Obj(c)].dir

\* From the moment StartVM is reached until create_vm answers, the new VM has
\* all its hardware, an adapter for every network, and a mounted iso with its
\* own environment, whose MACs are those of the adapters.
StartsWithOwnEnv ==
  \A c \in Cid : pc[c] \in {"start", "poll", "answer"} =>
    /\ vm[c].cfg = {"hardware", "resources", "ephemeral"}
    /\ {p[1] : p \in vm[c].nics} = Nets
    /\ Mounted(vm[c])
    /\ vm[c].iso = [vm |-> c, disks |-> {}, nics |-> vm[c].nics]

\* Only UpdateVMIso's own sequence changes an iso, and never while the VM has
\* it mounted: the agent does not see its environment change under it.  This
\* needs the director to run one call per VM at a time.
IsoKept ==
  Exclusive => \A n \in Cid : Mounted(vm[n]) => vm'[n].iso = vm[n].iso
IsoUntouchedWhileMounted == [][IsoKept]_vars

\* A VM the director knows of has its environment mounted, unless an
\* attach_disk or detach_disk call on it is under way or did not succeed.
EnvStaysMounted ==
  \A v \in Known("create_vm") :
    vm[v].reg /\ ~Mounted(vm[v]) =>
      \E c \in Cid : /\ Op(c) \in {"attach_disk", "detach_disk"}
                     /\ Obj(c) = v
                     /\ resp[c] # "ok"

\* When attach_disk succeeds the VM has a device for the disk and its mounted
\* environment names the disk; when detach_disk succeeds the mounted
\* environment does not name it.
AgentTold ==
  Exclusive => \A c \in Cid : pc[c] = "connect" /\ resp'[c] = "ok" =>
    /\ Mounted(vm'[Obj(c)])
    /\ vm'[Obj(c)].iso \in Env
    /\ (Op(c) = "attach_disk") <=> (Arg(c) \in vm'[Obj(c)].iso.disks)
    /\ Op(c) = "attach_disk" => \E s \in Slots : vm'[Obj(c)].devs[s] = Arg(c)
DiskCallsTellTheAgent == [][AgentTold]_vars

\* The child device of a disk leaves a VM only with the VM itself, or by a
\* detach_disk of that disk from that VM: the device name read by device.info
\* still denotes that disk's device in device.remove, a command later, while
\* calls on other VMs run between the two and a process may die there with the
\* name in its memory.  It is the director's lock on the VM that keeps the slot
\* from being reused.  A second device of the disk, left by an attach_disk that
\* was tried again, may stay.
DeviceKept ==
  Exclusive => \A n \in Cid, s \in Slots :
    LET d == vm[n].devs[s] IN
    d # NoDisk /\ vm'[n].devs[s] # d =>
      \/ ~vm'[n].reg
      \/ \E c \in Cid : /\ pc[c] = "remove" /\ pc'[c] # "remove"
                        /\ Obj(c) = n /\ Arg(c) = d
DetachRemovesItsDisk == [][DeviceKept]_vars

\* Calls on different VMs meet in /tmp/env.json, and attach_disk or detach_disk
\* on one VM may so find there the environment of another.  What an iso holds
\* is still one VM's environment, id and MACs alike, however the calls
\* overlap or die between opening the file and writing it; and only a disk call
\* on a VM, never create_vm, gives it another's.
IsosAreOneVMs ==
  \A n \in Cid : vm[n].iso \in Env =>
    LET e == vm[n].iso IN
    /\ vm[e.vm].reg => e.nics = vm[e.vm].nics
    /\ e.vm # n => \E c \in Cid : /\ Op(c) \in {"attach_disk", "detach_disk"}
                                  /\ Obj(c) = n

OnlyVM(n) == \A c \in Cid : Op(c) = "create_vm" => c = n

\* While only one VM has ever been created, a disk its iso names is attached
\* to it, unless a detach_disk of that disk is under way or did not succeed.
\* This needs writes of /tmp/env.json not to fail: the error is ignored, and a
\* detach_disk that leaves the old list there succeeds; the next attach_disk
\* then tells the agent of the detached disk again.
ListedDisksAreAttached ==
  \A n \in Cid : OnlyVM(n) /\ vm[n].reg /\ vm[n].iso \in Env =>
    \A d \in vm[n].iso.disks :
      \/ \E s \in Slots : vm[n].devs[s] = d
      \/ \E c \in Cid : /\ Op(c) = "detach_disk" /\ Obj(c) = n /\ Arg(c) = d
                        /\ resp[c] # "ok"

\* The environment a VM has is taken from it only by a call that holds a whole
\* new one, with the disk listed or not as it was asked: /tmp/env.json found
\* missing, empty, or a mixture of two files, because calls overlapped, died
\* between opening it and writing it, or the machine restarted, costs no VM
\* its environment.
EnvGivenUp ==
  \A n \in Cid : Mounted(vm[n]) /\ vm'[n].reg /\ ~Mounted(vm'[n]) =>
    \E c \in Cid : /\ pc[c] = "disconnect" /\ Obj(c) = n
                   /\ mem[c].iso \in Env
                   /\ (Op(c) = "attach_disk") <=> (Arg(c) \in mem[c].iso.disks)
EnvGivenUpForNew == [][EnvGivenUp]_vars

\* stemcell_client.go: Cleanup removes the temp dir that ExtractOvf made.
StemcellTempDirRemoved ==
  \A c \in Cid : Op(c) = "create_stemcell" /\ resp[c] = "ok" =>
    "stemcell" \notin tmp[c]

\* agent_settings.go:46: an iso that cannot be written is an error of
\* GenerateAgentEnvIso, so no damaged iso is ever uploaded.
NoDamagedIso == \A n \in Cid : vm[n].iso # Torn

\* integration/main_test.go: what a call writes on stdout is a JSON document.
StdoutIsJSON == \A c \in Cid : resp[c] # "garbled"

-----------------------------------------------------------------------------
(* Liveness                                                                *)

\* rpc/interfaces.go: every request that is dispatched is answered.
EveryCallReturns == \A c \in Cid : Running(c) ~> pc[c] = "done"
=============================================================================
