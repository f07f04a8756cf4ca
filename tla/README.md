# TLA+ verification of the BOSH ESXi CPI

The BOSH ESXi CPI lets a BOSH director manage VMs and disks on one stand-alone
ESXi host. The director starts the `cpi` executable once per call. The process
reads one JSON request from stdin, performs it with a sequence of `govc`
commands, writes one JSON response to stdout and exits. It keeps no state of
its own: everything lives on the ESXi host, except one file,
`/tmp/env.json`, that survives from call to call on the CPI's machine.

That design is what makes the program hard to test. A call is a sequence of up
to fifteen remote commands without a transaction; the next call sees whatever
the last one left; calls for different VMs run at the same time; and the
environment of a VM (what its agent is told: its id, its networks' MAC
addresses, its disks) exists in three places (process memory, `/tmp/env.json`,
an iso on the datastore) that are updated one after the other.

Paths below are relative to `src/src/bosh-esxi-cpi/`.

## 1. Inventory

| Component | State | Operations | Model |
|---|---|---|---|
| ESXi host and datastore (external) | VM inventory, power state, cdrom, NICs, disk devices; directories, `/env/env-<vm>.iso`, `<disk>.vmdk` | the commands of `govc/govc_client.go` | `EsxiHost` |
| govc client, `govc/govc_client.go` | none | `ImportOvf`, `CloneVM`, `SetVMNetworkAdapter`, `SetVMResources`, `UpdateVMIso`, `StartVM`, `HasVM`, `CreateEphemeralDisk`, `CreateDisk`, `AttachDisk`, `DetachDisk`, `DestroyDisk`, `DestroyVM` | `Cpi`; `StartVM` also as `PowerOnHandshake`; what the disk methods do to data as `DiskLineage` |
| CPI actions, `action/` | locals of one call | one method per CPI call | `Cpi`; what they promise together as `Contract` |
| agent settings, `vm/agent_settings.go` | `/tmp/env.json`, a temp dir per process | `GenerateAgentEnvIso`, `AgentEnvBytesFromFile`, `GenerateMacAddress`, `Cleanup` | `Cpi` |
| stemcell client, `stemcell/stemcell_client.go` | a temp dir per import | `ExtractOvf`, `Cleanup` | `Cpi` |
| process and RPC, `main/main.go` and vendored `bosh-cpi-go/rpc` | stdin, stdout | dispatch, result or error, panic handler | `Cpi` (outcomes) |
| agent environment, vendored `bosh-cpi-go/apiv1` | one value | `ForVM`, `FromBytes`, `Attach`/`DetachPersistentDisk` | `Env` in `EsxiHost`, `ReadEnv` in `Cpi` |
| govc runner, `govc/govc_runner.go`, and the vendored govc commands `vm.power`, `vm.info`, `vm.question` | the global `os.Stdout`, a pipe per command | `CliCommand` | one step in `Cpi`; its inside is `GovcRunner` |
| configuration, `config/`, `govc/govc_config.go` | constants | load | not modelled: pure data |
| VM properties, `vm/vm_props.go` | sizes | `NewVMProps`, never called | not modelled |
| job templates, CI scripts, fakes | | | not modelled: no behaviour of the CPI |

How they interact: the director calls an action; the action calls the govc
client, the agent settings and the agent environment; the govc client calls
the runner, which runs one command against the host. Inside one process there
is one goroutine besides the main one: `StartVM` sends the power-on from a
goroutine while the main one polls the VM for the question the host asks about
a copied VM (`govc_client.go:127-159`). Processes share the host and
`/tmp/env.json`, with no lock on either.

What is hard, and what makes each part correct:

* **Partial failure.** Every method returns at its first error and undoes
  nothing. Correct means that what is left is something a later call can deal
  with: a repeated delete still cleans up (`DeletedIsGone`); a VM is without an
  environment only if a disk call on it runs or has failed (`EnvStaysMounted`,
  which exempts such a VM for good), and the next disk call that succeeds
  mounts one again (`DiskCallsTellTheAgent`); a disk that is listed is attached
  unless its detach failed (`ListedDisksAreAttached`).
* **State read, then used.** `DestroyVM` acts on a state read before;
  `DetachDisk` removes a device by a name read in a command before
  (`DetachRemovesItsDisk`).
* **Order inside a call.** The iso is replaced only while it is out of the
  cdrom (`IsoUntouchedWhileMounted`); a VM is started only when complete
  (`StartsWithOwnEnv`).
* **A file shared by all calls.** `/tmp/env.json` is truncated and written in
  two system calls, errors ignored, by any process, for any VM, and read by the
  next disk call, whichever VM that is for. What it holds is used whole or not
  at all (`IsosAreOneVMs`), and finding it damaged costs no VM the environment
  it has (`EnvGivenUpForNew`).
* **Waiting without a limit.** `StartVM`'s loop (`EveryCallReturns`,
  `RespondsUnlessOff`).
* **Two goroutines and one global.** Both run `CliCommand`, which puts a pipe
  into `os.Stdout` for a moment, without a lock; only a sleep of 300 ms keeps
  them apart (`StdoutNeverCaptured`, `ReadsOwnOutput`, `StdoutRestored`,
  `OneResponse`, `CommandsAreAtomic`).
* **Answers that are out of date.** `has_vm` reads once and answers later, when
  a `delete_vm` may have succeeded: what it may still not do is find a VM
  reported gone, or miss one that was made and not deleted (`HasVMAgrees`). The
  question a poll saw may be gone when it is answered (`StartsAreHandshakes`).
* **Long histories of a disk.** Every attachment makes a new child of the disk
  in the VM's directory, detaching keeps the file, and every disk gets the same
  hint (`AgentHasItsDisk`, `ParentsKept`, `WrittenFilesKept`).

`PROJECT.json` lists each hazard at its line.

## 2. Modules

`EsxiHost` holds the shared memory: `vm`, one record per name (inventory entry,
directory, power, cdrom, iso, adapters, hardware, devices), and `disks`. A
govc command is an operator from the old record to the new one, with the
client's helper's name (`ConnectCdrom`, `DetachDisk`, `DestroyVm`, ...);
`VmState` is `vmState` with its precedence of the pending question over the
power state. The host acts by itself in `HostAsks`, `HostBoots` and
`HostFails`: a power-on task of a copied VM first asks whether the VM was
moved or copied, boots after the answer, and may fail.

`Cpi` extends it with the processes. A call, its process and the uuid the
process would generate are one element of `Cid`: in `create_vm` the call `c`
makes the VM `c`. `pc[c]` is the place in the code; each govc command and each
file operation is one step, so any other process, and the host, can act
between two commands. The state of a process that matters between two steps is
`mem[c]`: the agent environment, the networks still to visit, the device name
found, and whether the power-on goroutine has yet to run. A process that exits
loses it. `resp[c]` is what the director received.

The response is part of the step that decides it, since what it says ("made",
"gone", "failed") is not undone by other calls. `has_vm` is the exception, as
its answer is about a state that other calls change: `HasVM` looks, `ServeFound`
answers.

| Code | Actions of `Cpi` |
|---|---|
| `main`, dispatcher | `Begin`, `Respond`, `Fail`, `Panic`, `NotImplemented`, `Unsupported`, `Info` |
| `create_stemcell` | `ExtractOvf`, `ImportOvf` |
| `create_vm` | `CloudProps`, `Copy`, `Register`, `Hardware`, `Resources`, `Network` (one turn of the loop), `Ephemeral`, the iso steps, `StartVM`, `PowerOn` (the goroutine), `Poll`, `Answer` |
| `GenerateAgentEnvIso` | `Trunc`, `Write`, `MkIso` |
| `UpdateVMIso` | `Disconnect`, `Eject`, `UploadIso`, `Insert`, `Connect` |
| `attach_disk` | `Attach`, `ReadEnv`, the iso steps |
| `detach_disk` | `Find`, `Remove`, `ReadEnv`, the iso steps |
| `DestroyVM` (`delete_vm`, `delete_stemcell`) | `DestroyState`, `Stop`, `PowerOff` and `Destroy` (the two tasks of vm.destroy), `DatastorePathExists`, `DeleteDir` |
| `create_disk`, `delete_disk`, `has_vm` | `CreateDisk`, `DiskPathExists`, `DeleteDisk`, `HasVM`, `ServeFound` |
| environment | `Kill`, `Reboot`, `HostStep`, `PowerOnFails`, `Quiet` |

The constant `Faults` says which faults an instance has: `"host"` (a command
fails, or takes effect and its reply is lost), `"write"` (`/tmp/env.json`
cannot be opened, or is written in part or not at all, which the code ignores),
`"iso"` (the iso is written damaged, which it ignores too), `"kill"` (a process
dies before a step, or when its last command has taken effect: `MayFail`),
`"poweron"` (the host's task fails after it was accepted) and `"reboot"` (the
CPI's machine restarts with an empty `/tmp`). `Exclusive` says whether the
director serialises the calls that name one VM or disk, as it does with its
locks; `FALSE` drops even that.

Data that is left out: sizes, URLs, datastore and network names, text of
messages, logging, and the bytes of every file. An environment is the record
of the VM's id, its disks and its MAC addresses.

`Contract` is what the director may rely on, in terms of things (stemcells, VMs
and disks) of which the host has nothing, a part or the whole: a create makes
its thing, a thing that was reported is whole until a delete of it begins, only
a delete takes anything away, and after a delete that succeeded there is
nothing, for ever. `CpiContract` is the refinement mapping: a thing is named by
the call that creates it, its status is computed from the calls and their
responses, its presence from inventory, directories and disk files.
`HasVMAgrees` is stated there because it compares with that status what
`has_vm` finds when it looks ("present" is never found of a thing that is gone)
and what it answers later ("no" is never said of a thing that exists).

`PowerOnHandshake` is `StartVM` with every command as one step: the power-on is
sent once, a question that was seen is answered once, success is reported only
then. It has two refinements. In `CpiHandshake` the handshake of each
`create_vm` is a part of `Cpi`, with all other processes around it, so `Cpi`
may be read as a composition of handshakes. In `GovcRunnerAtomic` it is
implemented by `GovcRunner`, in which a command is a dozen steps: this is what
allows `Cpi` to take a govc command as one step at all.

`GovcRunner` is one process inside `StartVM`. The threads are the two
goroutines; `Save`, `Swap`, `NewOutputFlag`, `Look`, `Restore` are the reads
and writes of `os.Stdout` in `captureOutputFlagStdout`; `RunPower`, `RunInfo`,
`RunQuestion`, `TaskEnds`, `Write` and `PrintNoise` what the commands do with
the host and with their output (`AnswerReplyLost` is an answer to the question
that takes effect and is reported as failed); `ReadPower`, `ReadInfo`,
`ReadQuestion` are `readOutputFlagStdout` and what the caller does with it;
`Sleep` is the loop's sleep and `Respond` the CLI's answer. Pipes are finite
and reused when no variable refers to them. A command that writes more than its
pipe holds is `Blocked`; a process that is blocked or gone is `Stopped`. `late`
is a constant of a behaviour: it says whether the goroutine may still be in its
capture when the sleep is over. Where it is `FALSE` the sleep orders the
captures, as the code's author expects; where it is `TRUE` they interleave in
every way.

`DiskLineage` follows the data of persistent disks over a long history of
calls. A call is one step with its outcomes (the interleaving of commands is
`Cpi`'s matter): `vm.disk.attach` with `link=true` puts a new, blank child of
the disk on the lowest free unit, `device.remove` with `keep=true` leaves the
child's file, `delete_vm` removes directory and devices. A failing disk call
may leave the device changed, `/tmp/env.json` written or not, and the iso as it
was; the director then may try it again. External, from how the code uses it:
the numbering of units, the choice of a device among several with the same
parent, and the agent, which writes to the disk at the hint. The director has
one VM at a time (`/tmp/env.json` serves one) and attaches up to `MaxAttached`
disks.

`MCCpi`, `MCGovcRunner` and `MCDiskLineage` declare what the configurations
need. `CpiProofs`, `CpiContractProofs`, `CpiStartProofs`, `CpiDiskProofs` and
`CpiEnvProofs` (each extends the one before), `GovcRunnerProofs`,
`GovcRunnerAtomicProofs` and `DiskLineageProofs` hold the proofs. The operators
commented "Mutant of ..." are wrong versions of the definition that follows
them; the property each is meant to break is listed in `PROJECT.json`.

## 3. Runs

| Run | Instance | Checks |
|---|---|---|
| `disks` | five calls, one at a time, two slots, any command may fail or lose its reply, up to two of the calls fail | `EnvStaysMounted`, `ListedDisksAreAttached`, `DiskCallsTellTheAgent` |
| `deletes` | the create and delete methods and `has_vm`, three calls at a time, even on the same VM, failing commands and power-on tasks, processes killed; one of the calls fails or dies | `DeletedIsGone`, `KeepsContract`, `HasVMAgrees`, `StartsAreHandshakes` |
| `concurrent` | four calls, two at a time, on different VMs and disks, two MACs, one process killed at any step, machine restarted | `TypeOK`, `IsosAreOneVMs`, `IsoUntouchedWhileMounted`, `EnvGivenUpForNew` |
| `locks` | five calls, two at a time, on different VMs and disks, two slots, one process killed | `DetachRemovesItsDisk` |
| `create` | two `create_vm` at once, two networks, two MACs, silent write failures, failing power-on | `StartsWithOwnEnv` |
| `returns` | every method, two calls at a time, no faults, fair | `EveryCallReturns` |
| `runner` | one `StartVM`, sleep long enough or not, five pipes that hold two pieces of output, outputs of up to three, failing commands and power-on task, lost replies, fair | `TypeOK`, `StdoutNeverCaptured`, `OneResponse`, `ReadsOwnOutput`, `StdoutRestored`, `CommandsAreAtomic`, `RespondsUnlessOff` |
| `lineage` | two VMs, two disks, three units, two writes, one disk attached at a time, calls failing halfway and tried again | `TypeOK`, `AgentHasItsDisk`, `ParentsKept`, `WrittenFilesKept` |
| `hang`, `stdout`, `tempdir`, `tornIso` | violations, see section 5 | |

The bounds. Five calls are the shortest history with a VM, two disks and an
attach and a detach, or a VM, a disk, an attach that fails, its retry, and a
detach; two VMs, a disk and two disk calls also fit. Two slots let a disk be
attached twice, which a retried attach does, and let a third attach find the
controller full. Three overlapping calls are a VM and two deletes of it, or a
delete of the stemcell it is being cloned from. How many calls may fail or die
is bounded (`AtMostOneFails`, `AtMostTwoFail` in `MCCpi`: a state beyond the
bound is checked and not continued). In `disks` two failures are an attach and
its retry, or the attach and the detach of one disk, and three calls that
succeed beside them; in `deletes` one is a delete that stops halfway while
another goes on, or is repeated. In `concurrent` and `locks` a call that fails
because it found a damaged file counts too, but the steps up to that failure
are all taken, and with one dead process the file is already empty, missing or
a mixture. The theorems of section 4 have no such bound. Two concurrent
processes suffice for the shared file and the iso, since both hazards are
between one writer and one other. `concurrent` has two MACs so that two VMs'
environments differ in more than the id, and room for two VMs, a disk and a
disk call; `locks` has a fifth call, for a `detach_disk` beside the `create_vm`
of another VM, a VM with a second disk, or an attachment or a detachment tried
again. `CallSymmetry` permutes the calls that have not begun and their uuids,
and the MACs, on which `Cpi` never depends except for equality; it is not used
in the runs that check liveness. Deadlock checking is on for `Cpi` and
`GovcRunner`; there `Quiet` is the director having nothing to call, and
`Stopped` a process that is gone or blocked. In `DiskLineage` it is off: the
director may simply stop.

In `runner` five pipes are enough: a goroutine refers to at most two and
`os.Stdout` to one. `MaxOutput` is one more than `Capacity`, so the run has
outputs that leave room, that just fit and that do not: the last block the
process for ever, since `CliCommand` reads the pipe only after the command has
run (section 5). In `lineage` three units let a retried attachment leave a
device behind and still attach again, two disks let one take the place of the
other, two writes let a blank child be told from one with older data, and the
second VM meets what the first has left in `/tmp/env.json`. VMs and disks are
interchangeable (`CidSymmetry`).

Some properties say in their own text where they end. `ListedDisksAreAttached`
speaks of a CPI that has created one VM: from the second VM on, `attach_disk`
and `detach_disk` read the environment of whichever VM was written last, which
is why `IsosAreOneVMs` says that an iso holds one VM's environment and not that
it is the right one. `IsoUntouchedWhileMounted`, `DiskCallsTellTheAgent`,
`DetachRemovesItsDisk` and `EnvGivenUpForNew` need `Exclusive`: without the
director's locks, two calls on one VM interleave their cdrom and device
commands. No property counts the devices of a disk: the second one that a
retried `attach_disk` leaves is outside all of them. `ReadsOwnOutput` and
`StdoutRestored` speak of a sleep that is long enough, `AgentHasItsDisk` and
`ParentsKept` of a VM on which no call has failed halfway. `RespondsUnlessOff`
leaves three ways out: the VM stays off and is polled for ever, an output does
not fit into a pipe, and, when the sleep was too short, the panic of
`captureOutputFlagStdout`.

Fairness (`FairSpec`, in `returns` and `hang`): weak fairness of each process's
step, of the power-on goroutine and of the host's task. Processes and
goroutines are scheduled by the operating system and the Go runtime, and a
power-on task either advances or (with `"poweron"`) fails. `runner` assumes the
same of the two goroutines separately, as the Go scheduler is preemptive
enough for both to run while either waits, and that the host's task advances;
nothing makes it fail. No fairness is assumed of the director or of any fault.

## 4. Proofs

Checked by TLAPS for every value of the constants: any sets of calls, networks,
addresses and slots, every `MaxRunning`, every set of faults and `Exclusive`
either way; any number of pipes and any capacity; any number of VMs, disks,
units and writes. The assumptions are those of the modules:
`NoDiskAssumption` and `FileAssumption` (the null values are no members of what
they stand beside), `CpiAssumption`, `RunnerAssumption` and
`LineageAssumption` (the typing of the parameters; the hint is the lowest of
the units; the set of disks is finite).

* `TypeCorrect` (`CpiProofs`): `Spec => []TypeOK`. `TypeOK` is inductive by
  itself. The steps that need an argument are `ReadEnv` (only a whole
  environment gets from the file into memory) and the record commands of
  `EsxiHost`, collected in `CommandTypes`.
* `DeletesAreFinal` (`CpiProofs`): `Spec => []DeletedIsGone`. This is not
  inductive: a step of some other process might register the VM again, and
  "rm" might be reached with the VM in the inventory. `DeleteInv` adds
  - `CallInv`: a process stays within the code of its method, a response means
    it has exited, what a `create_*` call makes is named after it, and what is
    deleted was made by a call that answered "ok", hence exited;
  - `UnregisteredInv`: at "ls" and "rm" the VM is out of the inventory.

  `StepMoves` gives the first for every step. `StepAppears` says that only
  the creating call can turn `reg` or `dir` on; since it has exited, what
  is gone stays gone (`GoneStaysGone`), and only the deleting call's own steps
  remain (`DestroyOwn`). `DeleteInvariant` is `Spec => []DeleteInv`.

* `ImplementsContract` (`CpiContractProofs`): `Spec => KeepsContract`, the
  refinement. `ContractInv` adds to `DeleteInv` what the mapping needs:
  `KindInv` (the names of VMs and stemcells and those of disks do not mix),
  `DiskDeleteInv` (a successful `delete_disk` is final) and `BuiltInv` (what
  `create_vm` has built at each of its steps). Each step has one object;
  `StepHost` says how the step may change it, and that it changes no other;
  `StatusMoves` says the same of the status; `AllowedIsStep` turns the two into
  a step of `Contract`. `ContractInvariant` is `Spec => []ContractInv`.
* `HasVMAnswers` (`CpiContractProofs`): `Spec => HasVMAgrees`. By the
  refinement the contract's own invariant (`Promises`: what is promised is
  whole, what is gone is not there) holds of the CPI at the moment `has_vm`
  looks (`HasVMLooks`). Between the look and the answer any other call may run,
  so the answer "no" needs an invariant: a `has_vm` that did not find its VM
  has found that a delete of it had begun (`AbsentInv`), and a delete that has
  begun stays begun (`BegunStays`). There is no such invariant for "yes", and
  the property claims nothing of it after the look.
* `StartedComplete` (`CpiStartProofs`): if writing the iso cannot fail silently
  (`"iso" \notin Faults`), `Spec => []StartsWithOwnEnv`. `BuildInv` says of each
  label of `create_vm` what its steps have done by then (`Ready`: networks,
  hardware, environment and iso, power). It is kept because the director does
  not know a VM before its `create_vm` has answered, so until then no other call
  has the VM as its object (`NotTouched`). With `"iso"` it is false, which is
  the finding `tornIso`.
* `StartsImplementHandshakes` (same module): `Spec => StartsAreHandshakes`, with
  every other process, failure and kill around the handshake. The same invariant
  gives what is needed: the goroutine has something to send only while the main
  one polls, and the VM is off until it has been sent (`NotPoweredYet`).
* `OnlyThePollWaits` (same module): `Spec => [][NeverBack]_vars`, the part of
  `EveryCallReturns` that is a safety property, for every fault. `StepsLeft`
  orders the places of the code; a step of a call goes down in it, takes one of
  the networks that are left, or polls a VM with no question pending, and no
  other step moves the call. So a process that runs on for ever is a
  `create_vm` in the loop of `StartVM`: as long as every command returns, the
  finding `hang` is the only one of its kind.
* `EnvironmentMounted` (`CpiDiskProofs`): `Spec => []EnvStaysMounted`, also when
  calls on one VM overlap. A VM whose iso is out is still the work of a disk
  call that has not succeeded and is not about to connect the cdrom; one that
  is disconnected, of a disk call that has not succeeded (`CdromInv`).
* `IsoStable`, `DetachesItsDisk`, `AgentIsTold` (same module):
  `IsoUntouchedWhileMounted`, `DetachRemovesItsDisk` and, with `"iso" \notin
  Faults`, `DiskCallsTellTheAgent`. `GivenUpForNew` is `EnvGivenUpForNew` under
  `Exclusive` and `"iso" \notin Faults`. With `Exclusive` running calls have
  different objects (`DistinctInv`), so what the steps of a disk call have done
  to its VM stays done (`DiskInv`): the iso is out when it is uploaded, the
  device found is the disk's when it is removed, and the iso in the cdrom is
  made from memory, in which the disk was put or removed. Only the
  disconnection by such a call unmounts the iso of a VM that stays
  (`RecordMoves`), and it comes after `ReadEnv` has found the file whole.
  `StepRecord` collects how a step of any method changes iso, cdrom and
  devices.
* `CpiEnvProofs` follows an environment from memory to `/tmp/env.json` and to the
  iso, and from the file into the memory of a later disk call. `StepEnv` says
  for every step where the environments it leaves come from (`FileMoves`,
  `MemoryMoves`; `RecordMoves` for the iso); each theorem is an invariant that
  these moves keep.
  - `IsosStayOneVMs`: `Spec => []IsosAreOneVMs`, with any number of VMs, any
    overlap and any fault. `OwnersInv`: every environment, in a process's
    memory, in the file or on an iso, is that of a VM whose `create_vm` has
    passed its networks, and has the MACs of that VM's adapters if the VM is
    there (`MadeFor`). It stays so because no step adds an adapter from then on
    (`NetworksOver`) and none brings back a VM that is gone.
  - `ListedDisksAttached`: with `Exclusive` and `"write" \notin Faults`,
    `Spec => []ListedDisksAreAttached`. The property is about the iso, but the
    iso's list comes from the file and the file's from an earlier call, so
    `ListInv` asks of a disk listed in any of the three (`Listed`) that it is
    attached, or its `detach_disk` has not succeeded, or the VM is gone
    (`Accounted`). When a `detach_disk` succeeds, none of the three lists its
    disk any more (`DetachUnlists`); for the file this is `FileInv`: it has been
    rewritten since the truncation. Here a failing write matters. Its error is
    ignored, the `detach_disk` succeeds with the old list in the file, and the
    next `attach_disk` copies that list to the iso: TLC finds this when the run
    `disks` is given a sixth call and the fault `"write"`, so the assumption is
    needed.
  - `IsosAreWhole`: with `"iso" \notin Faults`, `Spec => []NoDamagedIso`: however
    damaged the file is, `FromBytes` refuses it and the iso is made from memory.
    The fault of the finding `tornIso` is the only way to a damaged iso.
* `NeverCaptured` (`GovcRunnerProofs`): `Spec => []StdoutNeverCaptured`, in every
  interleaving of the captures. `RunnerInv` says why the check of
  `captureOutputFlagStdout` suffices although it is made after the flag and on
  a second read: a capture that gave its flag the real standard output will not
  see its own pipe in the global (`WillPanic`, `Panics`), because the other
  goroutine can put that pipe back only if it has saved it, and then
  `os.Stdout` was not the standard output (`NotStdout`, `NotYetSeen`).
  `RespondsOnce` (`Spec => []OneResponse`) follows: only `Respond` writes JSON
  to the standard output.
* `CapturesAreSeparate` and `StdoutPutBack` (`GovcRunnerAtomicProofs`): `Spec
  => []ReadsOwnOutput` and `Spec => []StdoutRestored`. `OrderInv`: when the
  sleep is long enough, the goroutine has left its capture before the main
  goroutine begins one (`OneCapture`), so what each has saved and put into
  `os.Stdout` is what it expects (`Orderly`), and its pipe holds its own output
  (`OwnOutput`). `RunnerTypeCorrect` is `Spec => []TypeOK`.
* `ImplementsHandshake` (same module): `Spec => CommandsAreAtomic`. One step of
  a command is the handshake's step, all others are stutters. What
  interleaving can do to a command appears as a command that fails:
  a capture that fails needs another capture beside it, hence `late`, hence
  `MayBeLate` (`ProgressInv`, `Unseen`, `GivesUp`).
* `HintIsRight` (`DiskLineageProofs`): with `MaxAttached = 1`,
  `Spec => []AgentHasItsDisk`. `LineageInv`: on a VM where
  nothing has failed, `/tmp/env.json`, the iso and the director's belief agree
  (`Agreed`), there is one disk (`Single`), its device is on the first unit
  (`OnlyFirst`, `FirstThere`), and a disk never attached has never been written
  (`Untouched`). `MaxAttached = 1` is used once, in `AttachDiskKeeps`: a VM
  without disks has its first unit free. With two disks the theorem is false.
* `ParentsAreKept` (same module): `Spec => []ParentsKept` for every `MaxAttached`.
  `ParentInv`: on a VM where nothing has failed, the director still believes the
  parent of each child device to be attached there (`Behind`), so it does not
  delete it, and two devices have different parents (`OneChild`), without which
  a `detach_disk` that removes one of two children would leave the other behind.
  `FilesAreKept` (`Spec => WrittenFilesKept`) and `LineageTypeCorrect` need no
  assumption either.

Every invariant and every action property that a passing run checks is stated
by a theorem. Only model-checked is liveness (`EveryCallReturns`,
`RespondsUnlessOff`): fairness and `ENABLED` are beyond the prover. The proofs
concern the models; that a model says what the code does rests on reading both,
and what a run of section 5 refutes is of course not proved but, where the
fault that refutes it is left out, shown to hold (`IsosAreWhole`).

## 5. Findings

* `hang`: `StartVM` leaves its loop only when the VM asks its question or
  `vm.info` fails; the error of the power-on goroutine is only logged. If the
  power-on fails, `create_vm` polls for ever.
* `stdout`: a failing `delete_vm` prints the error with `fmt.Printf` on stdout,
  in front of the JSON response.
* `tempdir`: `ExtractOvf` has a value receiver, so the directory it records is
  forgotten and `Cleanup` removes nothing: every import leaves an unpacked
  stemcell in the temp directory.
* `tornIso`: `GenerateAgentEnvIso` drops the result of writing the iso and
  tests the error of the `OpenFile` before it a second time: a damaged iso is
  uploaded and mounted as a good one.

Behaviour met while modelling that no document rules out: with two VMs, a disk
call can put one VM's environment on the other's iso; a `detach_disk` that
fails after `device.remove` can not be completed by a retry; a retried
`attach_disk` leaves a second device, which takes the unit the hint names;
`attachDisk` passes `link=true`, so each attachment starts from a blank child
and what was written before stays behind in a file the CPI does not use again;
`has_vm` may say "yes" of a VM that a `delete_vm` has reported gone since it
looked; with two disks attached both get the same hint; a failed `create_vm`
leaves a VM whose cid the director never learns; the iso of a deleted VM stays
under `/env`; the networks are a map, so the order of a VM's adapters is chosen
anew each time; when the power-on goroutine is slower than the sleep the
process can panic; a command whose output is longer than a pipe holds
(`datastore.ls`, `vm.info -json`) blocks for ever.

## 6. Not modelled, and the plan

Not modelled: configuration (read once, validated by nothing), job templates,
CI scripts and generated fakes (no behaviour of the CPI); `NewVMProps` (never
called); the individual checks of the JSON dispatcher (one outcome,
`NotImplemented`); the command line each govc command is given; the bytes of an
address in `GenerateMacAddress` (a choice from a set; that two draws agree is a
matter of probability); the contents of disks other than which write came last.

What is left:

1. The dispatcher and the action factory as a module of their own: the order of
   their checks on a request, and the response each error gives.
2. Proofs that take the assumptions of section 4 apart further: what of
   `ListedDisksAreAttached` holds when the file cannot be written (the disks on
   the iso of a VM whose last disk call succeeded with a whole file), and with
   several VMs (the disks of the VM whose id the iso carries).
3. A bound on the devices of one disk in terms of the `attach_disk` calls that
   have failed, which would cover the second device of a retried attachment.
