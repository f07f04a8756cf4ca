----------------------------- MODULE GovcRunner -----------------------------
(***************************************************************************)
(* The inside of CliCommand of govc_runner.go, run by the two goroutines   *)
(* of StartVM.  To get at what a govc command prints, CliCommand puts the  *)
(* write end of a pipe into the global os.Stdout, lets govc make an output *)
(* flag that remembers it, and puts the old value back; when the command   *)
(* has run it closes the pipe and reads it.  No lock protects os.Stdout,   *)
(* and nobody reads the pipe while the command writes to it.               *)
(*                                                                         *)
(* "power" is the goroutine that runs vm.power, "main" the one that runs   *)
(* vm.info until it reports the question, then vm.question.  Every read    *)
(* and write of os.Stdout is a step of its own.                            *)
(***************************************************************************)
EXTENDS Naturals, Sequences

CONSTANTS Pipes,         \* pipes of the process
          Stdout,        \* the process's standard output
          Capacity,      \* what a pipe holds before a write to it blocks
          MaxOutput,     \* the longest output of vm.info
          MayBeLate,     \* 300 ms may be too short for the goroutine's capture
          CommandsFail,  \* commands may fail
          PowerOnFails   \* the host's power-on task may fail

ASSUME RunnerAssumption ==
  /\ Stdout \notin Pipes
  /\ Capacity \in Nat \ {0} /\ MaxOutput \in Nat \ {0}
  /\ MayBeLate \in BOOLEAN /\ CommandsFail \in BOOLEAN
  /\ PowerOnFails \in BOOLEAN

Threads == {"main", "power"}
Files == Pipes \cup {Stdout}

VARIABLES osStdout,  \* the global os.Stdout
          at,        \* place of each thread
          old,       \* CliCommand's locals: oldStdout,
          pipe,      \*   stdoutWriter,
          out,       \*   the Out of the command's output flag,
          seen,      \*   outputFlagStdout
          data,      \* what is in each pipe: pieces of JSON or noise
          closed,    \* pipes whose write end is closed
          command,   \* the command of the main thread
          asked,     \* vm.info saw a pending question
          left,      \* what vm.info has still to write
          power,     \* of the VM
          result,    \* what StartVM returned
          stdout,    \* what the director gets: noise and JSON documents
          late       \* in this run the sleep is too short

locals == <<old, pipe, out, seen>>
vars == <<osStdout, at, locals, data, closed, command, asked, left, power,
          result, stdout, late>>

Capturing == {"save", "swap", "flag", "look", "restore"}
Labels == Capturing \cup {"sleep", "run", "write", "wait", "read", "respond",
                          "ended", "exit", "panic"}

TypeOK ==
  /\ osStdout \in Files
  /\ at \in [Threads -> Labels]
  /\ old \in [Threads -> Files] /\ pipe \in [Threads -> Files]
  /\ out \in [Threads -> Files] /\ seen \in [Threads -> Files]
  /\ data \in [Pipes -> Seq({"json", "noise"})]
  /\ closed \subseteq Pipes
  /\ command \in {"vm.info", "vm.question"}
  /\ asked \in BOOLEAN
  /\ left \in Nat
  /\ power \in {"off", "starting", "asking", "booting", "on"}
  /\ result \in {"none", "success", "error"}
  /\ stdout \in Seq({"json", "noise"})
  /\ late \in BOOLEAN

Init ==
  /\ osStdout = Stdout
  /\ at = [t \in Threads |-> IF t = "main" THEN "sleep" ELSE "save"]
  /\ old = [t \in Threads |-> Stdout] /\ pipe = [t \in Threads |-> Stdout]
  /\ out = [t \in Threads |-> Stdout] /\ seen = [t \in Threads |-> Stdout]
  /\ data = [p \in Pipes |-> << >>]
  /\ closed = {}
  /\ command = "vm.info"
  /\ asked = FALSE
  /\ left = 0
  /\ power = "off"
  /\ result = "none"
  /\ stdout = << >>
  /\ late \in {FALSE, MayBeLate}

\* A panic in either goroutine ends the process, as does main's return.
Alive == at["main"] # "exit" /\ \A t \in Threads : at[t] # "panic"

Goto(t, l) == at' = [at EXCEPT ![t] = l]

\* The locals of a command that has ended; Stdout stands for no value.
Forget(t) == /\ old' = [old EXCEPT ![t] = Stdout]
             /\ pipe' = [pipe EXCEPT ![t] = Stdout]
             /\ out' = [out EXCEPT ![t] = Stdout]
             /\ seen' = [seen EXCEPT ![t] = Stdout]

-----------------------------------------------------------------------------
(* captureOutputFlagStdout                                                 *)

\* A pipe that no variable refers to any more may be used again: its
\* descriptors have been collected.
Fresh == Pipes \ UNION {{osStdout}, {old[t] : t \in Threads},
                        {pipe[t] : t \in Threads}, {out[t] : t \in Threads},
                        {seen[t] : t \in Threads}}

\* os.Pipe, and oldStdout := os.Stdout.
Save(t) ==
  /\ at[t] = "save"
  /\ Fresh # {}
  /\ LET p == CHOOSE p \in Fresh : TRUE
     IN /\ pipe' = [pipe EXCEPT ![t] = p]
        /\ data' = [data EXCEPT ![p] = << >>]
        /\ closed' = closed \ {p}
  /\ old' = [old EXCEPT ![t] = osStdout]
  /\ Goto(t, "swap")
  /\ UNCHANGED <<osStdout, out, seen, command, asked, left, power, result, stdout>>

Swap(t) ==
  /\ at[t] = "swap"
  /\ osStdout' = pipe[t]
  /\ Goto(t, "flag")
  /\ UNCHANGED <<locals, data, closed, command, asked, left, power, result, stdout>>

NewOutputFlag(t) ==
  /\ at[t] = "flag"
  /\ out' = [out EXCEPT ![t] = osStdout]
  /\ Goto(t, "look")
  /\ UNCHANGED <<osStdout, old, pipe, seen, data, closed, command, asked, left,
                 power, result, stdout>>

\* outputFlagStdout := os.Stdout, a second read of the global.
Look(t) ==
  /\ at[t] = "look"
  /\ seen' = [seen EXCEPT ![t] = osStdout]
  /\ Goto(t, "restore")
  /\ UNCHANGED <<osStdout, old, pipe, out, data, closed, command, asked, left,
                 power, result, stdout>>

\* Mutant of Restore: the check is left out.
RestoreUnchecked(t) ==
  /\ at[t] = "restore"
  /\ osStdout' = old[t]
  /\ Goto(t, "run")
  /\ UNCHANGED <<locals, data, closed, command, asked, left, power, result, stdout>>

\* Mutant of Restore: os.Stdout is left at the pipe.
RestoreForgotten(t) ==
  /\ at[t] = "restore"
  /\ Goto(t, IF seen[t] = pipe[t] THEN "run" ELSE "panic")
  /\ UNCHANGED <<osStdout, locals, data, closed, command, asked, left, power,
                 result, stdout>>

\* os.Stdout = oldStdout, then the check that panics.
Restore(t) ==
  /\ at[t] = "restore"
  /\ osStdout' = old[t]
  /\ Goto(t, IF seen[t] = pipe[t] THEN "run" ELSE "panic")
  /\ UNCHANGED <<locals, data, closed, command, asked, left, power, result, stdout>>

-----------------------------------------------------------------------------
(* Run of the three commands                                               *)

\* vm.power sends the power-on and waits for the host's task; it prints
\* nothing, for with -json there is no terminal.
RunPower ==
  /\ at["power"] = "run"
  /\ power = "off"
  /\ power' = "starting"
  /\ Goto("power", "wait")
  /\ UNCHANGED <<osStdout, locals, data, closed, command, asked, left, result, stdout>>

TaskEnds ==
  /\ at["power"] = "wait"
  /\ power \in {"on", "off"}
  /\ \/ power = "on" /\ Goto("power", "read") /\ UNCHANGED locals
     \/ power = "off" /\ Goto("power", "ended") /\ Forget("power")
  /\ UNCHANGED <<osStdout, data, closed, command, asked, left, power, result, stdout>>

\* Mutant of RunInfo: waits for the VM to be on.
RunInfoForOn ==
  /\ at["main"] = "run" /\ command = "vm.info"
  /\ asked' = (power = "on")
  /\ left' \in 1..MaxOutput
  /\ Goto("main", "write")
  /\ UNCHANGED <<osStdout, locals, data, closed, command, power, result, stdout>>

\* vm.info -json loads all properties of the VM: the output may be long.
RunInfo ==
  /\ at["main"] = "run" /\ command = "vm.info"
  /\ asked' = (power = "asking")
  /\ left' \in 1..MaxOutput
  /\ Goto("main", "write")
  /\ UNCHANGED <<osStdout, locals, data, closed, command, power, result, stdout>>

\* vm.question prints with fmt.Printf, on whatever os.Stdout then is; errors
\* of that are ignored.
PrintNoise ==
  \/ osStdout = Stdout /\ stdout' = Append(stdout, "noise") /\ UNCHANGED data
  \/ osStdout \in closed /\ UNCHANGED <<data, stdout>>
  \/ /\ osStdout \in Pipes \ closed
     /\ Len(data[osStdout]) < Capacity
     /\ data' = [data EXCEPT ![osStdout] = Append(@, "noise")]
     /\ UNCHANGED stdout

\* Mutant of RunQuestion: the question is read and not answered.
RunQuestionUnanswered ==
  /\ at["main"] = "run" /\ command = "vm.question"
  /\ \/ power = "asking" /\ UNCHANGED <<data, stdout>>
     \/ power # "asking" /\ PrintNoise
  /\ Goto("main", "read")
  /\ UNCHANGED <<osStdout, locals, closed, command, asked, left, power, result>>

RunQuestion ==
  /\ at["main"] = "run" /\ command = "vm.question"
  /\ \/ power = "asking" /\ power' = "booting" /\ UNCHANGED <<data, stdout>>
     \/ power # "asking" /\ PrintNoise /\ UNCHANGED power
  /\ Goto("main", "read")
  /\ UNCHANGED <<osStdout, locals, closed, command, asked, left, result>>

\* A command returns an error: the goroutine logs it, StartVM returns it.  The
\* pipe is not closed.
Fail(t) ==
  /\ Forget(t)
  /\ Goto(t, IF t = "main" THEN "respond" ELSE "ended")
  /\ result' = IF t = "main" THEN "error" ELSE result

RunFails(t) ==
  /\ at[t] \in {"run", "wait"}
  /\ CommandsFail \/ (t = "power" /\ at[t] = "run" /\ power # "off")
  /\ Fail(t)
  /\ UNCHANGED <<osStdout, data, closed, command, asked, left, power, stdout>>

\* The host takes the answer, and the reply to vm.question is lost.
AnswerReplyLost ==
  /\ CommandsFail
  /\ at["main"] = "run" /\ command = "vm.question"
  /\ power = "asking"
  /\ power' = "booting"
  /\ Fail("main")
  /\ UNCHANGED <<osStdout, data, closed, command, asked, left, stdout>>

\* WriteResult writes the JSON into Out, as far as the pipe has room.
Write ==
  /\ at["main"] = "write" /\ left > 0
  /\ \/ out["main"] = Stdout /\ stdout' = Append(stdout, "json") /\ UNCHANGED data
     \/ /\ out["main"] \in Pipes \ closed
        /\ Len(data[out["main"]]) < Capacity
        /\ data' = [data EXCEPT ![out["main"]] = Append(@, "json")]
        /\ UNCHANGED stdout
  /\ left' = left - 1
  /\ Goto("main", IF left = 1 THEN "read" ELSE "write")
  /\ UNCHANGED <<osStdout, locals, closed, command, asked, power, result>>

\* Out is the other thread's pipe, which that thread has closed.
WriteFails ==
  /\ at["main"] = "write" /\ out["main"] \in closed
  /\ Fail("main")
  /\ UNCHANGED <<osStdout, data, closed, command, asked, left, power, stdout>>

-----------------------------------------------------------------------------
(* readOutputFlagStdout, and what StartVM does with the output             *)

\* Mutant of ReadPower: the old os.Stdout is closed instead of the pipe.
ReadPowerClosesOld ==
  /\ at["power"] = "read"
  /\ closed' = closed \cup {old["power"]}
  /\ Goto("power", "ended")
  /\ Forget("power")
  /\ UNCHANGED <<osStdout, data, command, asked, left, power, result, stdout>>

ReadPower ==
  /\ at["power"] = "read"
  /\ closed' = closed \cup {pipe["power"]}
  /\ Goto("power", "ended")
  /\ Forget("power")
  /\ UNCHANGED <<osStdout, data, command, asked, left, power, result, stdout>>

\* The whole output of one vm.info.
IsDocument(d) == d # << >> /\ \A i \in 1..Len(d) : d[i] = "json"

\* vmState unmarshals the output; without a question the loop goes on.
ReadInfo ==
  /\ at["main"] = "read" /\ command = "vm.info"
  /\ closed' = closed \cup {pipe["main"]}
  /\ \/ /\ IsDocument(data[pipe["main"]])
        /\ Goto("main", IF asked THEN "save" ELSE "sleep")
        /\ command' = IF asked THEN "vm.question" ELSE "vm.info"
        /\ Forget("main")
        /\ UNCHANGED result
     \/ /\ ~IsDocument(data[pipe["main"]])
        /\ Fail("main")
        /\ UNCHANGED command
  /\ UNCHANGED <<osStdout, data, asked, left, power, stdout>>

\* The output of vm.question is not looked at.
ReadQuestion ==
  /\ at["main"] = "read" /\ command = "vm.question"
  /\ closed' = closed \cup {pipe["main"]}
  /\ Goto("main", "respond")
  /\ Forget("main")
  /\ result' = "success"
  /\ UNCHANGED <<osStdout, data, command, asked, left, power, stdout>>

\* Mutant of Sleep: the loop polls at once.
SleepNot ==
  /\ at["main"] = "sleep"
  /\ Goto("main", "save")
  /\ UNCHANGED <<osStdout, locals, data, closed, command, asked, left, power,
                 result, stdout>>

\* time.Sleep at the head of the loop: the only thing that keeps the main
\* thread's captures apart from the goroutine's.
Sleep ==
  /\ at["main"] = "sleep"
  /\ ~late => at["power"] \notin Capturing
  /\ Goto("main", "save")
  /\ UNCHANGED <<osStdout, locals, data, closed, command, asked, left, power,
                 result, stdout>>

\* Mutant of Respond: the CLI looks os.Stdout up when it answers.
RespondOnOsStdout ==
  /\ at["main"] = "respond"
  /\ Goto("main", "exit")
  /\ stdout' = IF osStdout = Stdout THEN Append(stdout, "json") ELSE stdout
  /\ UNCHANGED <<osStdout, locals, data, closed, command, asked, left, power,
                 result>>

\* The CLI of bosh-cpi-go got hold of os.Stdout when it was made.
Respond ==
  /\ at["main"] = "respond"
  /\ Goto("main", "exit")
  /\ stdout' = Append(stdout, "json")
  /\ UNCHANGED <<osStdout, locals, data, closed, command, asked, left, power,
                 result>>

-----------------------------------------------------------------------------
(* The host                                                                *)

HostAsks == power = "starting" /\ power' = "asking"
HostBoots == power = "booting" /\ power' = "on"
HostFails == /\ PowerOnFails
             /\ power \in {"starting", "asking", "booting"}
             /\ power' = "off"

Host == /\ HostAsks \/ HostBoots \/ HostFails
        /\ UNCHANGED <<osStdout, at, locals, data, closed, command, asked, left,
                       result, stdout, late>>

-----------------------------------------------------------------------------
CliCommand(t) == \/ Save(t) \/ Swap(t) \/ NewOutputFlag(t) \/ Look(t)
                 \/ Restore(t) \/ RunFails(t)

MainStep == /\ \/ CliCommand("main") \/ Sleep \/ RunInfo \/ RunQuestion
               \/ AnswerReplyLost \/ Write \/ WriteFails \/ ReadInfo
               \/ ReadQuestion \/ Respond
            /\ UNCHANGED late

PowerStep == /\ CliCommand("power") \/ RunPower \/ TaskEnds \/ ReadPower
             /\ UNCHANGED late

\* The pipe is full: CliCommand reads it only when the command has ended.
Blocked == /\ at["main"] = "write" /\ out["main"] \in Pipes \ closed
           /\ Len(data[out["main"]]) = Capacity

\* The process is gone, or hangs.
Stopped == (~Alive \/ Blocked) /\ UNCHANGED vars

Next == \/ Alive /\ (MainStep \/ PowerStep)
        \/ Host
        \/ Stopped

Spec == Init /\ [][Next]_vars

\* The Go runtime schedules both goroutines; the host's task advances, but
\* nothing makes it fail.
FairSpec == /\ Spec
            /\ WF_vars(Alive /\ MainStep) /\ WF_vars(Alive /\ PowerStep)
            /\ WF_vars(Host /\ power' # "off")

-----------------------------------------------------------------------------
(* In every interleaving, the check of captureOutputFlagStdout catches a   *)
(* capture that would send a command's JSON to the director: a command     *)
(* that runs writes into some pipe.                                        *)
StdoutNeverCaptured ==
  \A t \in Threads : at[t] \in {"run", "write", "wait", "read"} =>
    out[t] \in Pipes

(* In every interleaving, also one that leaves os.Stdout at a dead pipe, a *)
(* call that exits has written one JSON document where the director reads. *)
OneResponse ==
  at["main"] = "exit" =>
    \E i \in 1..Len(stdout) :
      \A j \in 1..Len(stdout) : stdout[j] = "json" <=> i = j

(* When the sleep is long enough, what vm.info's caller reads is what that *)
(* vm.info wrote, and os.Stdout is back whenever nobody is capturing.      *)
ReadsOwnOutput ==
  ~late /\ at["main"] = "read" /\ command = "vm.info" =>
    IsDocument(data[pipe["main"]])

StdoutRestored ==
  ~late /\ (\A t \in Threads : at[t] \notin Capturing) => osStdout = Stdout

(* The call responds, whatever fails, unless the VM cannot be powered on   *)
(* and is polled for ever.  Only when an output is longer than a pipe holds *)
(* may it hang in a command instead, and only when the sleep is too short  *)
(* may the check of captureOutputFlagStdout panic.                         *)
RespondsUnlessOff ==
  \/ <>(at["main"] = "exit")
  \/ <>[](power = "off" /\ at["power"] = "ended")
  \/ MaxOutput > Capacity /\ <>[]Blocked
  \/ late /\ <>(\E t \in Threads : at[t] = "panic")
=============================================================================
