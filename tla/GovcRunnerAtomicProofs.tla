----------------------- MODULE GovcRunnerAtomicProofs -----------------------
(***************************************************************************)
(* Two results about CliCommand on two goroutines.  When the sleep is long *)
(* enough, vm.info's caller reads what vm.info wrote and os.Stdout is put  *)
(* back: the goroutine's capture is then over before the main thread's     *)
(* first one begins (OneCapture), so that a capture finds in os.Stdout     *)
(* what it has put there (Orderly).  And StartVM implements                *)
(* PowerOnHandshake, whether the sleep is long enough or not: what the     *)
(* main thread has seen and done implies that vm.power has been sent       *)
(* (Started), and an interference ends the call as a failed command would. *)
(***************************************************************************)
EXTENDS GovcRunnerProofs, GovcRunnerAtomic

Swapped == {"flag", "look", "restore"}

\* The goroutine's only capture precedes all those of the main thread.
OneCapture == at["main"] # "sleep" => at["power"] \notin Capturing

\* The one capture there may be at a time is not interfered with.
Orderly ==
  /\ \A t \in Threads : at[t] \in Swapped => osStdout = pipe[t]
  /\ (\A t \in Threads : at[t] \notin Swapped) => osStdout = Stdout
  /\ \A t \in Threads :
       /\ at[t] \in Swapping => old[t] = Stdout
       /\ at[t] \in {"look", "restore"} \cup Using => out[t] = pipe[t]
       /\ at[t] = "restore" => seen[t] = pipe[t]
       /\ at[t] # "panic"
       /\ at[t] \in Swapping \cup Using => pipe[t] \notin closed

\* The main thread's pipe has the output of its command and nothing else.
OwnOutput ==
  /\ at["main"] \in Swapping \cup {"run"} => data[pipe["main"]] = << >>
  /\ command = "vm.info" =>
       /\ at["main"] = "write" => data[pipe["main"]] \in Seq({"json"})
       /\ at["main"] = "read" => data[pipe["main"]] \in Seq({"json"}) \ {<< >>}

DataTypes == /\ data \in [Pipes -> Seq({"json", "noise"})]
             /\ closed \subseteq Pipes
             /\ late \in {FALSE, MayBeLate}

InOrder == OneCapture /\ Orderly /\ OwnOutput

OrderInv == RunnerInv /\ DataTypes /\ (~late => InOrder)

-----------------------------------------------------------------------------
(* A sleep that is long enough keeps the captures apart.                   *)

LEMMA DataTypesStep == RunnerInv /\ DataTypes /\ [Next]_vars => DataTypes'
<1> SUFFICES ASSUME RunnerInv, DataTypes, [Next]_vars PROVE DataTypes'
  OBVIOUS
<1> USE DEF DataTypes
<1>1. late' = late
  BY DEF Next, MainStep, PowerStep, Host, Stopped, vars
<1>2. ASSUME NEW t \in Threads, CliCommand(t) PROVE DataTypes'
  <2>1. CASE Save(t)
    <3>1. << >> \in Seq({"json", "noise"})
      OBVIOUS
    <3> QED BY <1>1, <2>1, <3>1 DEF Save
  <2>2. CASE ~Save(t)
    <3>1. data' = data /\ closed' = closed
      BY <1>2, <2>2 DEF CliCommand, Swap, NewOutputFlag, Look, Restore, RunFails
    <3> QED BY <1>1, <3>1
  <2> QED BY <2>1, <2>2
<1>3. CASE Write \/ RunQuestion
  <2>1. /\ closed' = closed
        /\ \/ data' = data
           \/ \E p \in Pipes, x \in {"json", "noise"} :
                data' = [data EXCEPT ![p] = Append(data[p], x)]
    BY <1>3 DEF Write, RunQuestion, PrintNoise
  <2>2. ASSUME NEW p \in Pipes, NEW x \in {"json", "noise"},
               data' = [data EXCEPT ![p] = Append(data[p], x)]
        PROVE  data' \in [Pipes -> Seq({"json", "noise"})]
    <3>1. Append(data[p], x) \in Seq({"json", "noise"})
      OBVIOUS
    <3> QED BY <2>2, <3>1
  <2> QED BY <1>1, <2>1, <2>2
<1>4. CASE ReadInfo \/ ReadQuestion \/ ReadPower
  <2>1. data' = data
    BY <1>4 DEF ReadInfo, ReadQuestion, ReadPower
  <2>2. closed' \subseteq Pipes
    BY <1>4 DEF ReadInfo, ReadQuestion, ReadPower, RunnerInv, OwnPipe, Using, Threads
  <2> QED BY <1>1, <2>1, <2>2
<1>5. CASE \/ Sleep \/ RunInfo \/ AnswerReplyLost \/ WriteFails \/ Respond \/ RunPower \/ TaskEnds
           \/ Host \/ Stopped \/ UNCHANGED vars
  <2>1. data' = data /\ closed' = closed
    BY <1>5 DEF Sleep, RunInfo, AnswerReplyLost, WriteFails, Respond, RunPower, TaskEnds, Host, Stopped,
       vars
  <2> QED BY <1>1, <2>1
<1> QED BY <1>2, <1>3, <1>4, <1>5 DEF Next, MainStep, PowerStep, Threads

(* The steps of a capture.                                                 *)
LEMMA CaptureInOrder ==
  ASSUME RunnerInv, DataTypes, RunnerInv', InOrder, ~late, NEW t \in Threads,
         Save(t) \/ Swap(t) \/ NewOutputFlag(t) \/ Look(t) \/ Restore(t)
  PROVE  InOrder'
<1> USE RunnerAssumption DEF RunnerInv, Types, Files
<1>1. at[t] \in Capturing /\ \A o \in Threads \ {t} : at[o] \notin Capturing
  BY DEF Save, Swap, NewOutputFlag, Look, Restore, Capturing, InOrder, OneCapture,
     Threads
<1>2. \A o \in Threads \ {t} : at[o] \notin Swapping
  BY <1>1 DEF Swapping, Capturing
<1>3. PICK l \in Capturing \cup {"run", "panic"} : at' = [at EXCEPT ![t] = l]
  BY DEF Save, Swap, NewOutputFlag, Look, Restore, Goto, Capturing
<1>4. OneCapture'
  BY <1>1, <1>3 DEF InOrder, OneCapture, Threads, Capturing
<1>5. \A o \in Threads \ {t} : /\ at'[o] = at[o] /\ old'[o] = old[o]
                               /\ pipe'[o] = pipe[o] /\ out'[o] = out[o]
                               /\ seen'[o] = seen[o]
  BY <1>3 DEF Save, Swap, NewOutputFlag, Look, Restore, locals
<1>6. closed' \subseteq closed
  BY DEF Save, Swap, NewOutputFlag, Look, Restore
<1>7. Orderly'
  <2> USE <1>1, <1>2, <1>5, <1>6 DEF InOrder, Orderly, Swapped, Swapping, Using, Goto
  <2>1. CASE Save(t)
    <3> DEFINE p == CHOOSE q \in Fresh : TRUE
    <3>1. /\ at[t] = "save" /\ at' = [at EXCEPT ![t] = "swap"]
          /\ pipe' = [pipe EXCEPT ![t] = p] /\ old' = [old EXCEPT ![t] = osStdout]
          /\ closed' = closed \ {p} /\ osStdout' = osStdout
      BY <2>1 DEF Save
    <3> HIDE DEF p
    <3>2. at'[t] = "swap" /\ old'[t] = Stdout /\ pipe'[t] = p /\ p \notin closed'
      BY <3>1
    <3>3. osStdout = Stdout
      BY <3>1
    <3> QED BY <3>1, <3>2, <3>3
  <2>2. CASE Swap(t)
    <3>1. /\ at[t] = "swap" /\ at'[t] = "flag" /\ osStdout' = pipe'[t]
          /\ old'[t] = old[t] /\ pipe'[t] = pipe[t]
      BY <2>2 DEF Swap, locals
    <3> QED BY <3>1
  <2>3. CASE NewOutputFlag(t)
    <3>1. /\ at[t] = "flag" /\ at'[t] = "look" /\ out'[t] = osStdout
          /\ osStdout' = osStdout /\ old'[t] = old[t] /\ pipe'[t] = pipe[t]
      BY <2>3 DEF NewOutputFlag
    <3> QED BY <3>1
  <2>4. CASE Look(t)
    <3>1. /\ at[t] = "look" /\ at'[t] = "restore" /\ seen'[t] = osStdout
          /\ osStdout' = osStdout /\ old'[t] = old[t] /\ pipe'[t] = pipe[t]
          /\ out'[t] = out[t]
      BY <2>4 DEF Look
    <3> QED BY <3>1
  <2>5. CASE Restore(t)
    <3>1. /\ at[t] = "restore" /\ at'[t] = "run" /\ osStdout' = Stdout
          /\ pipe'[t] = pipe[t] /\ out'[t] = out[t]
      BY <2>5 DEF Restore, locals
    <3> QED BY <3>1
  <2> QED BY <2>1, <2>2, <2>3, <2>4, <2>5
<1>8. OwnOutput'
  <2> USE DEF InOrder, OwnOutput, Swapping, Threads
  <2>1. CASE Save(t)
    <3> DEFINE p == CHOOSE q \in Fresh : TRUE
    <3>1. /\ p \in Pipes /\ p # pipe["main"]
          /\ at[t] = "save" /\ at' = [at EXCEPT ![t] = "swap"]
          /\ pipe' = [pipe EXCEPT ![t] = p]
          /\ data' = [data EXCEPT ![p] = << >>] /\ command' = command
      BY <2>1 DEF Save, Goto, Fresh
    <3> HIDE DEF p
    <3>2. CASE t = "main"
      <4>1. at'["main"] = "swap" /\ data'[pipe'["main"]] = << >>
        BY <3>1, <3>2 DEF DataTypes
      <4> QED BY <4>1
    <3>3. CASE t = "power"
      <4>1. /\ at'["main"] = at["main"] /\ pipe'["main"] = pipe["main"]
            /\ data'[pipe["main"]] = data[pipe["main"]]
        BY <3>1, <3>3 DEF DataTypes
      <4> QED BY <3>1, <4>1
    <3> QED BY <3>2, <3>3
  <2>2. CASE ~Save(t)
    <3>1. /\ UNCHANGED <<pipe, data, command>>
          /\ at[t] \in Swapping
          /\ l \in Swapping \cup {"run", "panic"}
      BY <2>2, <1>3 DEF Swap, NewOutputFlag, Look, Restore, locals, Goto
    <3> QED BY <3>1, <1>3
  <2> QED BY <2>1, <2>2
<1> QED BY <1>4, <1>7, <1>8 DEF InOrder

(* The steps outside captures.                                             *)
LEMMA OutsideInOrder ==
  ASSUME RunnerInv, DataTypes, InOrder, ~late, NEW t \in Threads,
         \/ RunFails(t)
         \/ t = "power" /\ (RunPower \/ TaskEnds \/ ReadPower)
         \/ t = "main" /\ (\/ Sleep \/ RunInfo \/ RunQuestion \/ Write
                           \/ AnswerReplyLost \/ WriteFails \/ ReadInfo
                           \/ ReadQuestion \/ Respond)
  PROVE  InOrder'
<1> USE RunnerAssumption DEF RunnerInv, Types, Files
<1>1. Outside(t) /\ at[t] \notin Capturing
  BY CommandsAreOutside DEF RunFails, RunPower, TaskEnds, ReadPower, Sleep, RunInfo,
     RunQuestion, Write, AnswerReplyLost, WriteFails, ReadInfo, ReadQuestion, Respond, Capturing
<1>2. PICK l \in Labels \ Swapping :
        /\ at' = [at EXCEPT ![t] = l]
        /\ l \in Using => at[t] \in Using /\ UNCHANGED locals
  BY <1>1 DEF Outside
<1>3. osStdout' = osStdout /\ (UNCHANGED locals \/ Forget(t))
  BY <1>1 DEF Outside
<1>4. l # "panic" /\ (t = "power" => l \notin Capturing)
  BY <1>2 DEF RunFails, Fail, RunPower, TaskEnds, ReadPower, Sleep, RunInfo,
     RunQuestion, Write, AnswerReplyLost, WriteFails, ReadInfo, ReadQuestion, Respond, Goto, Capturing
<1>5. OneCapture'
  <2>1. CASE t = "power"
    BY <1>2, <1>4, <2>1 DEF InOrder, OneCapture
  <2>2. CASE t = "main" /\ at["main"] = "sleep"
    <3>1. Sleep
      BY <2>2 DEF RunFails, RunInfo, RunQuestion, Write, AnswerReplyLost, WriteFails, ReadInfo,
         ReadQuestion, Respond
    <3> QED BY <1>2, <2>2, <3>1 DEF Sleep, OneCapture
  <2>3. CASE t = "main" /\ at["main"] # "sleep"
    BY <1>2, <2>3 DEF InOrder, OneCapture
  <2> QED BY <2>1, <2>2, <2>3 DEF Threads
<1>6. \A o \in Threads \ {t} : /\ at'[o] = at[o] /\ old'[o] = old[o]
                               /\ pipe'[o] = pipe[o] /\ out'[o] = out[o]
                               /\ seen'[o] = seen[o]
  BY <1>2, <1>3 DEF locals, Forget
<1>7. /\ at'[t] = l /\ at[t] \notin Swapping
      /\ l \in Using => /\ at[t] \in Using
                        /\ pipe'[t] = pipe[t] /\ out'[t] = out[t]
  BY <1>1, <1>2 DEF locals, Swapping, Capturing
<1>8. closed' \subseteq closed \cup ({pipe[t]} \cap Pipes)
      /\ (closed' # closed => at[t] = "read" /\ l \notin Using)
  <2>1. CASE UNCHANGED closed
    BY <2>1
  <2>2. CASE ReadPower /\ t = "power"
    BY <2>2, <1>2, <1>7 DEF ReadPower, Goto, Using, OwnPipe
  <2>3. CASE ReadInfo /\ t = "main"
    BY <2>3, <1>2, <1>7 DEF ReadInfo, Goto, Fail, Using, OwnPipe
  <2>4. CASE ReadQuestion /\ t = "main"
    BY <2>4, <1>2, <1>7 DEF ReadQuestion, Goto, Using, OwnPipe
  <2> QED BY <2>1, <2>2, <2>3, <2>4 DEF RunFails, RunPower, TaskEnds, Sleep, RunInfo,
             RunQuestion, Write, AnswerReplyLost, WriteFails, Respond
<1>9. Orderly'
  <2> USE DEF InOrder, Orderly, Swapped, Swapping, Using
  <2>1. \A o \in Threads : at'[o] \in Swapping => o # t
    BY <1>2, <1>7
  <2>2. \A o \in Threads : at'[o] \in Swapped => osStdout' = pipe'[o]
    BY <1>3, <1>6, <2>1
  <2>3. (\A o \in Threads : at'[o] \notin Swapped) => osStdout' = Stdout
    BY <1>3, <1>6, <1>7
  <2>4. ASSUME NEW o \in Threads
        PROVE  /\ at'[o] \in Swapping => old'[o] = Stdout
               /\ at'[o] \in {"look", "restore"} \cup Using => out'[o] = pipe'[o]
               /\ at'[o] = "restore" => seen'[o] = pipe'[o]
               /\ at'[o] # "panic"
    BY <1>2, <1>4, <1>6, <1>7, <2>1
  <2>5. ASSUME NEW o \in Threads, at'[o] \in Swapping \cup Using
        PROVE  pipe'[o] \notin closed'
    <3>1. CASE o = t
      BY <1>7, <1>8, <2>1, <2>5, <3>1
    <3>2. CASE o # t
      BY <1>6, <1>8, <2>5, <3>2 DEF OwnPipe
    <3> QED BY <3>1, <3>2
  <2> QED BY <2>2, <2>3, <2>4, <2>5
<1>10. OwnOutput'
  <2> USE DEF InOrder, OwnOutput, Threads
  <2>1. CASE t = "power"
    <3>1. UNCHANGED <<data, command>>
      BY <2>1 DEF RunFails, RunPower, TaskEnds, ReadPower
    <3> QED BY <1>6, <2>1, <3>1
  <2>2. CASE t = "main" /\ RunInfo
    <3>1. at'["main"] = "write" /\ UNCHANGED <<pipe, data>> /\ data[pipe["main"]] = << >>
      BY <2>2 DEF RunInfo, Goto, locals
    <3>2. data'[pipe'["main"]] \in Seq({"json"})
      BY <3>1
    <3> QED BY <3>1, <3>2 DEF Swapping
  <2>3. CASE t = "main" /\ Write
    <3>1. /\ at["main"] = "write" /\ at'["main"] \in {"write", "read"}
          /\ pipe' = pipe /\ command' = command
          /\ out["main"] = pipe["main"] /\ out["main"] \in Pipes
      BY <2>3 DEF Write, Goto, locals, Orderly, Using, StdoutNeverCaptured
    <3>2. data' = [data EXCEPT ![pipe["main"]] = Append(@, "json")]
      BY <2>3, <3>1 DEF Write
    <3>3. data'[pipe["main"]] = Append(data[pipe["main"]], "json")
      BY <3>1, <3>2 DEF DataTypes
    <3>4. command = "vm.info" => data'[pipe["main"]] \in Seq({"json"}) \ {<< >>}
      <4> SUFFICES ASSUME command = "vm.info"
                   PROVE  Append(data[pipe["main"]], "json") \in Seq({"json"}) \ {<< >>}
        BY <3>3
      <4>1. data[pipe["main"]] \in Seq({"json"})
        BY <3>1
      <4> QED BY <4>1
    <3> QED BY <3>1, <3>4 DEF Swapping
  <2>4. CASE t = "main" /\ RunQuestion
    <3>1. at'["main"] = "read" /\ command' = "vm.question"
      BY <2>4 DEF RunQuestion, Goto
    <3> QED BY <3>1 DEF Swapping
  <2>5. CASE t = "main" /\ (RunFails("main") \/ Sleep \/ AnswerReplyLost \/ WriteFails \/ ReadInfo
                            \/ ReadQuestion \/ Respond)
    <3>1. at'["main"] \in {"sleep", "save", "respond", "exit"}
      BY <1>2, <2>5 DEF RunFails, Fail, Sleep, AnswerReplyLost, WriteFails, ReadInfo, ReadQuestion,
         Respond, Goto
    <3> QED BY <3>1 DEF Swapping
  <2> QED BY <2>1, <2>2, <2>3, <2>4, <2>5
<1> QED BY <1>5, <1>9, <1>10 DEF InOrder

LEMMA OrderStep == OrderInv /\ [Next]_vars => OrderInv'
<1> SUFFICES ASSUME OrderInv, [Next]_vars PROVE OrderInv'
  OBVIOUS
<1>1. RunnerInv' /\ DataTypes' /\ late' = late
  BY RunnerStep, DataTypesStep
  DEF OrderInv, Next, MainStep, PowerStep, Host, Stopped, vars
<1> SUFFICES ASSUME ~late PROVE InOrder'
  BY <1>1 DEF OrderInv
<1>2. InOrder /\ RunnerInv /\ DataTypes
  BY DEF OrderInv
<1>3. ASSUME NEW t \in Threads, CliCommand(t) PROVE InOrder'
  BY <1>1, <1>2, <1>3, CaptureInOrder, OutsideInOrder DEF CliCommand
<1>4. CASE MainStep
  <2>1. "main" \in Threads BY DEF Threads
  <2> QED BY <1>2, <1>3, <1>4, <2>1, OutsideInOrder DEF MainStep
<1>5. CASE PowerStep
  <2>1. "power" \in Threads BY DEF Threads
  <2> QED BY <1>2, <1>3, <1>5, <2>1, OutsideInOrder DEF PowerStep
<1>6. CASE Host \/ Stopped \/ UNCHANGED vars
  <2>1. UNCHANGED <<osStdout, at, old, pipe, out, seen, data, closed, command>>
    BY <1>6 DEF Host, Stopped, vars, locals
  <2> QED BY <1>2, <2>1 DEF InOrder, OneCapture, Orderly, OwnOutput
<1> QED BY <1>4, <1>5, <1>6 DEF Next

(* The invariant of both results.                                         *)
THEOREM OrderInvariant == Spec => []OrderInv
<1>1. Init => OrderInv
  <2> SUFFICES ASSUME Init PROVE OrderInv
    OBVIOUS
  <2>1. RunnerInv
    BY RunnerAssumption DEF Init, RunnerInv, Types, OwnPipe, NotYetSeen, NotStdout,
       WillPanic, Panics, StdoutNeverCaptured, Files, Labels, Capturing, Swapping,
       Using, Threads
  <2>2. DataTypes
    <3>1. << >> \in Seq({"json", "noise"})
      OBVIOUS
    <3> QED BY <3>1 DEF Init, DataTypes
  <2>3. InOrder
    BY DEF Init, InOrder, OneCapture, Orderly, OwnOutput, Threads, Swapped, Swapping,
       Using
  <2> QED BY <2>1, <2>2, <2>3 DEF OrderInv
<1> QED BY <1>1, OrderStep, PTL DEF Spec

(* When the sleep is long enough, vm.info's caller reads that vm.info's    *)
(* output.                                                                 *)
THEOREM CapturesAreSeparate == Spec => []ReadsOwnOutput
<1>1. OrderInv => ReadsOwnOutput
  <2> SUFFICES ASSUME OrderInv, ~late, at["main"] = "read", command = "vm.info"
               PROVE  IsDocument(data[pipe["main"]])
    BY DEF ReadsOwnOutput
  <2>1. data[pipe["main"]] \in Seq({"json"}) \ {<< >>}
    BY DEF OrderInv, InOrder, OwnOutput
  <2> QED BY <2>1 DEF IsDocument
<1> QED BY <1>1, OrderInvariant, PTL

(* And os.Stdout is back whenever nobody captures, however the two threads *)
(* take turns and whatever command fails.                                  *)
THEOREM StdoutPutBack == Spec => []StdoutRestored
<1>1. OrderInv => StdoutRestored
  BY DEF OrderInv, InOrder, Orderly, StdoutRestored, Swapped, Capturing
<1> QED BY <1>1, OrderInvariant, PTL

\* What is left of the types.
RestTypes == /\ command \in {"vm.info", "vm.question"}
             /\ asked \in BOOLEAN
             /\ left \in Nat
             /\ power \in {"off", "starting", "asking", "booting", "on"}
             /\ result \in {"none", "success", "error"}

LEMMA RestTypesStep == RestTypes /\ [Next]_vars => RestTypes'
<1> SUFFICES ASSUME RestTypes, [Next]_vars PROVE RestTypes'
  OBVIOUS
<1> USE DEF RestTypes
<1>1. asked' \in BOOLEAN
  <2>1. CASE RunInfo
    BY <2>1 DEF RunInfo
  <2>2. CASE ~RunInfo
    BY <2>2 DEF Next, MainStep, PowerStep, Host, Stopped, vars, CliCommand, Save, Swap,
       NewOutputFlag, Look, Restore, RunFails, RunPower, TaskEnds, ReadPower, Sleep,
       RunQuestion, Write, AnswerReplyLost, WriteFails, ReadInfo, ReadQuestion, Respond
  <2> QED BY <2>1, <2>2
<1>2. ASSUME NEW t \in Threads, CliCommand(t) PROVE RestTypes'
  BY <1>1, <1>2 DEF CliCommand, Save, Swap, NewOutputFlag, Look, Restore, RunFails, Fail
<1>3. CASE RunInfo
  BY <1>1, <1>3, RunnerAssumption DEF RunInfo
<1>4. CASE Write
  BY <1>1, <1>4 DEF Write
<1>5. CASE RunQuestion \/ ReadQuestion \/ ReadInfo \/ AnswerReplyLost \/ WriteFails
  BY <1>1, <1>5 DEF RunQuestion, ReadQuestion, ReadInfo, AnswerReplyLost, WriteFails, Fail
<1>6. CASE Sleep \/ Respond \/ RunPower \/ TaskEnds \/ ReadPower
  BY <1>1, <1>6 DEF Sleep, Respond, RunPower, TaskEnds, ReadPower
<1>7. CASE Host \/ Stopped \/ UNCHANGED vars
  BY <1>1, <1>7 DEF Host, HostAsks, HostBoots, HostFails, Stopped, vars
<1> QED BY <1>2, <1>3, <1>4, <1>5, <1>6, <1>7
        DEF Next, MainStep, PowerStep, Threads

(* Types hold: among them, that only pipes are ever closed, never the     *)
(* standard output of the process.                                         *)
THEOREM RunnerTypeCorrect == Spec => []TypeOK
<1>1. Init => RestTypes
  <2> SUFFICES ASSUME Init PROVE RestTypes
    OBVIOUS
  <2>1. asked \in BOOLEAN
    BY DEF Init
  <2>2. left \in Nat
    BY DEF Init
  <2>3. /\ command \in {"vm.info", "vm.question"}
        /\ power \in {"off", "starting", "asking", "booting", "on"}
        /\ result \in {"none", "success", "error"}
    BY DEF Init
  <2> QED BY <2>1, <2>2, <2>3 DEF RestTypes
<1>2. OrderInv /\ ResponseInv /\ RestTypes => TypeOK
  BY RunnerAssumption DEF OrderInv, RunnerInv, Types, DataTypes, ResponseInv, RestTypes,
     TypeOK
<1> QED BY <1>1, <1>2, RestTypesStep, OrderInvariant, ResponseInvariant, PTL DEF Spec

-----------------------------------------------------------------------------
(* The refinement                                                          *)

Started == at["power"] \in {"wait", "read", "ended"}

\* What the main thread has seen and done, and what that says of the other.
ProgressInv ==
  /\ asked \/ command = "vm.question" \/ power # "off" => Started
  /\ command \in {"vm.info", "vm.question"}
  /\ command = "vm.question" => at["main"] \notin {"sleep", "write"}
  /\ at["main"] \notin {"wait", "ended"}
  /\ at["power"] \in Before \cup {"wait", "read", "ended", "panic"}
  /\ at["main"] \in {"respond", "exit"} <=> result # "none"

LEMMA ProgressStep == Types /\ ProgressInv /\ [Next]_vars => ProgressInv'
<1> SUFFICES ASSUME Types, ProgressInv, [Next]_vars PROVE ProgressInv'
  OBVIOUS
<1> USE DEF Types, ProgressInv, Started, Before, Capturing, Threads, Goto
<1>1. ASSUME NEW t \in Threads, Save(t) \/ Swap(t) \/ NewOutputFlag(t) \/ Look(t)
      PROVE  ProgressInv'
  <2>1. PICK l \in {"swap", "flag", "look", "restore"} :
          /\ at[t] \in {"save", "swap", "flag", "look"} /\ at' = [at EXCEPT ![t] = l]
          /\ UNCHANGED <<asked, command, power, result>>
    BY <1>1 DEF Save, Swap, NewOutputFlag, Look
  <2>2. CASE t = "main" BY <2>1, <2>2
  <2>3. CASE t = "power" BY <2>1, <2>3
  <2> QED BY <2>2, <2>3
<1>2. ASSUME NEW t \in Threads, Restore(t) PROVE ProgressInv'
  <2>1. PICK l \in {"run", "panic"} :
          /\ at[t] = "restore" /\ at' = [at EXCEPT ![t] = l]
          /\ UNCHANGED <<asked, command, power, result>>
    BY <1>2 DEF Restore
  <2>2. CASE t = "main" BY <2>1, <2>2
  <2>3. CASE t = "power" BY <2>1, <2>3
  <2> QED BY <2>2, <2>3
<1>3. ASSUME NEW t \in Threads, RunFails(t) PROVE ProgressInv'
  <2>1. CASE t = "main" BY <1>3, <2>1 DEF RunFails, Fail
  <2>2. CASE t = "power" BY <1>3, <2>2 DEF RunFails, Fail
  <2> QED BY <2>1, <2>2
<1>4. CASE Alive /\ (RunPower \/ TaskEnds \/ ReadPower)
  <2>1. CASE RunPower BY <2>1 DEF RunPower
  <2>2. CASE TaskEnds BY <2>2 DEF TaskEnds
  <2>3. CASE ReadPower BY <2>3 DEF ReadPower
  <2> QED BY <1>4, <2>1, <2>2, <2>3
<1>5. CASE Sleep \/ RunInfo \/ RunQuestion
  <2>1. CASE Sleep BY <2>1 DEF Sleep
  <2>2. CASE RunInfo BY <2>2 DEF RunInfo
  <2>3. CASE RunQuestion BY <2>3 DEF RunQuestion
  <2> QED BY <1>5, <2>1, <2>2, <2>3
<1>6. CASE Write \/ AnswerReplyLost \/ WriteFails
  <2>1. CASE Write BY <2>1 DEF Write
  <2>2. CASE WriteFails BY <2>2 DEF WriteFails, Fail
  <2>3. CASE AnswerReplyLost BY <2>3 DEF AnswerReplyLost, Fail
  <2> QED BY <1>6, <2>1, <2>2, <2>3
<1>7. CASE ReadInfo
  <2>1. at["main"] = "read" /\ UNCHANGED <<asked, power>>
    BY <1>7 DEF ReadInfo
  <2>2. \/ /\ at' = [at EXCEPT !["main"] = IF asked THEN "save" ELSE "sleep"]
           /\ command' = IF asked THEN "vm.question" ELSE "vm.info"
           /\ UNCHANGED result
        \/ /\ at' = [at EXCEPT !["main"] = "respond"]
           /\ result' = "error" /\ UNCHANGED command
    BY <1>7 DEF ReadInfo, Fail
  <2> QED BY <2>1, <2>2
<1>8. CASE ReadQuestion BY <1>8 DEF ReadQuestion
<1>9. CASE Respond BY <1>9 DEF Respond
<1>10. CASE Host
  BY <1>10 DEF Host, HostAsks, HostBoots, HostFails
<1>11. CASE Stopped \/ UNCHANGED vars
  BY <1>11 DEF Stopped, vars
<1> QED BY <1>1, <1>2, <1>3, <1>4, <1>5, <1>6, <1>7, <1>8, <1>9, <1>10, <1>11
       DEF Next, MainStep, PowerStep, CliCommand

Goroutine == IF at["power"] \in Before THEN "pending" ELSE "over"
Noise == \E i \in 1..Len(stdout) : stdout[i] = "noise"

HandshakeStep == [Handshake!HandshakeNext]_(Handshake!hvars)

AtomicInv == OrderInv /\ ProgressInv /\ stdout \in Seq({"json", "noise"})

\* A step that is not seen.
LEMMA Unseen ==
  ASSUME UNCHANGED <<power, Goroutine, MainOf, ResultOf, Noise>>
  PROVE  HandshakeStep
BY DEF HandshakeStep, Handshake!hvars, Goroutine, Noise

\* The main thread gives up, or a panic ends both.
LEMMA GivesUp ==
  ASSUME CommandsFail \/ MayBeLate, MainOf # "returned", MainOf' = "returned",
         ResultOf' = "error", Goroutine' \in {Goroutine, "over"},
         UNCHANGED <<power, Noise>>
  PROVE  HandshakeStep
BY DEF HandshakeStep, Handshake!HandshakeNext, Handshake!Abandon, Goroutine, Noise

\* The goroutine ends without having sent anything.
LEMMA NotSent ==
  ASSUME Goroutine = "pending", Goroutine' = "over",
         UNCHANGED <<power, MainOf, ResultOf, Noise>>
  PROVE  HandshakeStep
BY DEF HandshakeStep, Handshake!HandshakeNext, Handshake!SendPowerOn, Goroutine, Noise

(* The steps of a capture are not seen, but for the panic.                 *)
LEMMA CaptureImplements ==
  ASSUME AtomicInv, Alive, NEW t \in Threads, CliCommand(t), ~RunFails(t)
  PROVE  HandshakeStep
<1> USE DEF AtomicInv, OrderInv, RunnerInv, Types, ProgressInv, Started, Threads,
          MainOf, ResultOf, Goroutine, Before, Capturing
<1>1. /\ UNCHANGED <<asked, command, power, result, stdout>>
      /\ at[t] \in Capturing
  BY DEF CliCommand, Save, Swap, NewOutputFlag, Look, Restore
<1>2. PICK l \in Capturing \cup {"run", "panic"} :
        /\ at' = [at EXCEPT ![t] = l]
        /\ l = "panic" => MayBeLate
  <2>1. CASE Restore(t) /\ seen[t] # pipe[t]
    <3>1. late
      BY <2>1 DEF Restore, InOrder, Orderly
    <3>2. MayBeLate
      BY <3>1, RunnerAssumption DEF DataTypes
    <3>3. at' = [at EXCEPT ![t] = "panic"]
      BY <2>1 DEF Restore, Goto
    <3> QED BY <3>2, <3>3
  <2> QED BY <2>1 DEF CliCommand, Save, Swap, NewOutputFlag, Look, Restore, Goto
<1>3. Noise' = Noise
  BY <1>1 DEF Noise
<1>4. /\ at["main"] \notin {"exit", "panic"} /\ at["power"] # "panic"
  BY DEF Alive
<1>5. CASE l # "panic"
  <2>1. \A o \in Threads : at'[o] \in Before <=> at[o] \in Before
    BY <1>1, <1>2, <1>5
  <2>2. Goroutine' = Goroutine
    BY <2>1
  <2>3. MainOf' = MainOf
    BY <1>1, <1>2, <1>4, <1>5
  <2>4. ResultOf' = ResultOf
    BY <1>1, <1>2, <1>4, <1>5
  <2> QED BY <1>1, <1>3, <2>2, <2>3, <2>4, Unseen
<1>6. CASE l = "panic" /\ t = "main"
  <2>1. MainOf \in {"answer", "poll"} /\ MainOf' = "returned" /\ ResultOf' = "error"
    BY <1>1, <1>2, <1>4, <1>6
  <2>2. Goroutine' = Goroutine
    BY <1>2, <1>6
  <2> QED BY <1>1, <1>2, <1>3, <1>6, <2>1, <2>2, GivesUp
<1>7. CASE l = "panic" /\ t = "power"
  <2>1. Goroutine = "pending" /\ Goroutine' = "over"
    BY <1>1, <1>2, <1>7
  <2>2. ~asked /\ command = "vm.info"
    BY <1>1, <1>7
  <2>3. CASE at["main"] = "respond"
    <3>1. MainOf = "returned" /\ MainOf' = "returned" /\ ResultOf' = ResultOf
      BY <1>1, <1>2, <1>7, <2>3
    <3> QED BY <1>1, <1>3, <2>1, <3>1, NotSent
  <2>4. CASE at["main"] # "respond"
    <3>1. MainOf = "poll" /\ MainOf' = "returned" /\ ResultOf' = "error"
      BY <1>1, <1>2, <1>4, <1>7, <2>2, <2>4
    <3> QED BY <1>1, <1>2, <1>3, <1>7, <2>1, <3>1, GivesUp
  <2> QED BY <2>3, <2>4
<1> QED BY <1>5, <1>6, <1>7

(* The steps of the goroutine: it sends the power-on, or ends without.     *)
LEMMA PowerImplements ==
  ASSUME AtomicInv, Alive, RunFails("power") \/ RunPower \/ TaskEnds \/ ReadPower
  PROVE  HandshakeStep
<1> USE DEF AtomicInv, OrderInv, RunnerInv, Types, ProgressInv, Started, Threads,
          MainOf, ResultOf, Goroutine, Before, Capturing, Goto
<1>1. UNCHANGED <<asked, command, result, stdout>>
  BY DEF RunFails, Fail, RunPower, TaskEnds, ReadPower
<1>2. PICK l \in {"wait", "read", "ended"} : at' = [at EXCEPT !["power"] = l]
  BY DEF RunFails, Fail, RunPower, TaskEnds, ReadPower
<1>3. Noise' = Noise
  BY <1>1 DEF Noise
<1>4. MainOf' = MainOf /\ ResultOf' = ResultOf
  <2>1. /\ at'["main"] = at["main"] /\ at["power"] # "panic" /\ at'["power"] # "panic"
        /\ (\E t \in Threads : at'[t] = "panic") <=> (\E t \in Threads : at[t] = "panic")
    BY <1>2 DEF Alive
  <2> QED BY <1>1, <2>1
<1>5. CASE RunPower
  <2>1. Goroutine = "pending" /\ Goroutine' = "over"
    BY <1>2, <1>5 DEF RunPower
  <2>2. power = "off" /\ power' = "starting"
    BY <1>5 DEF RunPower
  <2> QED BY <1>3, <1>4, <2>1, <2>2
    DEF HandshakeStep, Handshake!HandshakeNext, Handshake!SendPowerOn, Noise
<1>6. CASE ~RunPower
  <2>1. power' = power
    BY <1>6 DEF RunFails, TaskEnds, ReadPower
  <2>2. Goroutine' = "over"
    BY <1>2
  <2>3. CASE Goroutine = "over" BY <1>3, <1>4, <2>1, <2>2, <2>3, Unseen
  <2>4. CASE Goroutine = "pending" BY <1>3, <1>4, <2>1, <2>2, <2>4, NotSent
  <2> QED BY <2>3, <2>4
<1> QED BY <1>5, <1>6

(* The steps of the main thread's commands.                                *)
LEMMA MainImplements ==
  ASSUME AtomicInv, Alive,
         \/ RunFails("main") \/ Sleep \/ RunInfo \/ RunQuestion \/ Write \/ AnswerReplyLost \/ WriteFails
         \/ ReadInfo \/ ReadQuestion \/ Respond
  PROVE  HandshakeStep
<1> USE DEF AtomicInv, OrderInv, RunnerInv, Types, ProgressInv, Started, Threads,
          MainOf, ResultOf, Before, Capturing, Goto
<1>1. PICK l \in Labels : at' = [at EXCEPT !["main"] = l]
  BY DEF RunFails, Fail, Sleep, RunInfo, RunQuestion, Write, AnswerReplyLost, WriteFails, ReadInfo,
     ReadQuestion, Respond, Labels
<1>2. Goroutine' = Goroutine
  BY <1>1 DEF Goroutine
<1>3. /\ at["main"] \notin {"exit", "panic"} /\ at["power"] # "panic"
      /\ at'["power"] # "panic" /\ at'["main"] = l
  BY <1>1 DEF Alive
<1>4. CASE Sleep \/ RunInfo
  <2>1. UNCHANGED <<power, stdout, result, command>>
    BY <1>4 DEF Sleep, RunInfo
  <2>2. Noise' = Noise
    BY <2>1 DEF Noise
  <2>3. CASE Sleep
    <3>1. at["main"] = "sleep" /\ l = "save"
      BY <1>3, <2>3 DEF Sleep
    <3>2. MainOf = "poll" /\ MainOf' = "poll" /\ ResultOf' = ResultOf
      BY <1>3, <2>1, <3>1
    <3> QED BY <1>2, <2>1, <2>2, <3>2, Unseen
  <2>4. CASE RunInfo
    <3>1. /\ at["main"] = "run" /\ command = "vm.info" /\ l = "write"
          /\ asked' = (power = "asking")
      BY <1>3, <2>4 DEF RunInfo
    <3>2. MainOf = "poll" /\ ResultOf' = ResultOf
      BY <1>3, <2>1, <3>1
    <3>3. CASE power = "asking"
      <4>1. MainOf' = "answer"
        BY <1>3, <2>1, <3>1, <3>3
      <4> QED BY <1>2, <2>1, <2>2, <3>2, <3>3, <4>1
        DEF HandshakeStep, Handshake!HandshakeNext, Handshake!Poll, Goroutine, Noise
    <3>4. CASE power # "asking"
      <4>1. MainOf' = "poll"
        BY <1>3, <2>1, <3>1, <3>4
      <4> QED BY <1>2, <2>1, <2>2, <3>2, <4>1, Unseen
    <3> QED BY <3>3, <3>4
  <2> QED BY <1>4, <2>3, <2>4
<1>5. CASE RunQuestion
  <2>1. at["main"] = "run" /\ command = "vm.question" /\ l = "read"
        /\ command' = command /\ result' = result
    BY <1>3, <1>5 DEF RunQuestion
  <2>2. MainOf = "answer" /\ MainOf' = "returned" /\ ResultOf' = "success"
    BY <1>3, <2>1
  <2>3. CASE power = "asking"
    <3>1. power' = "booting" /\ stdout' = stdout
      BY <1>5, <2>3 DEF RunQuestion
    <3>2. Noise' = Noise
      BY <3>1 DEF Noise
    <3> QED BY <1>2, <2>2, <2>3, <3>1, <3>2
      DEF HandshakeStep, Handshake!HandshakeNext, Handshake!Answer, Goroutine, Noise
  <2>4. CASE power # "asking"
    <3>1. power' = power /\ PrintNoise
      BY <1>5, <2>4 DEF RunQuestion
    <3>2. Noise' = TRUE \/ (Noise' = Noise /\ (CommandsFail \/ MayBeLate))
      <4>1. CASE osStdout = Stdout
        <5>1. stdout' = Append(stdout, "noise")
          BY <3>1, <4>1, RunnerAssumption DEF PrintNoise, DataTypes
        <5>2. /\ Len(stdout') = Len(stdout) + 1 /\ Len(stdout) \in Nat
              /\ stdout'[Len(stdout) + 1] = "noise"
          BY <5>1
        <5>3. Noise'
          BY <5>2 DEF Noise
        <5> QED BY <5>3
      <4>2. CASE osStdout # Stdout
        <5>1. stdout' = stdout
          BY <3>1, <4>2 DEF PrintNoise
        <5>2. late
          BY <2>1, <4>2 DEF InOrder, OneCapture, Orderly, Swapped
        <5>3. MayBeLate
          BY <5>2, RunnerAssumption DEF DataTypes
        <5> QED BY <5>1, <5>3 DEF Noise
      <4> QED BY <4>1, <4>2
    <3> QED BY <1>2, <2>2, <2>4, <3>1, <3>2
      DEF HandshakeStep, Handshake!HandshakeNext, Handshake!Answer, Goroutine, Noise
  <2> QED BY <2>3, <2>4
<1>6. CASE Write
  <2>1. /\ at["main"] = "write" /\ l \in {"write", "read"} /\ command = "vm.info"
        /\ UNCHANGED <<power, result, command, asked>>
    BY <1>3, <1>6 DEF Write
  <2>2. UNCHANGED stdout
    BY <1>6, RunnerAssumption DEF Write, StdoutNeverCaptured
  <2>3. MainOf' = MainOf /\ ResultOf' = ResultOf
    BY <1>3, <2>1
  <2>4. Noise' = Noise
    BY <2>2 DEF Noise
  <2> QED BY <1>2, <2>1, <2>3, <2>4, Unseen
<1>7. CASE ReadInfo /\ result' = result
  <2>1. /\ at["main"] = "read" /\ command = "vm.info"
        /\ l = IF asked THEN "save" ELSE "sleep"
        /\ command' = IF asked THEN "vm.question" ELSE "vm.info"
        /\ UNCHANGED <<power, asked, stdout>>
    BY <1>3, <1>7 DEF ReadInfo, Fail
  <2>2. MainOf' = MainOf /\ ResultOf' = ResultOf
    BY <1>3, <1>7, <2>1
  <2>3. Noise' = Noise
    BY <2>1 DEF Noise
  <2> QED BY <1>2, <2>1, <2>2, <2>3, Unseen
<1>8. CASE ReadQuestion \/ Respond
  <2>1. UNCHANGED power
    BY <1>8 DEF ReadQuestion, Respond
  <2>2. CASE ReadQuestion
    <3>1. /\ at["main"] = "read" /\ command = "vm.question" /\ l = "respond"
          /\ result' = "success" /\ UNCHANGED <<command, stdout>>
      BY <1>3, <2>2 DEF ReadQuestion
    <3>2. MainOf' = MainOf /\ ResultOf' = ResultOf
      BY <1>3, <3>1
    <3>3. Noise' = Noise
      BY <3>1 DEF Noise
    <3> QED BY <1>2, <2>1, <3>2, <3>3, Unseen
  <2>3. CASE Respond
    <3>1. /\ at["main"] = "respond" /\ l = "exit" /\ stdout' = Append(stdout, "json")
          /\ UNCHANGED <<command, result>>
      BY <1>3, <2>3 DEF Respond
    <3>2. MainOf' = MainOf /\ ResultOf' = ResultOf
      BY <1>3, <3>1
    <3>3. /\ Len(stdout) \in Nat /\ Len(stdout') = Len(stdout) + 1
          /\ stdout'[Len(stdout) + 1] = "json"
          /\ \A i \in 1..Len(stdout) : stdout'[i] = stdout[i]
      BY <3>1
    <3>4. Noise' <=> Noise
      BY <3>3 DEF Noise
    <3>5. Noise' = Noise
      BY <3>4 DEF Noise
    <3> QED BY <1>2, <2>1, <3>2, <3>5, Unseen
  <2> QED BY <1>8, <2>2, <2>3
<1>9. CASE RunFails("main") \/ WriteFails \/ (ReadInfo /\ result' # result)
  <2>1. /\ l = "respond" /\ result' = "error"
        /\ UNCHANGED <<power, stdout>>
    BY <1>3, <1>9 DEF RunFails, WriteFails, ReadInfo, Fail
  <2>2. CommandsFail \/ MayBeLate
    <3>1. CASE RunFails("main")
      BY <3>1 DEF RunFails
    <3>2. CASE WriteFails
      <4>1. late
        BY <3>2 DEF WriteFails, InOrder, Orderly, Using
      <4> QED BY <4>1, RunnerAssumption DEF DataTypes
    <3>3. CASE ReadInfo /\ result' # result
      <4>1. ~IsDocument(data[pipe["main"]]) /\ at["main"] = "read" /\ command = "vm.info"
        BY <3>3 DEF ReadInfo
      <4>2. late
        BY <4>1 DEF InOrder, OwnOutput, IsDocument
      <4> QED BY <4>2, RunnerAssumption DEF DataTypes
    <3> QED BY <1>9, <3>1, <3>2, <3>3
  <2>3. MainOf # "returned"
    <3>1. /\ at["main"] \in {"run", "wait", "write", "read"}
          /\ at["main"] = "read" => command = "vm.info"
      BY <1>9 DEF RunFails, WriteFails, ReadInfo
    <3> QED BY <1>3, <3>1
  <2>4. MainOf' = "returned" /\ ResultOf' = "error"
    BY <1>3, <2>1
  <2>5. Noise' = Noise
    BY <2>1 DEF Noise
  <2> QED BY <1>2, <2>1, <2>2, <2>3, <2>4, <2>5, GivesUp
<1>10. CASE AnswerReplyLost
  <2>1. /\ at["main"] = "run" /\ command = "vm.question" /\ CommandsFail
        /\ l = "respond" /\ result' = "error" /\ UNCHANGED stdout
        /\ power = "asking" /\ power' = "booting"
    BY <1>3, <1>10 DEF AnswerReplyLost, Fail
  <2>2. MainOf = "answer" /\ MainOf' = "returned" /\ ResultOf' = "error"
    BY <1>3, <2>1
  <2>3. Noise' = Noise
    BY <2>1 DEF Noise
  <2> QED BY <1>2, <2>1, <2>2, <2>3
    DEF HandshakeStep, Handshake!HandshakeNext, Handshake!Abandon, Goroutine, Noise
<1> QED BY <1>4, <1>5, <1>6, <1>7, <1>8, <1>9, <1>10

(* The host's steps are those of the handshake's host.                     *)
LEMMA HostImplements ==
  ASSUME Host
  PROVE  HandshakeStep
<1>1. UNCHANGED <<MainOf, ResultOf, Goroutine, Noise>>
  BY DEF Host, locals, MainOf, ResultOf, Goroutine, Noise
<1> QED BY <1>1
  DEF Host, HostAsks, HostBoots, HostFails, HandshakeStep, Handshake!HandshakeNext,
    Handshake!HostAsks, Handshake!HostBoots, Handshake!HostFails, Goroutine, Noise

(* Although a command is a dozen steps on a global variable, StartVM does  *)
(* what it would do if commands were atomic, late or not, for any output.  *)
THEOREM ImplementsHandshake == Spec => CommandsAreAtomic
<1>1. Init => Handshake!HandshakeInit /\ ProgressInv
  <2> SUFFICES ASSUME Init PROVE Handshake!HandshakeInit /\ ProgressInv
    OBVIOUS
  <2>1. /\ at["main"] = "sleep" /\ at["power"] = "save" /\ command = "vm.info"
        /\ ~asked /\ power = "off" /\ result = "none" /\ stdout = << >>
        /\ \A t \in Threads : at[t] # "panic"
    BY DEF Init, Threads
  <2>2. MainOf = "poll" /\ ResultOf = "none"
    BY <2>1 DEF MainOf, ResultOf, Before, Capturing
  <2>3. ~\E i \in 1..Len(stdout) : stdout[i] = "noise"
    BY <2>1
  <2>4. ProgressInv
    BY <2>1 DEF ProgressInv, Started, Before, Capturing
  <2> QED BY <2>1, <2>2, <2>3, <2>4 DEF Handshake!HandshakeInit, Before, Capturing
<1>2. AtomicInv /\ [Next]_vars => HandshakeStep
  <2> SUFFICES ASSUME AtomicInv, [Next]_vars PROVE HandshakeStep
    OBVIOUS
  <2>1. CASE Alive /\ MainStep
    <3>1. "main" \in Threads BY DEF Threads
    <3> QED BY <2>1, <3>1, CaptureImplements, MainImplements DEF MainStep, CliCommand
  <2>2. CASE Alive /\ PowerStep
    <3>1. "power" \in Threads BY DEF Threads
    <3> QED BY <2>2, <3>1, CaptureImplements, PowerImplements DEF PowerStep, CliCommand
  <2>3. CASE Host
    BY <2>3, HostImplements
  <2>4. CASE Stopped \/ UNCHANGED vars
    <3>1. UNCHANGED <<power, Goroutine, MainOf, ResultOf, Noise>>
      BY <2>4 DEF Stopped, vars, Goroutine, MainOf, ResultOf, Noise
    <3> QED BY <3>1, Unseen
  <2> QED BY <2>1, <2>2, <2>3, <2>4 DEF Next
<1>3. Spec => []ProgressInv
  <2>1. OrderInv => Types
    BY DEF OrderInv, RunnerInv
  <2> QED BY <1>1, <2>1, ProgressStep, OrderInvariant, PTL DEF Spec
<1>4. OrderInv /\ ProgressInv /\ ResponseInv => AtomicInv
  BY DEF AtomicInv, ResponseInv
<1> QED BY <1>1, <1>2, <1>3, <1>4, OrderInvariant, ResponseInvariant, PTL
       DEF Spec, CommandsAreAtomic, Handshake!HandshakeSpec, HandshakeStep
=============================================================================
