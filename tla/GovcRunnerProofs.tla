-------------------------- MODULE GovcRunnerProofs --------------------------
(***************************************************************************)
(* For every interleaving of the two goroutines of StartVM: the check at   *)
(* the end of captureOutputFlagStdout is enough to keep the commands' JSON *)
(* from the director.  The argument: a capture that saw its own pipe in    *)
(* os.Stdout after its output flag was made cannot have given the flag the *)
(* real standard output, for the other goroutine can put this pipe back    *)
(* into os.Stdout only if it has saved it before, and from then until it   *)
(* puts it back os.Stdout is one of the two pipes.                         *)
(***************************************************************************)
EXTENDS GovcRunner, TLAPS

Swapping == {"swap", "flag", "look", "restore"}
Using == {"run", "write", "wait", "read"}

Types ==
  /\ osStdout \in Files
  /\ at \in [Threads -> Labels]
  /\ old \in [Threads -> Files] /\ pipe \in [Threads -> Files]
  /\ out \in [Threads -> Files] /\ seen \in [Threads -> Files]

\* A capture has a pipe, and nobody else has it.
OwnPipe == \A t, o \in Threads :
  at[t] \in Swapping \cup Using =>
    /\ pipe[t] \in Pipes
    /\ t # o => pipe[t] # pipe[o]

\* Until a capture swaps its pipe in, the pipe is nowhere.
NotYetSeen == \A t, o \in Threads :
  at[t] = "swap" /\ t # o => osStdout # pipe[t] /\ old[o] # pipe[t]

\* While the other goroutine may put this one's pipe back, os.Stdout is not
\* the standard output.
NotStdout == \A t, o \in Threads :
  /\ at[t] = "flag" /\ at[o] \in Swapping
  /\ t # o /\ old[o] = pipe[t]
  => osStdout # Stdout

\* A flag that got the standard output will not be followed by a look that
\* sees the pipe.
WillPanic == \A t, o \in Threads :
  at[t] = "look" /\ out[t] = Stdout /\ t # o =>
    /\ osStdout # pipe[t]
    /\ at[o] \in Swapping => old[o] # pipe[t]

Panics == \A t \in Threads :
  at[t] = "restore" /\ out[t] = Stdout => seen[t] # pipe[t]

RunnerInv == /\ Types /\ OwnPipe /\ NotYetSeen /\ NotStdout /\ WillPanic
             /\ Panics /\ StdoutNeverCaptured

\* A step of thread t outside its capture.
Outside(t) ==
  /\ osStdout' = osStdout
  /\ \E l \in Labels \ Swapping :
       /\ at' = [at EXCEPT ![t] = l]
       /\ l \in Using => at[t] \in Using /\ UNCHANGED locals
  /\ UNCHANGED locals \/ Forget(t)

(* A step outside a capture preserves the invariant.                       *)
LEMMA OutsideKeeps ==
  ASSUME RunnerInv, NEW t \in Threads, Outside(t)
  PROVE  RunnerInv'
<1> USE RunnerAssumption
<1>1. PICK l \in Labels \ Swapping :
        /\ at' = [at EXCEPT ![t] = l]
        /\ l \in Using => at[t] \in Using /\ UNCHANGED locals
  BY DEF Outside
<1>2. Types'
  BY <1>1 DEF RunnerInv, Types, Outside, Forget, locals, Files
<1>3. OwnPipe'
  <2> SUFFICES ASSUME NEW a \in Threads, NEW b \in Threads,
                      (at[a] \in Swapping \cup Using)'
               PROVE  (pipe[a] \in Pipes)' /\ (a # b => pipe'[a] # pipe'[b])
    BY DEF OwnPipe
  <2>1. at[a] \in Swapping \cup Using
    BY <1>1 DEF RunnerInv, Types
  <2>2. pipe[a] \in Pipes /\ (a # b => pipe[a] # pipe[b])
    BY <2>1 DEF RunnerInv, OwnPipe
  <2>3. a # t \/ UNCHANGED locals
    BY <1>1 DEF RunnerInv, Types
  <2>4. pipe'[a] = pipe[a]
    BY <2>3 DEF Outside, Forget, locals, RunnerInv, Types
  <2>5. pipe'[b] \in {pipe[b], Stdout}
    BY DEF Outside, Forget, locals, RunnerInv, Types
  <2> QED BY <2>2, <2>4, <2>5
<1>4. ASSUME NEW a \in Threads, at'[a] \in Swapping
      PROVE  /\ at[a] = at'[a] /\ a # t
             /\ old'[a] = old[a] /\ pipe'[a] = pipe[a]
             /\ out'[a] = out[a] /\ seen'[a] = seen[a]
  BY <1>1, <1>4 DEF Outside, Forget, locals, RunnerInv, Types
<1>5. ASSUME NEW a \in Threads PROVE old'[a] \in {old[a], Stdout}
  BY DEF Outside, Forget, locals, RunnerInv, Types
<1>6. osStdout' = osStdout
  BY DEF Outside
<1>7. NotYetSeen'
  <2> SUFFICES ASSUME NEW a \in Threads, NEW b \in Threads, at'[a] = "swap", a # b
               PROVE  osStdout' # pipe'[a] /\ old'[b] # pipe'[a]
    BY DEF NotYetSeen
  <2>1. at[a] = "swap" /\ pipe'[a] = pipe[a]
    BY <1>4 DEF Swapping
  <2>2. osStdout # pipe[a] /\ old[b] # pipe[a] /\ pipe[a] \in Pipes
    BY <2>1 DEF RunnerInv, NotYetSeen, OwnPipe, Swapping
  <2> QED BY <2>1, <2>2, <1>5, <1>6
<1>8. NotStdout'
  BY <1>4, <1>6 DEF RunnerInv, NotStdout, Swapping
<1>9. WillPanic'
  BY <1>4, <1>6 DEF RunnerInv, WillPanic, Swapping
<1>10. Panics'
  BY <1>4 DEF RunnerInv, Panics, Swapping
<1>11. StdoutNeverCaptured'
  <2> SUFFICES ASSUME NEW a \in Threads, at'[a] \in Using PROVE out'[a] \in Pipes
    BY DEF StdoutNeverCaptured, Using
  <2>1. at[a] \in Using /\ out'[a] = out[a]
    BY <1>1 DEF Outside, Forget, locals, RunnerInv, Types
  <2> QED BY <2>1 DEF RunnerInv, StdoutNeverCaptured, Using
<1> QED BY <1>2, <1>3, <1>7, <1>8, <1>9, <1>10, <1>11 DEF RunnerInv

(* captureOutputFlagStdout takes a pipe that no variable refers to.        *)
LEMMA SaveKeeps ==
  ASSUME RunnerInv, NEW t \in Threads, Save(t)
  PROVE  RunnerInv'
<1> USE RunnerAssumption
<1> DEFINE p == CHOOSE q \in Fresh : TRUE
<1>1. /\ p \in Pipes /\ p # osStdout
      /\ \A o \in Threads : p # old[o] /\ p # pipe[o]
  BY DEF Save, Fresh
<1>2. /\ at[t] = "save" /\ at' = [at EXCEPT ![t] = "swap"]
      /\ pipe' = [pipe EXCEPT ![t] = p] /\ old' = [old EXCEPT ![t] = osStdout]
      /\ osStdout' = osStdout /\ out' = out /\ seen' = seen
  BY DEF Save, Goto
<1> HIDE DEF p
<1> USE DEF RunnerInv, Types, Files
<1>3. Types'
  BY <1>1, <1>2 DEF Labels, Capturing
<1>4. OwnPipe'
  BY <1>1, <1>2 DEF OwnPipe, Swapping, Using
<1>5. NotYetSeen'
  BY <1>1, <1>2 DEF NotYetSeen
<1>6. NotStdout'
  <2> SUFFICES ASSUME NEW a \in Threads, NEW b \in Threads,
                      at'[a] = "flag", a # b, old'[b] = pipe'[a], at'[b] \in Swapping
               PROVE  osStdout' # Stdout
    BY DEF NotStdout
  <2>1. a # t /\ at[a] = "flag" /\ pipe'[a] = pipe[a]
    BY <1>2
  <2>2. pipe[a] \in Pipes
    BY <2>1 DEF OwnPipe, Swapping
  <2>3. CASE b = t BY <2>1, <2>2, <2>3, <1>2
  <2>4. CASE b # t BY <2>1, <2>4, <1>2 DEF NotStdout
  <2> QED BY <2>3, <2>4
<1>7. WillPanic'
  BY <1>1, <1>2 DEF WillPanic
<1>8. Panics' /\ StdoutNeverCaptured'
  BY <1>2 DEF Panics, StdoutNeverCaptured
<1> QED BY <1>3, <1>4, <1>5, <1>6, <1>7, <1>8

(* It puts the pipe into os.Stdout.                                        *)
LEMMA SwapKeeps ==
  ASSUME RunnerInv, NEW t \in Threads, Swap(t)
  PROVE  RunnerInv'
<1> USE RunnerAssumption DEF RunnerInv, Types, Files
<1>1. /\ at[t] = "swap" /\ at' = [at EXCEPT ![t] = "flag"]
      /\ osStdout' = pipe[t] /\ pipe[t] \in Pipes
      /\ pipe' = pipe /\ old' = old /\ out' = out /\ seen' = seen
  BY DEF Swap, Goto, locals, OwnPipe, Swapping
<1>2. Types'
  BY <1>1 DEF Labels, Capturing
<1>3. OwnPipe'
  BY <1>1 DEF OwnPipe, Swapping, Using
<1>4. NotYetSeen'
  BY <1>1 DEF NotYetSeen, OwnPipe, Swapping
<1>5. NotStdout'
  BY <1>1 DEF NotStdout
<1>6. WillPanic'
  BY <1>1 DEF WillPanic, OwnPipe, Swapping
<1>7. Panics' /\ StdoutNeverCaptured'
  BY <1>1 DEF Panics, StdoutNeverCaptured
<1> QED BY <1>2, <1>3, <1>4, <1>5, <1>6, <1>7

(* The output flag remembers os.Stdout.                                    *)
LEMMA FlagKeeps ==
  ASSUME RunnerInv, NEW t \in Threads, NewOutputFlag(t)
  PROVE  RunnerInv'
<1> USE RunnerAssumption DEF RunnerInv, Types, Files
<1>1. /\ at[t] = "flag" /\ at' = [at EXCEPT ![t] = "look"]
      /\ out' = [out EXCEPT ![t] = osStdout] /\ pipe[t] \in Pipes
      /\ pipe' = pipe /\ old' = old /\ osStdout' = osStdout /\ seen' = seen
  BY DEF NewOutputFlag, Goto, OwnPipe, Swapping
<1>2. Types'
  BY <1>1 DEF Labels, Capturing
<1>3. OwnPipe' /\ NotYetSeen'
  BY <1>1 DEF OwnPipe, NotYetSeen, Swapping, Using
<1>4. NotStdout'
  BY <1>1 DEF NotStdout, Swapping
<1>5. WillPanic'
  <2> SUFFICES ASSUME NEW a \in Threads, NEW b \in Threads,
                      at'[a] = "look", out'[a] = Stdout, a # b
               PROVE  /\ osStdout # pipe[a]
                      /\ at'[b] \in Swapping => old[b] # pipe[a]
    BY <1>1 DEF WillPanic
  <2>1. CASE a = t BY <1>1, <2>1 DEF NotStdout
  <2>2. CASE a # t BY <1>1, <2>2 DEF WillPanic, Swapping
  <2> QED BY <2>1, <2>2
<1>6. Panics' /\ StdoutNeverCaptured'
  BY <1>1 DEF Panics, StdoutNeverCaptured
<1> QED BY <1>2, <1>3, <1>4, <1>5, <1>6

(* os.Stdout is read a second time, for the check.                         *)
LEMMA LookKeeps ==
  ASSUME RunnerInv, NEW t \in Threads, Look(t)
  PROVE  RunnerInv'
<1> USE RunnerAssumption DEF RunnerInv, Types, Files
<1>1. /\ at[t] = "look" /\ at' = [at EXCEPT ![t] = "restore"]
      /\ seen' = [seen EXCEPT ![t] = osStdout]
      /\ pipe' = pipe /\ old' = old /\ osStdout' = osStdout /\ out' = out
  BY DEF Look, Goto
<1>2. Types'
  BY <1>1 DEF Labels, Capturing
<1>3. OwnPipe' /\ NotYetSeen'
  BY <1>1 DEF OwnPipe, NotYetSeen, Swapping, Using
<1>4. NotStdout' /\ WillPanic'
  BY <1>1 DEF NotStdout, WillPanic, Swapping
<1>5. Panics'
  <2> SUFFICES ASSUME NEW a \in Threads, at'[a] = "restore", out[a] = Stdout
               PROVE  seen'[a] # pipe[a]
    BY <1>1 DEF Panics
  <2>1. CASE a = t
    <3>1. PICK o \in Threads : o # t BY DEF Threads
    <3> QED BY <1>1, <2>1, <3>1 DEF WillPanic
  <2>2. CASE a # t BY <1>1, <2>2 DEF Panics
  <2> QED BY <2>1, <2>2
<1>6. StdoutNeverCaptured'
  BY <1>1 DEF StdoutNeverCaptured
<1> QED BY <1>2, <1>3, <1>4, <1>5, <1>6

(* os.Stdout is put back, and the check passes or panics.                  *)
LEMMA RestoreKeeps ==
  ASSUME RunnerInv, NEW t \in Threads, Restore(t)
  PROVE  RunnerInv'
<1> USE RunnerAssumption DEF RunnerInv, Types, Files
<1>1. /\ at[t] = "restore" /\ osStdout' = old[t]
      /\ pipe' = pipe /\ old' = old /\ seen' = seen /\ out' = out
  BY DEF Restore, locals
<1>2. PICK l \in {"run", "panic"} :
        /\ at' = [at EXCEPT ![t] = l]
        /\ l = "run" => seen[t] = pipe[t]
  BY DEF Restore, Goto
<1>3. Types'
  BY <1>1, <1>2 DEF Labels, Capturing
<1>4. OwnPipe'
  BY <1>1, <1>2 DEF OwnPipe, Swapping, Using
<1>5. NotYetSeen'
  BY <1>1, <1>2 DEF NotYetSeen
<1>6. NotStdout'
  BY <1>1, <1>2 DEF NotStdout, Swapping, Threads
<1>7. WillPanic'
  BY <1>1, <1>2 DEF WillPanic, Swapping
<1>8. Panics'
  BY <1>1, <1>2 DEF Panics
<1>9. StdoutNeverCaptured'
  BY <1>1, <1>2 DEF Panics, StdoutNeverCaptured
<1> QED BY <1>3, <1>4, <1>5, <1>6, <1>7, <1>8, <1>9

(* The steps that are not of captureOutputFlagStdout are outside captures. *)
LEMMA CommandsAreOutside ==
  ASSUME Types, NEW t \in Threads,
         \/ RunFails(t)
         \/ t = "power" /\ (RunPower \/ TaskEnds \/ ReadPower)
         \/ t = "main" /\ (\/ Sleep \/ RunInfo \/ RunQuestion \/ Write \/ AnswerReplyLost \/ WriteFails
                           \/ ReadInfo \/ ReadQuestion \/ Respond)
  PROVE  Outside(t)
<1> USE DEF Types, Labels, Capturing, Swapping, Using, Goto, Outside
<1>1. CASE RunFails(t)
  <2>1. PICK l \in {"respond", "ended"} : at' = [at EXCEPT ![t] = l]
    BY <1>1 DEF RunFails, Fail
  <2> QED BY <1>1, <2>1 DEF RunFails, Fail
<1>2. CASE t = "power" /\ RunPower
  BY <1>2 DEF RunPower, locals
<1>3. CASE t = "power" /\ TaskEnds
  BY <1>3 DEF TaskEnds, locals
<1>4. CASE t = "power" /\ ReadPower
  <2>1. at' = [at EXCEPT !["power"] = "ended"]
    BY <1>4 DEF ReadPower
  <2> QED BY <1>4, <2>1 DEF ReadPower
<1>5. CASE t = "main" /\ Sleep
  <2>1. at' = [at EXCEPT !["main"] = "save"]
    BY <1>5 DEF Sleep, locals
  <2> QED BY <1>5, <2>1 DEF Sleep, locals
<1>6. CASE t = "main" /\ RunInfo
  BY <1>6 DEF RunInfo, locals
<1>7. CASE t = "main" /\ RunQuestion
  BY <1>7 DEF RunQuestion, locals
<1>8. CASE t = "main" /\ Write
  <2>1. PICK l \in {"read", "write"} : at' = [at EXCEPT !["main"] = l]
    BY <1>8 DEF Write
  <2> QED BY <1>8, <2>1 DEF Write, locals
<1>9. CASE t = "main" /\ (AnswerReplyLost \/ WriteFails)
  <2>1. at' = [at EXCEPT !["main"] = "respond"]
    BY <1>9 DEF AnswerReplyLost, WriteFails, Fail
  <2> QED BY <1>9, <2>1 DEF AnswerReplyLost, WriteFails, Fail
<1>10. CASE t = "main" /\ ReadInfo
  <2>1. PICK l \in {"save", "sleep", "respond"} : at' = [at EXCEPT !["main"] = l]
    BY <1>10 DEF ReadInfo, Fail
  <2> QED BY <1>10, <2>1 DEF ReadInfo, Fail
<1>11. CASE t = "main" /\ ReadQuestion
  <2>1. at' = [at EXCEPT !["main"] = "respond"]
    BY <1>11 DEF ReadQuestion
  <2> QED BY <1>11, <2>1 DEF ReadQuestion
<1>12. CASE t = "main" /\ Respond
  BY <1>12 DEF Respond, locals
<1> QED BY <1>1, <1>2, <1>3, <1>4, <1>5, <1>6, <1>7, <1>8, <1>9, <1>10, <1>11, <1>12

(* The step obligation of the first theorem, by the parts of Next.         *)
LEMMA RunnerStep == RunnerInv /\ [Next]_vars => RunnerInv'
<1> SUFFICES ASSUME RunnerInv, [Next]_vars PROVE RunnerInv'
  OBVIOUS
<1>1. ASSUME NEW t \in Threads, CliCommand(t) PROVE RunnerInv'
  <2>1. RunFails(t) => Outside(t)
    BY CommandsAreOutside DEF RunnerInv
  <2> QED BY <1>1, <2>1, OutsideKeeps, SaveKeeps, SwapKeeps, FlagKeeps, LookKeeps,
             RestoreKeeps DEF CliCommand
<1>2. CASE MainStep
  <2>1. CASE CliCommand("main")
    BY <1>1, <2>1 DEF Threads
  <2>2. CASE ~CliCommand("main")
    <3>1. Outside("main")
      BY <1>2, <2>2, CommandsAreOutside DEF MainStep, RunnerInv, Threads
    <3> QED BY <3>1, OutsideKeeps DEF Threads
  <2> QED BY <2>1, <2>2
<1>3. CASE PowerStep
  <2>1. CASE CliCommand("power")
    BY <1>1, <2>1 DEF Threads
  <2>2. CASE ~CliCommand("power")
    <3>1. Outside("power")
      BY <1>3, <2>2, CommandsAreOutside DEF PowerStep, RunnerInv, Threads
    <3> QED BY <3>1, OutsideKeeps DEF Threads
  <2> QED BY <2>1, <2>2
<1>4. CASE Host \/ Stopped \/ UNCHANGED vars
  <2>1. UNCHANGED <<osStdout, at, old, pipe, out, seen>>
    BY <1>4 DEF Host, Stopped, vars, locals
  <2> QED BY <2>1 DEF RunnerInv, Types, OwnPipe, NotYetSeen, NotStdout, WillPanic,
                     Panics, StdoutNeverCaptured
<1> QED BY <1>2, <1>3, <1>4 DEF Next

(* Whatever the order of the two captures, and whatever fails, a command   *)
(* that runs does not have the director's stdout as its output.            *)
THEOREM NeverCaptured == Spec => []StdoutNeverCaptured
<1>1. Init => RunnerInv
  BY RunnerAssumption DEF Init, RunnerInv, Types, OwnPipe, NotYetSeen, NotStdout,
     WillPanic, Panics, StdoutNeverCaptured, Files, Labels, Capturing, Swapping,
     Using, Threads
<1>2. RunnerInv => StdoutNeverCaptured
  BY DEF RunnerInv
<1> QED BY <1>1, <1>2, RunnerStep, PTL DEF Spec

-----------------------------------------------------------------------------
Plain(s) == \A i \in 1..Len(s) : s[i] # "json"

ResponseInv ==
  /\ stdout \in Seq({"json", "noise"})
  /\ at["main"] # "exit" => Plain(stdout)
  /\ OneResponse

(* Only Respond writes JSON to the director, and only noise comes before.  *)
LEMMA ResponseStep ==
  RunnerInv /\ ResponseInv /\ [Next]_vars => ResponseInv'
<1> SUFFICES ASSUME RunnerInv, ResponseInv, [Next]_vars PROVE ResponseInv'
  OBVIOUS
<1> USE DEF ResponseInv
<1>1. ASSUME UNCHANGED stdout, at'["main"] = "exit" <=> at["main"] = "exit"
      PROVE  ResponseInv'
  BY <1>1 DEF OneResponse, Plain
<1>2. CASE Host \/ Stopped \/ UNCHANGED vars
  BY <1>1, <1>2 DEF Host, Stopped, vars
<1>3. ASSUME Alive, NEW t \in Threads, CliCommand(t) PROVE ResponseInv'
  <2>1. UNCHANGED stdout
    BY <1>3 DEF CliCommand, Save, Swap, NewOutputFlag, Look, Restore, RunFails
  <2>2. PICK l \in Labels \ {"exit"} : at' = [at EXCEPT ![t] = l]
    BY <1>3 DEF CliCommand, Save, Swap, NewOutputFlag, Look, Restore, RunFails, Fail,
       Goto, Labels, Capturing
  <2>3. at["main"] # "exit"
    BY <1>3 DEF Alive
  <2> QED BY <1>1, <2>1, <2>2, <2>3 DEF RunnerInv, Types
<1>4. CASE Alive /\ PowerStep
  <2>1. CASE CliCommand("power") BY <1>3, <1>4, <2>1 DEF Threads
  <2>2. CASE RunPower \/ TaskEnds \/ ReadPower
    <3>1. UNCHANGED stdout /\ at'["main"] = at["main"]
      BY <2>2 DEF RunPower, TaskEnds, ReadPower, Goto, RunnerInv, Types, Threads
    <3> QED BY <1>1, <3>1
  <2> QED BY <1>4, <2>1, <2>2 DEF PowerStep
<1>5. CASE Alive /\ MainStep
  <2> USE DEF Goto
  <2>1. at["main"] # "exit" /\ Plain(stdout)
    BY <1>5 DEF Alive
  <2>2. CASE CliCommand("main") BY <1>3, <1>5, <2>2 DEF Threads
  <2>3. CASE Sleep \/ RunInfo \/ AnswerReplyLost \/ WriteFails \/ ReadInfo \/ ReadQuestion
    <3>1. UNCHANGED stdout
      BY <2>3 DEF Sleep, RunInfo, AnswerReplyLost, WriteFails, ReadInfo, ReadQuestion
    <3>2. PICK l \in Labels \ {"exit"} : at' = [at EXCEPT !["main"] = l]
      BY <2>3 DEF Sleep, RunInfo, AnswerReplyLost, WriteFails, ReadInfo, ReadQuestion, Fail, Labels,
         Capturing
    <3> QED BY <1>1, <2>1, <3>1, <3>2 DEF RunnerInv, Types, Threads
  <2>4. CASE Write
    <3>1. UNCHANGED stdout
      BY <2>4, RunnerAssumption DEF Write, RunnerInv, StdoutNeverCaptured, Threads
    <3>2. at'["main"] # "exit"
      BY <2>4 DEF Write, RunnerInv, Types, Threads
    <3> QED BY <1>1, <2>1, <3>1, <3>2
  <2>5. CASE RunQuestion
    <3>1. stdout' \in {stdout, Append(stdout, "noise")}
      BY <2>5 DEF RunQuestion, PrintNoise
    <3>2. at'["main"] = "read"
      BY <2>5 DEF RunQuestion, RunnerInv, Types, Threads
    <3>3. stdout' \in Seq({"json", "noise"}) /\ Plain(stdout')
      BY <2>1, <3>1 DEF Plain
    <3> QED BY <3>2, <3>3 DEF OneResponse, Plain
  <2>6. CASE Respond
    <3>1. stdout' = Append(stdout, "json") /\ at'["main"] = "exit"
      BY <2>6 DEF Respond, RunnerInv, Types, Threads
    <3>2. /\ stdout' \in Seq({"json", "noise"})
          /\ Len(stdout') = Len(stdout) + 1
          /\ stdout'[Len(stdout')] = "json"
          /\ \A i \in 1..Len(stdout) : stdout'[i] # "json"
      BY <2>1, <3>1 DEF Plain
    <3>3. OneResponse'
      <4> DEFINE n == Len(stdout')
      <4>1. n \in 1..n /\ \A j \in 1..n : stdout'[j] = "json" <=> n = j
        BY <3>2
      <4> QED BY <4>1 DEF OneResponse
    <3> QED BY <3>1, <3>2, <3>3
  <2> QED BY <1>5, <2>2, <2>3, <2>4, <2>5, <2>6 DEF MainStep
<1> QED BY <1>2, <1>4, <1>5 DEF Next

(* What the director reads, and how far the call has come.                 *)
THEOREM ResponseInvariant == Spec => []ResponseInv
<1>1. Init => RunnerInv /\ ResponseInv
  BY RunnerAssumption DEF Init, RunnerInv, Types, OwnPipe, NotYetSeen, NotStdout,
     WillPanic, Panics, StdoutNeverCaptured, Files, Labels, Capturing, Swapping,
     Using, Threads, ResponseInv, Plain, OneResponse
<1> QED BY <1>1, RunnerStep, ResponseStep, PTL DEF Spec

(* A process that exits has written exactly one JSON document to stdout.   *)
THEOREM RespondsOnce == Spec => []OneResponse
<1>1. ResponseInv => OneResponse
  BY DEF ResponseInv
<1> QED BY <1>1, ResponseInvariant, PTL
=============================================================================
