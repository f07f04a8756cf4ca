-------------------------- MODULE GovcRunnerAtomic --------------------------
(* GovcRunner implements PowerOnHandshake: a command takes effect once, in *)
(* the step that runs it, whatever the capture does around it.             *)
EXTENDS GovcRunner

Before == Capturing \cup {"run"}

\* A question is seen when vm.info has run, and gone when vm.question has.
MainOf ==
  CASE at["main"] \in {"respond", "exit", "panic"} -> "returned"
    [] at["power"] = "panic"                       -> "returned"
    [] command = "vm.question" /\ at["main"] = "read" -> "returned"
    [] command = "vm.question" /\ at["main"] \in Before -> "answer"
    [] command = "vm.info" /\ at["main"] \in {"write", "read"} /\ asked -> "answer"
    [] OTHER -> "poll"

ResultOf ==
  CASE result # "none" -> result
    [] \E t \in Threads : at[t] = "panic" -> "error"
    [] command = "vm.question" /\ at["main"] = "read" -> "success"
    [] OTHER -> "none"

Handshake == INSTANCE PowerOnHandshake WITH
  CommandsMayFail <- CommandsFail \/ MayBeLate,
  TaskMayFail <- PowerOnFails,
  goroutine <- IF at["power"] \in Before THEN "pending" ELSE "over",
  main <- MainOf,
  result <- ResultOf,
  noise <- \E i \in 1..Len(stdout) : stdout[i] = "noise"

(* Although a command is a dozen steps on a global variable, StartVM does  *)
(* what it would do if commands were atomic: the VM is powered on and the  *)
(* question answered at most once, and success is reported only then.      *)
CommandsAreAtomic == Handshake!HandshakeSpec
=============================================================================
