---------------------------- MODULE CpiHandshake ----------------------------
(* The StartVM part of a create_vm of Cpi implements PowerOnHandshake, as  *)
(* GovcRunner does: Cpi may take commands as atomic.                       *)
EXTENDS Cpi

StartsVM(c) == Op(c) = "create_vm"
Exited(c) == StartsVM(c) /\ pc[c] = "done"

\* The goroutine ends with its process.
GoroutineOf(c) ==
  IF StartsVM(c) /\ pc[c] \in {"poll", "answer", "done"} /\ ~mem[c].pon
    THEN "over" ELSE "pending"

MainOf(c) == CASE Exited(c)        -> "returned"
               [] pc[c] = "answer" -> "answer"
               [] OTHER            -> "poll"

ResultOf(c) == CASE Exited(c) /\ resp[c] \in {"ok", "garbled"}   -> "success"
                 [] Exited(c) /\ resp[c] \in {"none", "error"}   -> "error"
                 [] OTHER                                        -> "none"

Handshake(c) == INSTANCE PowerOnHandshake WITH
  CommandsMayFail <- TRUE,
  TaskMayFail <- "poweron" \in Faults,
  power <- vm[c].power,
  goroutine <- GoroutineOf(c),
  main <- MainOf(c),
  result <- ResultOf(c),
  noise <- StartsVM(c) /\ resp[c] = "garbled"

HandshakeStep(c) == [Handshake(c)!HandshakeNext]_(Handshake(c)!hvars)

(* Every create_vm powers its VM on at most once, answers only a question  *)
(* that it has seen, reports success only then, and until it has returned  *)
(* nothing but the host touches the VM's power.  This is                   *)
(* \A c \in Cid : Handshake(c)!HandshakeSpec, in the form that TLC takes.  *)
StartsAreHandshakes == /\ \A c \in Cid : Handshake(c)!HandshakeInit
                       /\ [][\A c \in Cid : HandshakeStep(c)]_vars
=============================================================================
