-------------------------- MODULE PowerOnHandshake --------------------------
(***************************************************************************)
(* What StartVM of govc_client.go promises, with every govc command taken  *)
(* as one indivisible step: a goroutine sends the power-on of a copied VM, *)
(* the host asks whether the VM was moved or copied, and the main          *)
(* goroutine polls until it sees the question, answers it and returns.     *)
(*                                                                         *)
(* Two specifications are shown to implement this one: GovcRunner, where a *)
(* command is many steps on shared global state, and Cpi, where the        *)
(* handshake is a part of create_vm.                                       *)
(***************************************************************************)
CONSTANTS CommandsMayFail,  \* a Boolean: the main goroutine's commands may fail
          TaskMayFail       \* a Boolean: the host's power-on task may fail

VARIABLES power,      \* of the VM, as in EsxiHost
          goroutine,  \* "pending": vm.power has not been sent yet
          main,       \* the main goroutine: polling, about to answer, returned
          result,     \* what StartVM returned
          noise       \* "No pending question" has been printed on stdout

hvars == <<power, goroutine, main, result, noise>>

HandshakeInit ==
  /\ power = "off"
  /\ goroutine = "pending"
  /\ main = "poll"
  /\ result = "none"
  /\ noise = FALSE

\* The goroutine sends the power-on, or finds that it cannot and only logs it.
SendPowerOn ==
  /\ goroutine = "pending"
  /\ goroutine' = "over"
  /\ \/ power = "off" /\ power' = "starting"
     \/ UNCHANGED power
  /\ UNCHANGED <<main, result, noise>>

Poll ==
  /\ main = "poll"
  /\ power = "asking"
  /\ main' = "answer"
  /\ UNCHANGED <<power, goroutine, result, noise>>

\* The loop was left because of a question, but vm.question looks again.
Answer ==
  /\ main = "answer"
  /\ main' = "returned"
  /\ result' = "success"
  /\ \/ power = "asking" /\ power' = "booting" /\ UNCHANGED noise
     \/ /\ power # "asking"
        /\ noise' = TRUE \/ (CommandsMayFail /\ UNCHANGED noise)
        /\ UNCHANGED power
  /\ UNCHANGED goroutine

\* A command fails, possibly after the host has obeyed it, or the process
\* ends: the goroutine may end with it.
Abandon ==
  /\ CommandsMayFail
  /\ main # "returned"
  /\ main' = "returned"
  /\ result' = "error"
  /\ goroutine' \in {goroutine, "over"}
  /\ \/ UNCHANGED power
     \/ main = "answer" /\ power = "asking" /\ power' = "booting"
  /\ UNCHANGED noise

HostAsks == /\ power = "starting"
            /\ power' = "asking"
            /\ UNCHANGED <<goroutine, main, result, noise>>

HostBoots == /\ power = "booting"
             /\ power' = "on"
             /\ UNCHANGED <<goroutine, main, result, noise>>

HostFails == /\ TaskMayFail
             /\ power \in {"starting", "asking", "booting"}
             /\ power' = "off"
             /\ UNCHANGED <<goroutine, main, result, noise>>

\* Once StartVM has returned the VM belongs to later calls.
StopLater == /\ main = "returned"
             /\ power' = "off"
             /\ UNCHANGED <<goroutine, main, result, noise>>

HandshakeNext == \/ SendPowerOn \/ Poll \/ Answer \/ Abandon
                 \/ HostAsks \/ HostBoots \/ HostFails \/ StopLater

HandshakeSpec == HandshakeInit /\ [][HandshakeNext]_hvars
=============================================================================
