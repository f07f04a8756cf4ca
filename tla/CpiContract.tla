---------------------------- MODULE CpiContract ----------------------------
(* Cpi keeps the contract: the refinement mapping.  A thing is named by    *)
(* the call that creates it.                                               *)
EXTENDS Cpi

Begun(c) == pc[c] # "idle"

\* Calls of a delete method on x that have begun.
Deletes(x) == {c \in Cid : /\ Begun(c) /\ Obj(c) = x
                           /\ Op(c) \in {"delete_stemcell", "delete_vm", "delete_disk"}}

Making(x) == Begun(x) /\ Op(x) \in {"create_stemcell", "create_vm", "create_disk"}

StatusOf(x) ==
  CASE ~Making(x)                                -> "absent"
    [] Making(x) /\ Running(x)                   -> "making"
    [] Making(x) /\ ~Running(x) /\ resp[x] # "ok" -> "failed"
    [] OTHER -> IF Deletes(x) = {} THEN "exists"
                ELSE IF \E c \in Deletes(x) : resp[c] = "ok" THEN "gone"
                ELSE "dying"

HostHas(x) ==
  CASE x \in disks \/ (vm[x].reg /\ vm[x].dir)         -> "whole"
    [] x \notin disks /\ ~vm[x].reg /\ ~vm[x].dir      -> "no"
    [] OTHER                                           -> "partly"

Promise == INSTANCE Contract WITH
  Things <- Cid, Given <- Imported,
  status <- [x \in Cid |-> StatusOf(x)],
  host <- [x \in Cid |-> HostHas(x)]

(* With calls overlapping in any way, on one thing too, with failing       *)
(* commands, lost replies and processes that die, the create and delete    *)
(* methods keep the contract.                                              *)
KeepsContract == Promise!ContractSpec

(* has_vm looks once and answers later.  It never finds a VM which a       *)
(* delete has reported gone, so that a wrong "yes" takes a delete_vm that  *)
(* ran while has_vm did; and it never answers that a VM is missing which   *)
(* was made and of which no delete has begun.                              *)
HasVMAgrees ==
  [][\A c \in Cid : Op(c) = "has_vm" =>
       /\ pc[c] = "has" /\ pc'[c] = "present" => StatusOf(Obj(c)) # "gone"
       /\ resp[c] = "none" /\ resp'[c] = "no" => StatusOf(Obj(c)) # "exists"]_vars
=============================================================================
