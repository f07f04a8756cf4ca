------------------------------ MODULE Contract ------------------------------
(***************************************************************************)
(* What a CPI promises its director about the things it makes (stemcells,  *)
(* VMs and disks), whatever happens inside a call: a thing the director    *)
(* was told of is whole on the host until a delete of it begins; only a    *)
(* delete that has begun takes anything away; a delete that reports        *)
(* success has left nothing, and nothing comes back.                       *)
(***************************************************************************)
CONSTANTS Things,  \* what there may ever be
          Given    \* what there is at first

VARIABLES status,  \* what the director can know of a thing
          host     \* how much of it the host has

cvars == <<status, host>>

Presence == {"no", "partly", "whole"}

\* What may be left of a thing of which there was p.
Less(p) == IF p = "whole" THEN Presence
           ELSE IF p = "partly" THEN {"no", "partly"} ELSE {"no"}

ContractInit ==
  /\ status = [x \in Things |-> IF x \in Given THEN "exists" ELSE "absent"]
  /\ host = [x \in Things |-> IF x \in Given THEN "whole" ELSE "no"]

Become(x, s, p) == /\ status' = [status EXCEPT ![x] = s]
                   /\ host' = [host EXCEPT ![x] = p]

\* A create call begins; until it returns the thing is in the making.
BeginCreate(x) == /\ status[x] = "absent"
                  /\ Become(x, "making", host[x])

Build(x) == /\ status[x] = "making"
            /\ \E p \in Presence : Become(x, "making", p)

\* It succeeds: the director has the cid, and the thing is there.
Created(x) == /\ status[x] = "making"
              /\ Become(x, "exists", "whole")

\* It fails or dies: whatever it had made stays as it is.
GiveUp(x) == /\ status[x] = "making"
             /\ \E p \in Presence : Become(x, "failed", p)

\* From the first delete call on, the thing is taken away bit by bit, by that
\* call or by a repetition.
BeginDelete(x) == /\ status[x] = "exists"
                  /\ Become(x, "dying", host[x])

TakeAway(x) == /\ status[x] = "dying"
               /\ \E p \in Less(host[x]) : Become(x, "dying", p)

Deleted(x) == /\ status[x] = "dying"
              /\ Become(x, "gone", "no")

ContractNext == \E x \in Things :
  \/ BeginCreate(x) \/ Build(x) \/ Created(x) \/ GiveUp(x)
  \/ BeginDelete(x) \/ TakeAway(x) \/ Deleted(x)

ContractSpec == ContractInit /\ [][ContractNext]_cvars
=============================================================================
