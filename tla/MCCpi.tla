------------------------------- MODULE MCCpi -------------------------------
(* Finite instances of Cpi for TLC: the configurations give the constants. *)
EXTENDS CpiContract, CpiHandshake, TLC

CONSTANTS s0, c1, c2, c3, c4, c5

\* The calls that have not yet begun are interchangeable, the stemcell is not;
\* so are the MAC addresses.
CallSymmetry == Permutations(Cid \ Imported) \cup Permutations(Macs)

\* Bounds on the histories explored: how many calls fail or die.
Failed == {c \in Cid : pc[c] = "done" /\ resp[c] \notin {"ok", "yes", "no"}}
AtMostOneFails == Cardinality(Failed) <= 1
AtMostTwoFail == Cardinality(Failed) <= 2
=============================================================================
