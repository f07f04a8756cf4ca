---------------------------- MODULE MCGovcRunner ----------------------------
(* Finite instances of GovcRunner: the configurations give the constants.  *)
EXTENDS GovcRunnerAtomic
=============================================================================
