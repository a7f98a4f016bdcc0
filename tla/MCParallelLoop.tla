---------------------------- MODULE MCParallelLoop ----------------------------
(***************************************************************************)
(* Instances of ParallelLoop for TLC.                                      *)
(***************************************************************************)
EXTENDS ParallelLoop

LocatedFault == {[stage |-> "test", at |-> "tests"]}

NoFaults == {}
=============================================================================
