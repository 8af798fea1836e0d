--------------------------- MODULE MCMonitorScope ---------------------------
(***************************************************************************)
(* MonitorScope with interchangeable tasks, the start-up task apart.       *)
(***************************************************************************)
EXTENDS MonitorScope, TLC

MCSymmetry == Permutations(Tasks \ {Main})
=============================================================================
