-------------------------- MODULE MCProcessManager --------------------------
(* Symmetry sets for the safety runs of ProcessManager: the calls of Start   *)
(* and of Tail are interchangeable.                                          *)
EXTENDS ProcessManagerProperties, TLC

TailSymmetry == Permutations(Tails)
ProcSymmetry == Permutations(Procs)
=============================================================================
