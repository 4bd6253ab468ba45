-------------------------- MODULE MCTurnCoalescer --------------------------
(* Instances of TurnCoalescer for TLC.                                     *)
EXTENDS TurnCoalescer, TLC

\* Requests and workers are interchangeable.
ProcSymmetry == Permutations(Procs)
=============================================================================
