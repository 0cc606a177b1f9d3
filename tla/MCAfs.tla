------------------------------- MODULE MCAfs -------------------------------
(* Afs for TLC: the workers are interchangeable.                           *)
EXTENDS Afs, TLC

WorkerSymmetry == Permutations(Procs)
============================================================================
