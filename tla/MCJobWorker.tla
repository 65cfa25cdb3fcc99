---------------------------- MODULE MCJobWorker ----------------------------
(***************************************************************************)
(* Instances of JobWorker for TLC.                                         *)
(***************************************************************************)
EXTENDS JobWorker, TLC

(* Task identities are interchangeable; used by safety runs only. *)
TaskSymmetry == Permutations(Task)
=============================================================================
