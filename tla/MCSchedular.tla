---------------------------- MODULE MCSchedular ----------------------------
(***************************************************************************)
(* Small instances of Schedular.  Workers differ only in their ids and     *)
(* tasks only in their names; the liveness runs use no symmetry.           *)
(***************************************************************************)
EXTENDS Schedular, TLC

WorkerSymmetry == Permutations(Workers)
TaskSymmetry   == Permutations(Tasks)
BothSymmetry   == WorkerSymmetry \cup TaskSymmetry

=============================================================================
