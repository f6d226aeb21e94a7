---------------------------- MODULE MCIOManager ----------------------------
(***************************************************************************)
(* Small instances of IOManager.                                           *)
(***************************************************************************)
EXTENDS IOManager, TLC

WaiterSymmetry == Permutations(Waiters)

=============================================================================
