--------------------------- MODULE MCSocketTables --------------------------
(***************************************************************************)
(* Small instances of SocketTables, with the table sizes of the code.      *)
(***************************************************************************)
EXTENDS SocketTables, TLC

ThreadSymmetry == Permutations(Threads)

=============================================================================
