-------------------------- MODULE MCIOManagerLoop --------------------------
(***************************************************************************)
(* Small instances of IOManagerLoop.                                       *)
(***************************************************************************)
EXTENDS IOManagerLoop

=============================================================================
