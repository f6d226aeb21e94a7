------------------------------ MODULE MCSocket ------------------------------
(***************************************************************************)
(* A small instance of Socket.  Socket objects, fibers and numbers differ  *)
(* only in their names.                                                    *)
(***************************************************************************)
EXTENDS Socket, TLC

(* Nothing is claimed of what follows a ::close() that reports an error. *)
BeforeCloseFails == ~closeFailed

AllSymmetry ==
  Permutations(Sockets) \cup Permutations(Fibers) \cup Permutations(Numbers)

=============================================================================
