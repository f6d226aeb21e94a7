------------------------------- MODULE MCHook ------------------------------
(***************************************************************************)
(* Small instances of Hook: the configurations choose the kind of call,    *)
(* whether it has a timeout, and the bounds.                               *)
(***************************************************************************)
EXTENDS Hook
=============================================================================
