------------------------------- MODULE Asked -------------------------------
(***************************************************************************)
(* A pure computation is asked for with one input.                         *)
(***************************************************************************)
VARIABLE asked  \* the computation that was asked for, with its input
=============================================================================
