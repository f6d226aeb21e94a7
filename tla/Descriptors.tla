---------------------------- MODULE Descriptors ----------------------------
(***************************************************************************)
(* What the two tables that are indexed by a descriptor share: the numbers *)
(* that are used and the threads that use them.                            *)
(***************************************************************************)
EXTENDS Naturals

CONSTANTS
  Fds,      \* descriptor numbers
  Threads,
  None      \* no descriptor

ASSUME DescriptorsAssumption == Fds \subseteq Nat /\ None \notin Nat

=============================================================================
