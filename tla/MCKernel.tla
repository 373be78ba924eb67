------------------------------ MODULE MCKernel ------------------------------
(***************************************************************************)
(* Instances of Kernel for TLC.  A configuration switches a component off  *)
(* with an empty set of inputs: no semaphores, no read sizes, and a buffer *)
(* of one slot, which is always full, for no keys.                         *)
(***************************************************************************)
EXTENDS Kernel

\* Semaphores are named by model values and nothing tells them apart, so their
\* permutation is a symmetry of the safety properties.
SemSymmetry == Permutations(Sem)
=============================================================================
