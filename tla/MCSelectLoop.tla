---------------------------- MODULE MCSelectLoop ----------------------------
(***************************************************************************)
(* SelectLoop with two descriptors for clients beside the listening one.   *)
(***************************************************************************)
EXTENDS SelectLoop

Symmetry == Permutations(Client)
=============================================================================
