----------------------------- MODULE MCRefData ------------------------------
(***************************************************************************)
(* A small instance of RefData: five slots, two objects, two names.        *)
(***************************************************************************)
EXTENDS RefData, TLC

Symmetry == Permutations(Objects) \cup Permutations(Names)

=============================================================================
