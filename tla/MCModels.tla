------------------------------ MODULE MCModels ------------------------------
(***************************************************************************)
(* Small instances of Models: two names, two objects.                      *)
(***************************************************************************)
EXTENDS Models, TLC

CONSTANTS newShader, newMesh

TwoNames == <<newShader, newMesh>>

Symmetry == Permutations(ModelIds)

=============================================================================
