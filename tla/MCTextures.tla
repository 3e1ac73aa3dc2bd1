----------------------------- MODULE MCTextures ------------------------------
(***************************************************************************)
(* Small instances of Textures: the first texture is multiplied and drawn  *)
(* plainly, the second is not used, the third is drawn plainly.            *)
(***************************************************************************)
EXTENDS Textures, TLC

TextureOfDrawable == [over |-> 1, shade |-> 1, face |-> 3]
ImageSymmetry == Permutations(Images)

=============================================================================
