------------------------------ MODULE MCFrames -------------------------------
(***************************************************************************)
(* Small instances of Frames: one motion, which may drive the              *)
(* parameter.                                                              *)
(***************************************************************************)
EXTENDS Frames

=============================================================================
