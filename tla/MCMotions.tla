----------------------------- MODULE MCMotions ------------------------------
(***************************************************************************)
(* Small instances of Motions: two names, short motions.                   *)
(***************************************************************************)
EXTENDS Motions

=============================================================================
