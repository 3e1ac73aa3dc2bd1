----------------------------- MODULE MCArguments -----------------------------
(***************************************************************************)
(* Small instances of Arguments.                                           *)
(***************************************************************************)
EXTENDS Arguments

NothingOrMore == {<<>>, <<"lines">>, <<"number", "long">>}

=============================================================================
