------------------------------ MODULE MCEynFs ------------------------------
(* Instances of EynFs for TLC. *)
EXTENDS EynFs
FilePaths == {<<"a">>, <<"b">>}
TreePaths == {<<"a">>, <<"d">>, <<"d", "b">>}
=============================================================================
