----------------------------- MODULE MCPictures -----------------------------
(* Three modules for the model checker: a short one, one whose table is as   *)
(* long as the ring list, and one whose power file is missing.               *)
EXTENDS Pictures

MCRows == [short |-> <<"a", "c">>, full |-> <<"c", "a", "d">>, broken |-> <<"a">>]
=============================================================================
