---------------------------- MODULE MCPackSocket ----------------------------
(* Commands for checking PackSocket: of one to three packages, with and   *)
(* without payload.                                                         *)
EXTENDS PackSocket

MCMessages == << [cmd |-> "a", parts |-> <<1, 2, 0>>],
                 [cmd |-> "a", parts |-> <<0>>],
                 [cmd |-> "c", parts |-> <<0, 1>>],
                 [cmd |-> "b", parts |-> <<0>>] >>
=============================================================================
