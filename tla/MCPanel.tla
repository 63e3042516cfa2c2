------------------------------ MODULE MCPanel ------------------------------
(* Two threads of the pool, so that a SHUTON may also meet another one, and  *)
(* an OTP command both.  The threads of the pool are interchangeable.        *)
EXTENDS Panel, TLC

Threads == Permutations(Pool)
=============================================================================
