---------------------------- MODULE MCClientLink ----------------------------
(* ClientLink as TLC checks it. *)
EXTENDS ClientLink
=============================================================================
