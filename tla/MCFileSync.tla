----------------------------- MODULE MCFileSync -----------------------------
(* Two files for checking FileSync; an edit may make a file shorter or longer *)
(* than it was when it was listed.                                           *)
EXTENDS FileSyncFlow

CONSTANTS f1, f2

MCOrder == <<f1, f2>>
MCSizeOf == <<1, 0, 2>>
=============================================================================
