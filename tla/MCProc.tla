------------------------------- MODULE MCProc -------------------------------
(* Instance of Proc for TLC: the constants come from the .cfg files.        *)
EXTENDS Proc
=============================================================================
