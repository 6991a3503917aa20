----------------------------- MODULE MCWindows -----------------------------
(* Instance of WindowManager for TLC: programs and menus are interchangeable. *)
EXTENDS WindowManager, TLC

WindowSymmetry == Permutations(Apps) \cup Permutations(Menus)
=============================================================================
