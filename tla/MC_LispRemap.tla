---------------------------- MODULE MC_LispRemap ----------------------------
(* Model-checking instance of LispRemap.                                   *)
EXTENDS LispRemap, TLC
=============================================================================
