----------------------------- MODULE MC_Binders -----------------------------
(* Binders at a scaled word width: three dependency bits stand for the 55 *)
(* of the code and one sort bit for its seven, with up to four binders,   *)
(* so that a declaration with one bound binder too many is reached.       *)
EXTENDS Binders
=============================================================================
