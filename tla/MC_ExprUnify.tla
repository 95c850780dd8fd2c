---------------------------- MODULE MC_ExprUnify ----------------------------
(* Model-checking instance of ExprUnify: one nullary term c, one binary   *)
(* term f, one sort, one argument, a heap of three slots.                  *)
EXTENDS ExprUnify, TLC

MCArity == "c" :> 0 @@ "f" :> 2
MCSortIds == {1}
=============================================================================
