---------------------------- MODULE MC_ExprProof ----------------------------
(* Model-checking instance of ExprProof: one nullary term c, one binary    *)
(* term f, one sort, a declaration with one argument and a heap of three *)
(* slots, so that a slot can be a dummy, an application sharing another   *)
(* slot twice, or a Ref chain to another slot.                             *)
EXTENDS ExprProof, TLC

MCArity == "c" :> 0 @@ "f" :> 2
MCSortIds == {1}
=============================================================================
