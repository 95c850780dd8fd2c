--------------------------- MODULE MC_ProofStream ---------------------------
(***************************************************************************)
(* A term table with one nullary and one unary term, and a theorem table   *)
(* with an axiom taking nothing and an axiom taking one binder argument   *)
(* and one hypothesis: enough for every ProofNode variant to appear, for  *)
(* Thm's split of its arguments to matter, and for Cong to take an        *)
(* argument conversion.                                                    *)
(***************************************************************************)
EXTENDS ProofStream, TLC

MCArity == "c" :> 0 @@ "f" :> 1
MCThmSig == "triv" :> [args |-> 0, hyps |-> 0] @@ "ax" :> [args |-> 1, hyps |-> 1]
MCSortIds == {1}
=============================================================================
