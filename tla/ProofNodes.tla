----------------------------- MODULE ProofNodes -----------------------------
(***************************************************************************)
(* Proof heaps of a theorem (ProofNode in mm0-rs), their meaning as trees, *)
(* and the reference reading of a proof stream with conversions.           *)
(*                                                                         *)
(* A node is an expression (Ref, Dummy, Term = App), a proof (Hyp, Thm,    *)
(* Conv) or a conversion (Refl, Sym, Cong, Unfold).  Heaps are generated   *)
(* typed, slot by slot, so that write_proof only meets expressions and     *)
(* proofs and write_conv only conversions: the unreachable!() arms of the  *)
(* code are never reached by an elaborated proof.                          *)
(***************************************************************************)
EXTENDS MmbExpr

CONSTANTS
  ThmSig,   \* theorem id -> [args, hyps]: the environment's theorem table
  NHyps     \* hypotheses of the theorem whose proof is written

HypN(n, e)          == [k |-> "Hyp", n |-> n, e |-> e]
ThmN(t, args, res)  == [k |-> "Thm", t |-> t, args |-> args, res |-> res]
ConvN(e1, c, p)     == [k |-> "Conv", e1 |-> e1, c |-> c, p |-> p]
Refl(e)             == [k |-> "Refl", e |-> e]
Sym(c)              == [k |-> "Sym", c |-> c]
Cong(t, cs)         == [k |-> "Cong", t |-> t, cs |-> cs]
Unfold(l, l2, c)    == [k |-> "Unfold", l |-> l, l2 |-> l2, c |-> c]

Kind(h, n) ==
  CASE n.k \in {"App", "Dummy", "Arg"}          -> "expr"
    [] n.k \in {"Hyp", "Thm", "Conv"}           -> "proof"
    [] n.k \in {"Refl", "Sym", "Cong", "Unfold"} -> "conv"
    [] n.k = "Ref"                              -> h[n.i].kind

(***************************************************************************)
(* Typed heap generation.  A prefix is a sequence of [node, kind]; slot j *)
(* is element j + 1.  Leaves of each kind are the Refs to lower slots of  *)
(* that kind and one small inline node.                                   *)
(***************************************************************************)
Nullary == CHOOSE t \in TermIds : Arity[t] = 0
Unary   == CHOOSE t \in TermIds : Arity[t] = 1
Axiom0  == CHOOSE t \in DOMAIN ThmSig : ThmSig[t] = [args |-> 0, hyps |-> 0]
Axiom1  == CHOOSE t \in DOMAIN ThmSig : ThmSig[t] = [args |-> 1, hyps |-> 1]

RefsOf(p, kd) == {Ref(i) : i \in {i \in 0 .. Len(p) - 1 : p[i + 1].kind = kd}}
ELeaf(p) == RefsOf(p, "expr") \cup {App(Nullary, <<>>)}
PLeaf(p) == RefsOf(p, "proof") \cup {ThmN(Axiom0, <<>>, App(Nullary, <<>>))}
CLeaf(p) == RefsOf(p, "conv") \cup {Refl(App(Nullary, <<>>))}

ProofsOver(p) ==
  {ThmN(Axiom1, <<e, q>>, r) : e \in ELeaf(p), q \in PLeaf(p), r \in ELeaf(p)}
  \cup {ConvN(e, c, q) : e \in ELeaf(p), c \in CLeaf(p), q \in PLeaf(p)}

(* What a free slot may hold, given the slots below it.                    *)
SlotNodes(p) ==
  LET j == Len(p) IN
  {[node |-> n, kind |-> "expr"] : n \in {Dummy(j, s) : s \in SortIds}
                                    \cup {App(Unary, <<e>>) : e \in ELeaf(p)}}
  \cup {[node |-> n, kind |-> "proof"] : n \in ProofsOver(p)}
  \cup {[node |-> n, kind |-> "conv"] :
          n \in {Refl(App(Nullary, <<>>))} \cup {Sym(c) : c \in CLeaf(p)}
                \cup {Cong(Unary, <<c>>) : c \in CLeaf(p)}
                \cup {Unfold(e, e2, c) : e \in ELeaf(p), e2 \in ELeaf(p), c \in CLeaf(p)}}
  \cup {[node |-> Ref(i), kind |-> p[i + 1].kind] : i \in NArgs .. j - 1}

(* Slots 0..NArgs-1 are arguments, the next NHyps hold Hyp(n, e), then    *)
(* free slots up to HeapLen.                                               *)
RECURSIVE Prefixes(_)
Prefixes(n) ==
  IF n = 0 THEN {<<>>}
  ELSE UNION {{Append(p, x) : x \in
                 IF n - 1 < NArgs THEN {[node |-> ArgNode, kind |-> "expr"]}
                 ELSE IF n - 1 < NArgs + NHyps
                   THEN {[node |-> HypN(n - 1 - NArgs, e), kind |-> "proof"] : e \in ELeaf(p)}
                 ELSE SlotNodes(p)}
              : p \in Prefixes(n - 1)}

(* A theorem's proof: heap, the hypotheses (Refs to the Hyp slots), head. *)
ProofOf(p, hd) ==
  [heap |-> [i \in Slots |-> p[i + 1].node],
   hyps |-> [j \in 1 .. NHyps |-> Ref(NArgs + j - 1)],
   head |-> hd]

(***************************************************************************)
(* Meaning of proof-heap nodes, with sharing unfolded.  What the stream   *)
(* does not carry (the expression of a Refl, the term of a Cong) is left  *)
(* out.                                                                    *)
(***************************************************************************)
RECURSIVE PVal(_, _)
PVal(h, n) ==
  CASE n.k = "Ref"    -> IF n.i < NArgs THEN Var(n.i) ELSE PVal(h, h[n.i])
    [] n.k = "Dummy"  -> Var(n.a)
    [] n.k = "App"    -> Tree(n.t, [j \in DOMAIN n.es |-> PVal(h, n.es[j])])
    [] n.k = "Hyp"    -> HypOf(PVal(h, n.e))
    [] n.k = "Thm"    -> [k |-> "Thm", t |-> n.t, res |-> PVal(h, n.res),
                          args |-> [j \in DOMAIN n.args |-> PVal(h, n.args[j])]]
    [] n.k = "Conv"   -> [k |-> "Conv", e1 |-> PVal(h, n.e1), c |-> PVal(h, n.c), p |-> PVal(h, n.p)]
    [] n.k = "Refl"   -> [k |-> "Refl"]
    [] n.k = "Sym"    -> [k |-> "Sym", c |-> PVal(h, n.c)]
    [] n.k = "Cong"   -> [k |-> "Cong", cs |-> [j \in DOMAIN n.cs |-> PVal(h, n.cs[j])]]
    [] n.k = "Unfold" -> [k |-> "Unfold", l |-> PVal(h, n.l), l2 |-> PVal(h, n.l2), c |-> PVal(h, n.c)]
=============================================================================
