----------------------------- MODULE ExprProof -----------------------------
(***************************************************************************)
(* The proof-stream expression serializer write_expr_proof (export.rs     *)
(* 154-179), driven as Exporter::run drives it for the body of a Def and  *)
(* of an Axiom (export.rs 604-612, 620-629, 648): fresh Reorder map, the  *)
(* hypotheses in order each followed by ProofCmd::Hyp, then the statement, *)
(* then the terminating 0 byte.                                            *)
(*                                                                         *)
(* The recursion is an explicit stack of frames, so that each step emits  *)
(* at most one command:                                                    *)
(*   Call(n, save)  a pending write_expr_proof(n, save)                    *)
(*   TermF(t, save) the ProofCmd::Term written after an App's children    *)
(*   SetMap(i)      `reorder.map[i] = Some(n)` after a Ref's expansion     *)
(* rv is the u32 the last finished call returned.                          *)
(***************************************************************************)
EXTENDS MmbExpr

CONSTANTS
  MaxHyps   \* bound on the number of hypotheses of an axiom

VARIABLES
  decl,     \* the declaration: [kind, heap, hyps, ret]
  map,      \* reorder.map: slot -> output index, or None
  idx,      \* reorder.idx: the next output index
  stack,    \* the recursion, top first
  rv,       \* the value returned by the last finished call
  out,      \* the scratch buffer `vec`
  pc,       \* "next" | "hyp" | "ret" | "done"
  k         \* hypotheses written so far

vars == <<decl, map, idx, stack, rv, out, pc, k>>

None == -1

Call(n, save) == [f |-> "call", n |-> n, save |-> save]
TermF(t, save) == [f |-> "term", t |-> t, save |-> save]
SetMap(i) == [f |-> "set", i |-> i]

(* A Def's value: a heap that may hold dummies, and a head.  An Axiom's   *)
(* statement: a heap of its arguments' terms, hypotheses and a return.    *)
DefDecls == [kind : {"def"}, heap : Heaps(TRUE), hyps : {<<>>}, ret : TopNodes]
AxiomDecls ==
  [kind : {"axiom"}, heap : Heaps(FALSE),
   hyps : UNION {[1 .. m -> TopNodes] : m \in 0 .. MaxHyps}, ret : TopNodes]
Decls == DefDecls \cup AxiomDecls

(* Reorder::new(nargs, len, |i| i): arguments map to themselves.           *)
ReorderNew(nargs, len) == [i \in 0 .. len - 1 |-> IF i < nargs THEN i ELSE None]

Init ==
  /\ decl \in Decls
  /\ map = ReorderNew(NArgs, HeapLen)
  /\ idx = NArgs
  /\ stack = <<>>
  /\ rv = 0
  /\ out = <<>>
  /\ pc = "next"
  /\ k = 0

Top == Head(stack)
Pop == Tail(stack)
Emit(c) == out' = Append(out, c)

(* ExprNode::Ref(i) with map[i] = None: expand heap[i] with save = true,  *)
(* then record the returned index.                                         *)
RefFresh ==
  /\ stack # <<>> /\ Top.f = "call" /\ Top.n.k = "Ref"
  /\ map[Top.n.i] = None
  /\ stack' = <<Call(decl.heap[Top.n.i], TRUE), SetMap(Top.n.i)>> \o Pop
  /\ UNCHANGED <<decl, map, idx, rv, out, pc, k>>

(* ExprNode::Ref(i) with map[i] = Some(n): ProofCmd::Ref(n), return n.     *)
RefSaved ==
  /\ stack # <<>> /\ Top.f = "call" /\ Top.n.k = "Ref"
  /\ map[Top.n.i] # None
  /\ Emit(PRef(map[Top.n.i]))
  /\ rv' = map[Top.n.i]
  /\ stack' = Pop
  /\ UNCHANGED <<decl, map, idx, pc, k>>

(* Variant with `reorder.idx += 1` before the index is read.               *)
DummyNodePreIncr ==
  /\ stack # <<>> /\ Top.f = "call" /\ Top.n.k = "Dummy"
  /\ Emit(PDummy(Top.n.a, Top.n.s))
  /\ rv' = idx + 1
  /\ idx' = idx + 1
  /\ stack' = Pop
  /\ UNCHANGED <<decl, map, pc, k>>

(* ExprNode::Dummy(_, s): ProofCmd::Dummy(s), return idx++.                *)
DummyNode ==
  /\ stack # <<>> /\ Top.f = "call" /\ Top.n.k = "Dummy"
  /\ Emit(PDummy(Top.n.a, Top.n.s))
  /\ rv' = idx
  /\ idx' = idx + 1
  /\ stack' = Pop
  /\ UNCHANGED <<decl, map, pc, k>>

(* Variant writing the children last to first.                            *)
AppEnterReversed ==
  /\ stack # <<>> /\ Top.f = "call" /\ Top.n.k = "App"
  /\ stack' = [j \in DOMAIN Top.n.es |-> Call(Top.n.es[Len(Top.n.es) + 1 - j], FALSE)]
                \o <<TermF(Top.n.t, Top.save)>> \o Pop
  /\ UNCHANGED <<decl, map, idx, rv, out, pc, k>>

(* ExprNode::App(tid, es): the children with save = false, then the term. *)
AppEnter ==
  /\ stack # <<>> /\ Top.f = "call" /\ Top.n.k = "App"
  /\ stack' = [j \in DOMAIN Top.n.es |-> Call(Top.n.es[j], FALSE)]
                \o <<TermF(Top.n.t, Top.save)>> \o Pop
  /\ UNCHANGED <<decl, map, idx, rv, out, pc, k>>

(* Variant that returns idx for a saved term but never advances it.        *)
AppTermNoIncr ==
  /\ stack # <<>> /\ Top.f = "term"
  /\ Emit(PTerm(Top.t, Top.save))
  /\ rv' = IF Top.save THEN idx ELSE 0
  /\ UNCHANGED <<decl, map, idx, pc, k>>
  /\ stack' = Pop

(* Variant that advances idx for every term, saved or not.               *)
AppTermAlwaysIncr ==
  /\ stack # <<>> /\ Top.f = "term"
  /\ Emit(PTerm(Top.t, Top.save))
  /\ rv' = IF Top.save THEN idx ELSE 0
  /\ idx' = idx + 1
  /\ stack' = Pop
  /\ UNCHANGED <<decl, map, pc, k>>

(* ProofCmd::Term {tid, save}; return idx++ if save, else 0.               *)
AppTerm ==
  /\ stack # <<>> /\ Top.f = "term"
  /\ Emit(PTerm(Top.t, Top.save))
  /\ rv' = IF Top.save THEN idx ELSE 0
  /\ idx' = IF Top.save THEN idx + 1 ELSE idx
  /\ stack' = Pop
  /\ UNCHANGED <<decl, map, pc, k>>

(* reorder.map[i] = Some(n) once heap[i] has been written.                 *)
RefRecord ==
  /\ stack # <<>> /\ Top.f = "set"
  /\ map' = [map EXCEPT ![Top.i] = rv]
  /\ stack' = Pop
  /\ UNCHANGED <<decl, idx, rv, out, pc, k>>

(* Axiom: `for (_, h) in hyps { write_expr_proof(h, false) ... }`.          *)
StartHyp ==
  /\ pc = "next" /\ k < Len(decl.hyps)
  /\ stack' = <<Call(decl.hyps[k + 1], FALSE)>>
  /\ pc' = "hyp"
  /\ UNCHANGED <<decl, map, idx, rv, out, k>>

(* `ProofCmd::Hyp.write_to(vec)` after a hypothesis; reorder.idx is left   *)
(* as it is.                                                               *)
EmitHyp ==
  /\ pc = "hyp" /\ stack = <<>>
  /\ Emit(PHyp)
  /\ k' = k + 1
  /\ pc' = "next"
  /\ UNCHANGED <<decl, map, idx, stack, rv>>

(* The statement: write_expr_proof(head / ret, false).                     *)
StartRet ==
  /\ pc = "next" /\ k = Len(decl.hyps)
  /\ stack' = <<Call(decl.ret, FALSE)>>
  /\ pc' = "ret"
  /\ UNCHANGED <<decl, map, idx, rv, out, k>>

(* `vec.write_u8(0)`: the body is complete.                                *)
EndBody ==
  /\ pc = "ret" /\ stack = <<>>
  /\ Emit(PEnd)
  /\ pc' = "done"
  /\ UNCHANGED <<decl, map, idx, stack, rv, k>>

(* The body has been handed to write_cmd_bytes; nothing more happens.     *)
Finished == pc = "done" /\ UNCHANGED vars

Next ==
  \/ RefFresh \/ RefSaved \/ DummyNode \/ AppEnter \/ AppTerm \/ RefRecord
  \/ StartHyp \/ EmitHyp \/ StartRet \/ EndBody
  \/ Finished

Spec == Init /\ [][Next]_vars /\ WF_vars(Next)

-----------------------------------------------------------------------------
(* Types, and the bound on output indices.                               *)
TypeOK ==
  /\ decl \in Decls
  /\ map \in [Slots -> {None} \cup Nat]
  \* each index past the arguments belongs to one shared heap slot
  /\ idx \in NArgs .. HeapLen
  /\ rv \in Nat
  /\ pc \in {"next", "hyp", "ret", "done"}
  /\ k \in 0 .. MaxHyps

(* The slot a Ref chain ends at: two slots that reach the same node      *)
(* through Refs are one shared node.                                       *)
RECURSIVE Canon(_, _)
Canon(h, i) == IF i >= NArgs /\ h[i].k = "Ref" THEN Canon(h, h[i].i) ELSE i

(* Sharing, in the exporter's own terms (spec section 8, items 1 and 2):  *)
(* two slots that have output indices share one exactly when they are the *)
(* same node through Ref chains, and every index is one already handed   *)
(* out by reorder.idx.  Breaking it takes a Ref whose expansion returns   *)
(* the wrong index, or an index handed out twice.                          *)
SlotIndexCanonical ==
  \A i, j \in Slots :
    map[i] # None /\ map[j] # None =>
      /\ map[i] < idx
      /\ (map[i] = map[j] <=> Canon(decl.heap, i) = Canon(decl.heap, j))

(* Reading the finished body gives back the declaration: the stack holds  *)
(* exactly the statement, the hypothesis list holds the hypotheses in     *)
(* order, and every Ref named the entry the exporter meant.               *)
BodyRoundTrip ==
  pc = "done" =>
    LET r == Read(out) IN
    /\ r.ok
    /\ r.stk = <<Val(decl.heap, decl.ret)>>
    /\ r.hyps = [j \in DOMAIN decl.hyps |-> Val(decl.heap, decl.hyps[j])]

(* Sharing: once a slot has an index, it is never expanded again; every   *)
(* index held by the map names a reader heap entry equal to its meaning.  *)
SharedSlotsResolve ==
  \A i \in Slots :
    map[i] # None =>
      LET r == Read(out) IN
      r.ok /\ map[i] < Len(r.hp) /\ r.hp[map[i] + 1] = Val(decl.heap, Ref(i))

(* The two properties above where the axiom_hyp_index finding does not    *)
(* reach them: the body of a declaration without hypotheses reads back as *)
(* the declaration, and until the first ProofCmd::Hyp is written every    *)
(* index the map holds names the reader's entry for that slot.            *)
RoundTripNoHyps == decl.hyps = <<>> => BodyRoundTrip

SharedSlotsBeforeHyp == k = 0 => SharedSlotsResolve
=============================================================================
