---------------------------- MODULE ProofStream ----------------------------
(***************************************************************************)
(* Exporter::write_proof and Exporter::write_conv (export.rs 325-427),     *)
(* driven by the Thm branch of Exporter::run (export.rs 631-650): a fresh  *)
(* Reorder, each hypothesis's expression then ProofCmd::Hyp with its index *)
(* recorded in `ehyps`, then the proof, then the terminating 0 byte.       *)
(*                                                                         *)
(* The two mutually recursive functions are one explicit stack of frames: *)
(*   PCall(n, save)  write_proof(n, save)     CCall(n)   write_conv(n)     *)
(*   TermF / ThmF    the Term / Thm command written after the arguments    *)
(*   ConvF(c, save)  ProofCmd::Conv, then write_conv(c), then SaveF(save)   *)
(*   SaveF(save)     ProofCmd::Save and idx++ if save                      *)
(*   SetMap(i)       reorder.map[i] = Some(n) after write_proof(heap[i])   *)
(*   CutF(i)         ProofCmd::ConvSave and map[i] = idx++ after a cut     *)
(*   UnfoldF(c)      ProofCmd::Unfold, then write_conv(c)                  *)
(***************************************************************************)
EXTENDS ProofNodes

VARIABLES
  prf,      \* the theorem's proof: [heap, hyps, head]
  map,      \* reorder.map
  idx,      \* reorder.idx
  ehyps,    \* indices of the hypotheses written so far
  stack,    \* the recursion, top first
  rv,       \* the u32 returned by the last finished write_proof
  out,      \* the scratch buffer
  pc        \* "next" | "hyp" | "ret" | "done"

vars == <<prf, map, idx, ehyps, stack, rv, out, pc>>

None == -1

PCall(n, save) == [f |-> "pcall", n |-> n, save |-> save]
CCall(n)       == [f |-> "ccall", n |-> n]
TermF(t, save) == [f |-> "term", t |-> t, save |-> save]
ThmF(t, save)  == [f |-> "thm", t |-> t, save |-> save]
ConvF(c, save) == [f |-> "conv", c |-> c, save |-> save]
SaveF(save)    == [f |-> "save", save |-> save]
SetMap(i)      == [f |-> "set", i |-> i]
CutF(i)        == [f |-> "cut", i |-> i]
UnfoldF(c)     == [f |-> "unfold", c |-> c]

(* ProofCmd values not already in MmbExpr; Cong carries its term as a     *)
(* ghost so the reading knows how many conversions follow.                *)
PThm(t, save) == [op |-> "Thm", t |-> t, save |-> save]
PConv         == [op |-> "Conv"]
PSave         == [op |-> "Save"]
PRefl         == [op |-> "Refl"]
PSym          == [op |-> "Sym"]
PCong(t)      == [op |-> "Cong", t |-> t]
PUnfold       == [op |-> "Unfold"]
PConvCut      == [op |-> "ConvCut"]
PConvSave     == [op |-> "ConvSave"]
PConvRef(n)   == [op |-> "ConvRef", n |-> n]

ReorderNew(nargs, len) == [i \in 0 .. len - 1 |-> IF i < nargs THEN i ELSE None]

Init ==
  /\ \E p \in Prefixes(HeapLen) : \E hd \in PLeaf(p) \cup ProofsOver(p) : prf = ProofOf(p, hd)
  /\ map = ReorderNew(NArgs, HeapLen)
  /\ idx = NArgs
  /\ ehyps = <<>>
  /\ stack = <<>>
  /\ rv = 0
  /\ out = <<>>
  /\ pc = "next"

Top == Head(stack)
Pop == Tail(stack)
Emit(c) == out' = Append(out, c)
IsCall(kd) == stack # <<>> /\ Top.f = "pcall" /\ Top.n.k = kd
IsConv(kd) == stack # <<>> /\ Top.f = "ccall" /\ Top.n.k = kd
At(kd) == stack # <<>> /\ Top.f = kd

(* idx++ as the value of an expression, when `save` asks for it.          *)
SavedIdx(save) == /\ rv' = IF save THEN idx ELSE 0
                  /\ idx' = IF save THEN idx + 1 ELSE idx

-----------------------------------------------------------------------------
(* write_proof *)

(* ProofNode::Ref(i), map[i] = None: write_proof(heap[i], true), record.  *)
PRefFresh ==
  /\ IsCall("Ref") /\ map[Top.n.i] = None
  /\ stack' = <<PCall(prf.heap[Top.n.i], TRUE), SetMap(Top.n.i)>> \o Pop
  /\ UNCHANGED <<prf, map, idx, ehyps, rv, out, pc>>

(* ProofNode::Ref(i), map[i] = Some(n): ProofCmd::Ref(n), return n.        *)
PRefSaved ==
  /\ IsCall("Ref") /\ map[Top.n.i] # None
  /\ Emit(PRef(map[Top.n.i]))
  /\ rv' = map[Top.n.i]
  /\ stack' = Pop
  /\ UNCHANGED <<prf, map, idx, ehyps, pc>>

RecordRef ==
  /\ At("set")
  /\ map' = [map EXCEPT ![Top.i] = rv]
  /\ stack' = Pop
  /\ UNCHANGED <<prf, idx, ehyps, rv, out, pc>>

(* ProofNode::Dummy(_, s): ProofCmd::Dummy(s), return idx++.               *)
PDummyNode ==
  /\ IsCall("Dummy")
  /\ Emit(PDummy(Top.n.a, Top.n.s))
  /\ rv' = idx
  /\ idx' = idx + 1
  /\ stack' = Pop
  /\ UNCHANGED <<prf, map, ehyps, pc>>

(* ProofNode::Term {term, args}: the arguments, then Term {term, save}.    *)
PTermEnter ==
  /\ IsCall("App")
  /\ stack' = [j \in DOMAIN Top.n.es |-> PCall(Top.n.es[j], FALSE)]
                \o <<TermF(Top.n.t, Top.save)>> \o Pop
  /\ UNCHANGED <<prf, map, idx, ehyps, rv, out, pc>>

PTermEmit ==
  /\ At("term")
  /\ Emit(PTerm(Top.t, Top.save))
  /\ SavedIdx(Top.save)
  /\ stack' = Pop
  /\ UNCHANGED <<prf, map, ehyps, pc>>

(* ProofNode::Hyp(n, _): ProofCmd::Ref(hyps[n]), return hyps[n].           *)
PHypNode ==
  /\ IsCall("Hyp")
  /\ Emit(PRef(ehyps[Top.n.n + 1]))
  /\ rv' = ehyps[Top.n.n + 1]
  /\ stack' = Pop
  /\ UNCHANGED <<prf, map, idx, ehyps, pc>>

(* Variant writing the binder arguments before the hypothesis proofs.     *)
PThmEnterArgsFirst ==
  /\ IsCall("Thm")
  /\ LET na == ThmSig[Top.n.t].args
         as == SubSeq(Top.n.args, 1, na)
         hs == SubSeq(Top.n.args, na + 1, Len(Top.n.args))
     IN stack' = [j \in DOMAIN as |-> PCall(as[j], FALSE)]
                 \o [j \in DOMAIN hs |-> PCall(hs[j], FALSE)]
                 \o <<PCall(Top.n.res, FALSE), ThmF(Top.n.t, Top.save)>> \o Pop
  /\ UNCHANGED <<prf, map, idx, ehyps, rv, out, pc>>

(* ProofNode::Thm {thm, args, res}: `args.split_at(thm's arg count)`; the *)
(* hypothesis proofs, then the binder arguments, then res, then Thm.       *)
PThmEnter ==
  /\ IsCall("Thm")
  /\ LET na == ThmSig[Top.n.t].args
         as == SubSeq(Top.n.args, 1, na)
         hs == SubSeq(Top.n.args, na + 1, Len(Top.n.args))
     IN stack' = [j \in DOMAIN hs |-> PCall(hs[j], FALSE)]
                 \o [j \in DOMAIN as |-> PCall(as[j], FALSE)]
                 \o <<PCall(Top.n.res, FALSE), ThmF(Top.n.t, Top.save)>> \o Pop
  /\ UNCHANGED <<prf, map, idx, ehyps, rv, out, pc>>

PThmEmit ==
  /\ At("thm")
  /\ Emit(PThm(Top.t, Top.save))
  /\ SavedIdx(Top.save)
  /\ stack' = Pop
  /\ UNCHANGED <<prf, map, ehyps, pc>>

(* ProofNode::Conv(e1, c, p): e1 and p as proofs, then Conv.              *)
PConvEnter ==
  /\ IsCall("Conv")
  /\ stack' = <<PCall(Top.n.e1, FALSE), PCall(Top.n.p, FALSE), ConvF(Top.n.c, Top.save)>> \o Pop
  /\ UNCHANGED <<prf, map, idx, ehyps, rv, out, pc>>

(* ProofCmd::Conv, then write_conv(c), then the save.                     *)
PConvEmit ==
  /\ At("conv")
  /\ Emit(PConv)
  /\ stack' = <<CCall(Top.c), SaveF(Top.save)>> \o Pop
  /\ UNCHANGED <<prf, map, idx, ehyps, rv, pc>>

(* `if save { ProofCmd::Save; idx++ } else { 0 }`.                         *)
SaveAfterConv ==
  /\ At("save")
  /\ IF Top.save THEN Emit(PSave) ELSE UNCHANGED out
  /\ SavedIdx(Top.save)
  /\ stack' = Pop
  /\ UNCHANGED <<prf, map, ehyps, pc>>
-----------------------------------------------------------------------------
(* write_conv *)

(* ProofNode::Ref(i), map[i] = None, heap[i] a Refl or a Ref: written in   *)
(* place, nothing recorded.                                                *)
CRefInline ==
  /\ IsConv("Ref") /\ map[Top.n.i] = None
  /\ prf.heap[Top.n.i].k \in {"Refl", "Ref"}
  /\ stack' = <<CCall(prf.heap[Top.n.i])>> \o Pop
  /\ UNCHANGED <<prf, map, idx, ehyps, rv, out, pc>>

(* Any other fresh Ref: ConvCut, the conversion, then CutF.               *)
CRefCut ==
  /\ IsConv("Ref") /\ map[Top.n.i] = None
  /\ prf.heap[Top.n.i].k \notin {"Refl", "Ref"}
  /\ Emit(PConvCut)
  /\ stack' = <<CCall(prf.heap[Top.n.i]), CutF(Top.n.i)>> \o Pop
  /\ UNCHANGED <<prf, map, idx, ehyps, rv, pc>>

(* Variant incrementing reorder.idx before recording it.                   *)
CCutSavePreIncr ==
  /\ At("cut")
  /\ Emit(PConvSave)
  /\ map' = [map EXCEPT ![Top.i] = idx + 1]
  /\ idx' = idx + 1
  /\ stack' = Pop
  /\ UNCHANGED <<prf, ehyps, rv, pc>>

(* Variant without `reorder.idx += 1` after the ConvSave.                 *)
CCutSaveNoIncr ==
  /\ At("cut")
  /\ Emit(PConvSave)
  /\ map' = [map EXCEPT ![Top.i] = idx]
  /\ stack' = Pop
  /\ UNCHANGED <<prf, idx, ehyps, rv, pc>>

(* ProofCmd::ConvSave; map[i] = Some(idx); idx += 1.                       *)
CCutSave ==
  /\ At("cut")
  /\ Emit(PConvSave)
  /\ map' = [map EXCEPT ![Top.i] = idx]
  /\ idx' = idx + 1
  /\ stack' = Pop
  /\ UNCHANGED <<prf, ehyps, rv, pc>>

(* ProofNode::Ref(i), map[i] = Some(n): ProofCmd::ConvRef(n).              *)
CRefSaved ==
  /\ IsConv("Ref") /\ map[Top.n.i] # None
  /\ Emit(PConvRef(map[Top.n.i]))
  /\ stack' = Pop
  /\ UNCHANGED <<prf, map, idx, ehyps, rv, pc>>

CRefl ==
  /\ IsConv("Refl")
  /\ Emit(PRefl)
  /\ stack' = Pop
  /\ UNCHANGED <<prf, map, idx, ehyps, rv, pc>>

CSym ==
  /\ IsConv("Sym")
  /\ Emit(PSym)
  /\ stack' = <<CCall(Top.n.c)>> \o Pop
  /\ UNCHANGED <<prf, map, idx, ehyps, rv, pc>>

CCong ==
  /\ IsConv("Cong")
  /\ Emit(PCong(Top.n.t))
  /\ stack' = [j \in DOMAIN Top.n.cs |-> CCall(Top.n.cs[j])] \o Pop
  /\ UNCHANGED <<prf, map, idx, ehyps, rv, pc>>

(* ProofNode::Unfold {res: (l, l2, c)}: l and l2 as proofs, then UnfoldF. *)
CUnfoldEnter ==
  /\ IsConv("Unfold")
  /\ stack' = <<PCall(Top.n.l, FALSE), PCall(Top.n.l2, FALSE), UnfoldF(Top.n.c)>> \o Pop
  /\ UNCHANGED <<prf, map, idx, ehyps, rv, out, pc>>

(* ProofCmd::Unfold, then write_conv(c).                                   *)
CUnfoldEmit ==
  /\ At("unfold")
  /\ Emit(PUnfold)
  /\ stack' = <<CCall(Top.c)>> \o Pop
  /\ UNCHANGED <<prf, map, idx, ehyps, rv, pc>>

-----------------------------------------------------------------------------
(* The Thm branch of Exporter::run *)

(* `for h in hyps`: h.deref(heap) is Hyp(_, e); write_proof(e, false).     *)
StartHyp ==
  /\ pc = "next" /\ Len(ehyps) < Len(prf.hyps)
  /\ stack' = <<PCall(prf.heap[prf.hyps[Len(ehyps) + 1].i].e, FALSE)>>
  /\ pc' = "hyp"
  /\ UNCHANGED <<prf, map, idx, ehyps, rv, out>>

(* ProofCmd::Hyp; ehyps.push(reorder.idx); reorder.idx += 1.               *)
EmitHyp ==
  /\ pc = "hyp" /\ stack = <<>>
  /\ Emit(PHyp)
  /\ ehyps' = Append(ehyps, idx)
  /\ idx' = idx + 1
  /\ pc' = "next"
  /\ UNCHANGED <<prf, map, stack, rv>>

(* write_proof(head, false).                                               *)
StartRet ==
  /\ pc = "next" /\ Len(ehyps) = Len(prf.hyps)
  /\ stack' = <<PCall(prf.head, FALSE)>>
  /\ pc' = "ret"
  /\ UNCHANGED <<prf, map, idx, ehyps, rv, out>>

(* vec.write_u8(0), then write_cmd_bytes(STMT_THM...).                     *)
EndBody ==
  /\ pc = "ret" /\ stack = <<>>
  /\ Emit(PEnd)
  /\ pc' = "done"
  /\ UNCHANGED <<prf, map, idx, ehyps, stack, rv>>

Finished == pc = "done" /\ UNCHANGED vars

Next ==
  \/ PRefFresh \/ PRefSaved \/ RecordRef \/ PDummyNode \/ PTermEnter \/ PTermEmit
  \/ PHypNode \/ PThmEnter \/ PThmEmit \/ PConvEnter \/ PConvEmit \/ SaveAfterConv
  \/ CRefInline \/ CRefCut \/ CCutSave \/ CRefSaved \/ CRefl \/ CSym \/ CCong
  \/ CUnfoldEnter \/ CUnfoldEmit
  \/ StartHyp \/ EmitHyp \/ StartRet \/ EndBody
  \/ Finished

Spec == Init /\ [][Next]_vars /\ WF_vars(Next)

-----------------------------------------------------------------------------
(***************************************************************************)
(* Reference reading of a proof stream with conversions.  Expression and  *)
(* Hyp commands read as in MmbExpr.  Thm pops res, the binder arguments   *)
(* and the hypothesis proofs; Conv pops p and e1 and waits for one        *)
(* conversion.  Conversions are prefix: `cf` holds the conversion frames  *)
(* still waiting for arguments, top last, and Deliver hands a finished     *)
(* conversion to the frame on top.  ConvCut opens a frame that ConvSave   *)
(* closes, saving the conversion on the heap; ConvRef(n) reads one back.  *)
(***************************************************************************)
PReadInit == [stk |-> ReadInit.stk, hp |-> ReadInit.hp, hyps |-> ReadInit.hyps,
              ok |-> ReadInit.ok, cf |-> <<>>]

Bad(r) == [r EXCEPT !.ok = FALSE]
TopCf(r) == r.cf[Len(r.cf)]
PopCf(r) == [r EXCEPT !.cf = SubSeq(@, 1, Len(@) - 1)]
IsConvVal(v) == v.k \in {"Refl", "Sym", "Cong", "Unfold"}

RECURSIVE Deliver(_, _)
Deliver(r, v) ==
  IF r.cf = <<>> THEN Bad(r)
  ELSE LET f == TopCf(r) IN
  CASE f.k = "conv"   -> [PopCf(r) EXCEPT !.stk = Append(@, [k |-> "Conv", e1 |-> f.e1, c |-> v, p |-> f.p])]
    [] f.k = "sym"    -> Deliver(PopCf(r), [k |-> "Sym", c |-> v])
    [] f.k = "cong"   -> IF Len(f.cs) + 1 = f.need
                           THEN Deliver(PopCf(r), [k |-> "Cong", cs |-> Append(f.cs, v)])
                           ELSE [r EXCEPT !.cf[Len(r.cf)].cs = Append(@, v)]
    [] f.k = "unfold" -> Deliver(PopCf(r), [k |-> "Unfold", l |-> f.l, l2 |-> f.l2, c |-> v])
    [] f.k = "cut"    -> [r EXCEPT !.cf[Len(r.cf)] = [k |-> "cutdone", c |-> v]]
    [] f.k = "cutdone" -> Bad(r)

Push(r, f) == [r EXCEPT !.cf = Append(@, f)]
Last(s, n) == SubSeq(s, Len(s) - n + 1, Len(s))
Drop(s, n) == SubSeq(s, 1, Len(s) - n)

PReadStep(r, c) ==
  IF ~r.ok THEN r
  ELSE CASE c.op \in {"Ref", "Dummy", "Term", "Hyp", "End"} ->
              LET e == ReadStep([stk |-> r.stk, hp |-> r.hp, hyps |-> r.hyps, ok |-> r.ok], c)
              IN [stk |-> e.stk, hp |-> e.hp, hyps |-> e.hyps, ok |-> e.ok, cf |-> r.cf]
    [] c.op = "Thm" ->
         LET na == ThmSig[c.t].args
             nh == ThmSig[c.t].hyps
             m  == Len(r.stk) - (nh + na + 1)
         IN IF m < 0 THEN Bad(r)
            ELSE LET as  == SubSeq(r.stk, m + nh + 1, m + nh + na)
                     hs  == SubSeq(r.stk, m + 1, m + nh)
                     thm == [k |-> "Thm", t |-> c.t, res |-> r.stk[Len(r.stk)], args |-> as \o hs]
                 IN [r EXCEPT !.stk = Append(SubSeq(@, 1, m), thm),
                              !.hp  = IF c.save THEN Append(@, thm) ELSE @]
    [] c.op = "Conv" ->
         IF Len(r.stk) < 2 THEN Bad(r)
         ELSE Push([r EXCEPT !.stk = Drop(@, 2)],
                   [k |-> "conv", e1 |-> r.stk[Len(r.stk) - 1], p |-> r.stk[Len(r.stk)]])
    [] c.op = "Save" ->
         IF r.stk = <<>> THEN Bad(r) ELSE [r EXCEPT !.hp = Append(@, r.stk[Len(r.stk)])]
    [] c.op = "Refl" -> Deliver(r, [k |-> "Refl"])
    [] c.op = "Sym" -> Push(r, [k |-> "sym"])
    [] c.op = "Cong" ->
         IF Arity[c.t] = 0 THEN Deliver(r, [k |-> "Cong", cs |-> <<>>])
         ELSE Push(r, [k |-> "cong", need |-> Arity[c.t], cs |-> <<>>])
    [] c.op = "Unfold" ->
         IF Len(r.stk) < 2 THEN Bad(r)
         ELSE Push([r EXCEPT !.stk = Drop(@, 2)],
                   [k |-> "unfold", l |-> r.stk[Len(r.stk) - 1], l2 |-> r.stk[Len(r.stk)]])
    [] c.op = "ConvCut" -> Push(r, [k |-> "cut"])
    [] c.op = "ConvSave" ->
         IF r.cf = <<>> \/ TopCf(r).k # "cutdone" THEN Bad(r)
         ELSE Deliver([PopCf(r) EXCEPT !.hp = Append(@, TopCf(r).c)], TopCf(r).c)
    [] c.op = "ConvRef" ->
         IF c.n < Len(r.hp) /\ IsConvVal(r.hp[c.n + 1]) THEN Deliver(r, r.hp[c.n + 1])
         ELSE Bad(r)

RECURSIVE PReadFrom(_, _)
PReadFrom(r, s) == IF s = <<>> THEN r ELSE PReadFrom(PReadStep(r, Head(s)), Tail(s))

PRead(s) == PReadFrom(PReadInit, s)

(* The hypothesis statements of the proof, as trees.                      *)
HypStmts == [j \in DOMAIN prf.hyps |-> PVal(prf.heap, prf.heap[prf.hyps[j].i].e)]

(* Types, and the indices handed out so far all lie below reorder.idx.     *)
TypeOK ==
  /\ DOMAIN prf.heap = Slots /\ Len(prf.hyps) = NHyps
  /\ map \in [Slots -> {None} \cup 0 .. idx - 1]
  /\ idx \in NArgs .. HeapLen
  /\ ehyps \in Seq(NArgs .. idx - 1)
  /\ pc \in {"next", "hyp", "ret", "done"}

(* The finished stream reads back as the theorem's proof tree, hypotheses *)
(* included, with no conversion left open: the Thm arguments come in the *)
(* order the verifier pops them, and every cut conversion is closed.      *)
ProofRoundTrip ==
  pc = "done" =>
    LET r == PRead(out) IN
    r.ok /\ r.cf = <<>> /\ r.stk = <<PVal(prf.heap, prf.head)>> /\ r.hyps = HypStmts

(* At every step, every heap slot the exporter has given an index, and    *)
(* every recorded hypothesis index, names the reading's heap entry that   *)
(* holds that slot's meaning: a later ProofCmd::Ref or ConvRef reads back *)
(* the node it stands for, whichever of write_proof, write_conv or the    *)
(* hypothesis loop assigned it.                                            *)
ProofMapResolves ==
  LET r == PRead(out) IN
  /\ r.ok
  /\ \A i \in NArgs .. HeapLen - 1 :
       map[i] # None => map[i] < Len(r.hp) /\ r.hp[map[i] + 1] = PVal(prf.heap, Ref(i))
  /\ \A j \in DOMAIN ehyps :
       ehyps[j] < Len(r.hp) /\ r.hp[ehyps[j] + 1] = HypOf(HypStmts[j])
=============================================================================
