----------------------------- MODULE ExprUnify -----------------------------
(***************************************************************************)
(* The unifier serializer Exporter::write_expr_unify (export.rs 286-323),  *)
(* driven as Exporter::run drives it: for a Def, the head then a 0 byte    *)
(* (export.rs 555-561); for a theorem, the return value, then for each     *)
(* hypothesis from last to first UnifyCmd::Hyp and the hypothesis, then a  *)
(* 0 byte, all sharing one Reorder and one `save` accumulator (575-582).   *)
(*                                                                         *)
(* A unify command names its node before its children, so a Ref met for   *)
(* the first time cannot be given an index yet: its slot is queued in      *)
(* `save` and the queue is drained ("commit!") onto the index of the node *)
(* that finally produces it (a Dummy, a Term, or an already saved Ref).   *)
(***************************************************************************)
EXTENDS MmbExpr

CONSTANTS
  MaxHyps   \* bound on the number of hypotheses of a theorem

VARIABLES
  decl,     \* the declaration: [kind, heap, hyps, ret]
  map,      \* reorder.map: slot -> output index, or None
  idx,      \* reorder.idx
  save,     \* the `save: &mut Vec<usize>` accumulator
  stack,    \* pending write_expr_unify calls, top first
  out,      \* the unify commands written so far
  pc,       \* "next" | "hyp" | "ret" | "done"
  k         \* hypotheses written so far (from the last one down)

vars == <<decl, map, idx, save, stack, out, pc, k>>

None == -1

(* UnifyCmd of mmb_parser, with the dummy's name as a ghost field.         *)
URef(n)        == [op |-> "Ref", n |-> n]
UDummy(a, s)   == [op |-> "Dummy", a |-> a, s |-> s]
UTerm(t, sv)   == [op |-> "Term", t |-> t, save |-> sv]
UHyp           == [op |-> "Hyp"]
UEnd           == [op |-> "End"]

(* A Def: its value may hold dummies, it has no hypotheses.  A theorem's   *)
(* statement mentions its arguments only.                                  *)
DefDecls == [kind : {"def"}, heap : Heaps(TRUE), hyps : {<<>>}, ret : TopNodes]
ThmDecls ==
  [kind : {"thm"}, heap : Heaps(FALSE),
   hyps : UNION {[1 .. m -> TopNodes] : m \in 0 .. MaxHyps}, ret : TopNodes]
Decls == DefDecls \cup ThmDecls

ReorderNew(nargs, len) == [i \in 0 .. len - 1 |-> IF i < nargs THEN i ELSE None]

(* commit!(n): every queued slot gets index n.                             *)
Commit(m, q, n) == [i \in DOMAIN m |-> IF \E j \in DOMAIN q : q[j] = i THEN n ELSE m[i]]

Init ==
  /\ decl \in Decls
  /\ map = ReorderNew(NArgs, HeapLen)
  /\ idx = NArgs
  /\ save = <<>>
  /\ stack = <<>>
  /\ out = <<>>
  /\ pc = "ret"
  /\ k = 0

Top == Head(stack)
Emit(c) == out' = Append(out, c)

(* ExprNode::Ref(i), map[i] = None: queue i and write heap[i] in place.    *)
RefFresh ==
  /\ stack # <<>> /\ Top.k = "Ref"
  /\ map[Top.i] = None
  /\ save' = Append(save, Top.i)
  /\ stack' = <<decl.heap[Top.i]>> \o Tail(stack)
  /\ UNCHANGED <<decl, map, idx, out, pc, k>>

(* ExprNode::Ref(i), map[i] = Some(n): UnifyCmd::Ref(n), then commit!(n). *)
RefSaved ==
  /\ stack # <<>> /\ Top.k = "Ref"
  /\ map[Top.i] # None
  /\ Emit(URef(map[Top.i]))
  /\ map' = Commit(map, save, map[Top.i])
  /\ save' = <<>>
  /\ stack' = Tail(stack)
  /\ UNCHANGED <<decl, idx, pc, k>>

(* ExprNode::Dummy(_, s): commit!(idx); idx += 1; UnifyCmd::Dummy(s).      *)
DummyNode ==
  /\ stack # <<>> /\ Top.k = "Dummy"
  /\ map' = Commit(map, save, idx)
  /\ save' = <<>>
  /\ idx' = idx + 1
  /\ Emit(UDummy(Top.a, Top.s))
  /\ stack' = Tail(stack)
  /\ UNCHANGED <<decl, pc, k>>

(* Variant writing the children last to first.                            *)
AppNodeReversed ==
  /\ stack # <<>> /\ Top.k = "App"
  /\ IF save = <<>>
       THEN /\ Emit(UTerm(Top.t, FALSE))
            /\ UNCHANGED <<map, idx>>
       ELSE /\ map' = Commit(map, save, idx)
            /\ idx' = idx + 1
            /\ Emit(UTerm(Top.t, TRUE))
  /\ save' = <<>>
  /\ stack' = [j \in DOMAIN Top.es |-> Top.es[Len(Top.es) + 1 - j]] \o Tail(stack)
  /\ UNCHANGED <<decl, pc, k>>

(* Variant with `reorder.idx += 1` before `commit!(reorder.idx)`.           *)
AppNodeLateCommit ==
  /\ stack # <<>> /\ Top.k = "App"
  /\ IF save = <<>>
       THEN /\ Emit(UTerm(Top.t, FALSE))
            /\ UNCHANGED <<map, idx>>
       ELSE /\ map' = Commit(map, save, idx + 1)
            /\ idx' = idx + 1
            /\ Emit(UTerm(Top.t, TRUE))
  /\ save' = <<>>
  /\ stack' = Top.es \o Tail(stack)
  /\ UNCHANGED <<decl, pc, k>>

(* Variant without the `save.is_empty()` test: every term is saved.       *)
AppNodeAlwaysSave ==
  /\ stack # <<>> /\ Top.k = "App"
  /\ map' = Commit(map, save, idx)
  /\ idx' = idx + 1
  /\ Emit(UTerm(Top.t, TRUE))
  /\ save' = <<>>
  /\ stack' = Top.es \o Tail(stack)
  /\ UNCHANGED <<decl, pc, k>>

(* ExprNode::App(tid, es): Term{save: false} if nothing is queued, else    *)
(* commit!(idx); idx += 1; Term{save: true}; then the children in order.  *)
AppNode ==
  /\ stack # <<>> /\ Top.k = "App"
  /\ IF save = <<>>
       THEN /\ Emit(UTerm(Top.t, FALSE))
            /\ UNCHANGED <<map, idx>>
       ELSE /\ map' = Commit(map, save, idx)
            /\ idx' = idx + 1
            /\ Emit(UTerm(Top.t, TRUE))
  /\ save' = <<>>
  /\ stack' = Top.es \o Tail(stack)
  /\ UNCHANGED <<decl, pc, k>>

(* The statement: write_expr_unify(head) for a Def, (ret) for a theorem.  *)
StartRet ==
  /\ pc = "ret" /\ out = <<>>
  /\ stack' = <<decl.ret>>
  /\ pc' = "next"
  /\ UNCHANGED <<decl, map, idx, save, out, k>>

(* `for (_, h) in t.hyps.iter().rev()`: UnifyCmd::Hyp, then the hypothesis.*)
StartHyp ==
  /\ pc = "next" /\ stack = <<>> /\ k < Len(decl.hyps)
  /\ Emit(UHyp)
  /\ stack' = <<decl.hyps[Len(decl.hyps) - k]>>
  /\ k' = k + 1
  /\ UNCHANGED <<decl, map, idx, save, pc>>

(* `self.write_u8(0)`.                                                     *)
EndUnify ==
  /\ pc = "next" /\ stack = <<>> /\ k = Len(decl.hyps)
  /\ Emit(UEnd)
  /\ pc' = "done"
  /\ UNCHANGED <<decl, map, idx, save, stack, k>>

Finished == pc = "done" /\ UNCHANGED vars

Next ==
  \/ RefFresh \/ RefSaved \/ DummyNode \/ AppNode
  \/ StartRet \/ StartHyp \/ EndUnify
  \/ Finished

Spec == Init /\ [][Next]_vars /\ WF_vars(Next)

-----------------------------------------------------------------------------
(***************************************************************************)
(* Reference reading of a unify stream: it is run against the statement   *)
(* being unified.  `todo` holds the subterms still to match, top last; a  *)
(* Term pops a node of that head and pushes its arguments (first on top), *)
(* saving the node if asked; a Dummy pops a variable and saves it; Ref(n)  *)
(* pops a node that must equal heap entry n; Hyp pushes the next          *)
(* hypothesis of the theorem, from the last one down.                      *)
(***************************************************************************)
UInit(d) ==
  [todo |-> <<Val(d.heap, d.ret)>>, hp |-> [i \in 1 .. NArgs |-> Var(i - 1)],
   hyps |-> [j \in DOMAIN d.hyps |-> Val(d.heap, d.hyps[j])], ok |-> TRUE]

Pop(r) == [r EXCEPT !.todo = SubSeq(@, 1, Len(@) - 1)]
Next1(r) == r.todo[Len(r.todo)]

UStep(r, c) ==
  IF ~r.ok THEN r
  ELSE IF c.op # "Hyp" /\ c.op # "End" /\ r.todo = <<>> THEN [r EXCEPT !.ok = FALSE]
  ELSE CASE c.op = "Ref" ->
              IF c.n < Len(r.hp) /\ r.hp[c.n + 1] = Next1(r) THEN Pop(r)
              ELSE [r EXCEPT !.ok = FALSE]
         [] c.op = "Dummy" ->
              IF Next1(r) = Var(c.a) THEN [Pop(r) EXCEPT !.hp = Append(@, Var(c.a))]
              ELSE [r EXCEPT !.ok = FALSE]
         [] c.op = "Term" ->
              LET e == Next1(r) IN
              IF e.k = "App" /\ e.t = c.t
                THEN [r EXCEPT !.todo = SubSeq(@, 1, Len(@) - 1)
                                        \o [j \in DOMAIN e.args |-> e.args[Len(e.args) + 1 - j]],
                               !.hp = IF c.save THEN Append(@, e) ELSE @]
                ELSE [r EXCEPT !.ok = FALSE]
         [] c.op = "Hyp" ->
              IF r.hyps = <<>> THEN [r EXCEPT !.ok = FALSE]
              ELSE [r EXCEPT !.todo = Append(@, r.hyps[Len(r.hyps)]),
                             !.hyps = SubSeq(@, 1, Len(@) - 1)]
         [] c.op = "End" -> r

RECURSIVE UReadFrom(_, _)
UReadFrom(r, s) == IF s = <<>> THEN r ELSE UReadFrom(UStep(r, Head(s)), Tail(s))

URead(d, s) == UReadFrom(UInit(d), s)

(* Types, and the bound on output indices.                               *)
TypeOK ==
  /\ decl \in Decls
  /\ map \in [Slots -> {None} \cup Nat]
  \* each index past the arguments belongs to one shared heap slot
  /\ idx \in NArgs .. HeapLen
  /\ save \in Seq(Slots)
  /\ pc \in {"ret", "next", "done"}
  /\ k \in 0 .. MaxHyps

(* The finished unifier matches the declaration's own statement and       *)
(* consumes all of it and every hypothesis: a verifier unifying against   *)
(* this statement succeeds.                                                *)
UnifyMatches ==
  pc = "done" =>
    LET r == URead(decl, out) IN r.ok /\ r.todo = <<>> /\ r.hyps = <<>>

(* Every slot that has an index names a heap entry of the reading equal   *)
(* to the slot's meaning, at every step: a Ref chain queued in `save` is  *)
(* bound to the index of the node that produced it, and a queue left over *)
(* from one statement never leaks into the next.                           *)
UnifyMapResolves ==
  \A i \in Slots :
    map[i] # None =>
      LET r == URead(decl, out) IN
      r.ok /\ map[i] < Len(r.hp) /\ r.hp[map[i] + 1] = Val(decl.heap, Ref(i))
=============================================================================
