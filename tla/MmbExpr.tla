------------------------------ MODULE MmbExpr ------------------------------
(***************************************************************************)
(* Expression heaps of a declaration, as the exporter receives them from  *)
(* the environment (ExprNode in mm0-rs), their meaning as trees, and the   *)
(* reference reading of the MMB proof stream that the exporter's output   *)
(* is checked against.                                                     *)
(*                                                                         *)
(* A heap is a function 0..HeapLen-1 -> node; slots 0..NArgs-1 are the     *)
(* declaration's arguments and are never dereferenced (Reorder::new        *)
(* preassigns them).  A Ref in slot j only names a slot i < j: the heap is *)
(* topologically ordered, so the recursions below terminate.               *)
(***************************************************************************)
EXTENDS Integers, Sequences, FiniteSets

CONSTANTS
  Arity,    \* term id -> number of arguments (the environment's term table)
  SortIds,  \* sort ids a dummy variable may have
  NArgs,    \* number of arguments of the declaration
  HeapLen   \* length of the declaration's heap

ASSUME NArgs \in Nat /\ HeapLen \in Nat /\ NArgs <= HeapLen

TermIds == DOMAIN Arity
Slots   == 0 .. HeapLen - 1

(* The three ExprNode variants. A dummy's name is the slot it lives in.   *)
Ref(i)       == [k |-> "Ref", i |-> i]
Dummy(a, s)  == [k |-> "Dummy", a |-> a, s |-> s]
App(t, es)   == [k |-> "App", t |-> t, es |-> es]

(* What an argument slot holds; it is never read.                          *)
ArgNode == [k |-> "Arg"]

(* Nodes that may occur as a child of an App, or at the top of a statement *)
(* that may refer to slots below j: references and nullary applications.  *)
Leaf(j) == {Ref(i) : i \in 0 .. j - 1} \cup {App(t, <<>>) : t \in {u \in TermIds : Arity[u] = 0}}

(* Applications whose children are leaves below slot j.                   *)
Apps(j) == UNION {{App(t, es) : es \in [1 .. Arity[t] -> Leaf(j)]} : t \in TermIds}

(* What slot j of a heap may hold.  Only a definition body has dummy     *)
(* variables; a theorem statement mentions its arguments only.            *)
NodesAt(j, dummies) ==
  IF j < NArgs THEN {ArgNode}
  ELSE {Dummy(j, s) : s \in IF dummies THEN SortIds ELSE {}}
         \cup {Ref(i) : i \in 0 .. j - 1} \cup Apps(j)

(* Every well-formed heap of length HeapLen, with or without dummies.     *)
Heaps(dummies) ==
  {h \in [Slots -> UNION {NodesAt(j, dummies) : j \in Slots}] :
     \A j \in Slots : h[j] \in NodesAt(j, dummies)}

(* The top-level nodes of a statement (head, hypotheses, return value).   *)
TopNodes == Leaf(HeapLen) \cup Apps(HeapLen)

(***************************************************************************)
(* Meaning of a node: the expression tree it stands for, with sharing      *)
(* unfolded.  Arguments and dummies become variables named by their slot. *)
(***************************************************************************)
Var(a) == [k |-> "Var", a |-> a]
Tree(t, args) == [k |-> "App", t |-> t, args |-> args]

RECURSIVE Val(_, _)
Val(h, n) ==
  CASE n.k = "Ref"   -> IF n.i < NArgs THEN Var(n.i) ELSE Val(h, h[n.i])
    [] n.k = "Dummy" -> Var(n.a)
    [] n.k = "App"   -> Tree(n.t, [j \in DOMAIN n.es |-> Val(h, n.es[j])])

(***************************************************************************)
(* Proof-stream commands (ProofCmd of mmb_parser) as the exporter emits    *)
(* them.  A dummy command carries the dummy's name as a ghost field so the *)
(* reading below can tell two dummies apart; the wire format does not.    *)
(***************************************************************************)
PRef(n)        == [op |-> "Ref", n |-> n]
PDummy(a, s)   == [op |-> "Dummy", a |-> a, s |-> s]
PTerm(t, save) == [op |-> "Term", t |-> t, save |-> save]
PHyp           == [op |-> "Hyp"]
PEnd           == [op |-> "End"]   \* the terminating 0 byte

(***************************************************************************)
(* Reference reading of an expression proof stream: a stack machine with a *)
(* heap that starts with the arguments.  Dummy and a saved Term push onto  *)
(* the heap, Hyp pops a statement and pushes it onto the heap and the      *)
(* hypothesis list, Ref(n) pushes heap entry n.  ok turns FALSE on any     *)
(* malformed step.                                                         *)
(***************************************************************************)
HypOf(e) == [k |-> "Hyp", e |-> e]

ReadInit == [stk |-> <<>>, hp |-> [i \in 1 .. NArgs |-> Var(i - 1)], hyps |-> <<>>, ok |-> TRUE]

ReadStep(r, c) ==
  IF ~r.ok THEN r
  ELSE CASE c.op = "Ref" ->
              IF c.n < Len(r.hp) THEN [r EXCEPT !.stk = Append(@, r.hp[c.n + 1])]
              ELSE [r EXCEPT !.ok = FALSE]
         [] c.op = "Dummy" ->
              [r EXCEPT !.stk = Append(@, Var(c.a)), !.hp = Append(@, Var(c.a))]
         [] c.op = "Term" ->
              LET m == Len(r.stk) - Arity[c.t]
                  e == Tree(c.t, [j \in 1 .. Arity[c.t] |-> r.stk[m + j]])
              IN IF m < 0 THEN [r EXCEPT !.ok = FALSE]
                 ELSE [r EXCEPT !.stk = Append(SubSeq(@, 1, m), e),
                                !.hp  = IF c.save THEN Append(@, e) ELSE @]
         [] c.op = "Hyp" ->
              IF r.stk = <<>> THEN [r EXCEPT !.ok = FALSE]
              ELSE LET e == r.stk[Len(r.stk)]
                   IN [r EXCEPT !.stk  = SubSeq(@, 1, Len(@) - 1),
                                !.hp   = Append(@, HypOf(e)),
                                !.hyps = Append(@, e)]
         [] c.op = "End" -> r

RECURSIVE ReadFrom(_, _)
ReadFrom(r, s) == IF s = <<>> THEN r ELSE ReadFrom(ReadStep(r, Head(s)), Tail(s))

Read(s) == ReadFrom(ReadInit, s)

(* Number of heap entries a proof command creates in the reading.          *)
Pushes(c) == IF c.op \in {"Dummy", "Hyp"} \/ (c.op = "Term" /\ c.save) THEN 1 ELSE 0

=============================================================================
