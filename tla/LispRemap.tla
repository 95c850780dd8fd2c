----------------------------- MODULE LispRemap -----------------------------
(***************************************************************************)
(* The remapping of a Lisp value graph into a new environment,             *)
(* `impl Remap<LispRemapper> for LispVal` (elab/lisp.rs 94-122), with the  *)
(* Remap impls it calls for atoms, vectors, hash maps, mutexes and         *)
(* procedures (98-106, 123-135).                                           *)
(*                                                                         *)
(* The old graph is a heap of nodes 1..N.  An Atom names an AtomID; a      *)
(* container (List, DottedList, AtomMap, a Proc's environment) has a       *)
(* sequence of children; a Ref (a Mutex) has one child; every other kind   *)
(* (Number, String, Bool, Syntax, Undef, MVar, Goal, ...) is a leaf that   *)
(* `_ => self.clone()` returns as it is.  An Arc is immutable once built,  *)
(* so a container only points at older nodes; only a Ref's content may     *)
(* point anywhere, itself included, so cycles pass through a Ref.          *)
(*                                                                         *)
(* The recursion is an explicit stack of frames.  New nodes are numbered   *)
(* N+1, N+2, ... in allocation order, so a value is an old leaf (<= N) or *)
(* a new node (> N).  The memo `r.lisp` is keyed by the old node's         *)
(* pointer and filled only after the node's children have been remapped   *)
(* (`entry(p).or_insert(v)`).  A Ref's Mutex stays locked while its        *)
(* content is remapped; locking it again on the same thread, which a       *)
(* cycle does, "might panic or deadlock" (std::sync::Mutex::lock), and     *)
(* both outcomes are states of the model.                                  *)
(***************************************************************************)
EXTENDS Integers, Sequences, Graphs

CONSTANTS
  N,            \* number of nodes of the old graph
  Atoms,        \* the AtomIDs, a set 0..k of naturals
  MaxChildren   \* bound on the children of a container

Nodes == 1 .. N

VARIABLES
  heap,    \* the old graph: node -> [k, a, ch]
  av,      \* r.atom: the AtomVec<AtomID>, as a sequence indexed from 0
  root,    \* the value remap is called on
  memo,    \* r.lisp: old node -> new value, or 0 when absent
  nh,      \* the new nodes allocated, node N + i is nh[i]
  locked,  \* the Refs whose Mutex this thread holds
  stack,   \* frames of the remap recursion, top first
  rv,      \* the value the last finished call returned
  pc       \* "run" | "done" | "deadlock" | "panic"

vars == <<heap, av, root, memo, nh, locked, stack, rv, pc>>

Absent == 0

(* The old heaps: containers point only at older nodes, a Ref anywhere.   *)
Node(n) ==
  [k : {"Atom"}, a : Atoms, ch : {<<>>}]
  \cup [k : {"Leaf"}, a : {0}, ch : {<<>>}]
  \cup [k : {"Ref"}, a : {0}, ch : [1 .. 1 -> Nodes]]
  \cup [k : {"List"}, a : {0},
        ch : UNION {[1 .. m -> 1 .. n - 1] : m \in 0 .. MaxChildren}]

RECURSIVE HeapsUpTo(_)
HeapsUpTo(n) ==
  IF n = 0 THEN {<<>>} ELSE {Append(h, x) : h \in HeapsUpTo(n - 1), x \in Node(n)}

AtomVecs == UNION {[1 .. m -> Atoms] : m \in 0 .. Cardinality(Atoms)}

(* A frame: the node, its phase, the next child, the children remapped.   *)
Frame(n) == [n |-> n, ph |-> "enter", i |-> 1, acc |-> <<>>]

Init ==
  /\ heap \in HeapsUpTo(N)
  /\ av \in AtomVecs
  /\ root \in Nodes
  /\ memo = [n \in Nodes |-> Absent]
  /\ nh = <<>>
  /\ locked = {}
  /\ stack = <<Frame(root)>>
  /\ rv = Absent
  /\ pc = "run"

Top == Head(stack)
SetTop(f) == stack' = <<f>> \o Tail(stack)

(* `r.atom.get(a).unwrap_or(a)`: mapped when the AtomVec has an entry.    *)
AtomGet(a) == IF a < Len(av) THEN av[a + 1] ELSE a

(* Variant without the memo lookup.                                       *)
UnvisitedNoLookup(n) == TRUE

(* The memo lookup `if let Some(v) = r.lisp.get(&p)`: absent.             *)
Unvisited(n) == memo[n] = Absent

(* `r.lisp.entry(p).or_insert(v).clone()`, returned to the caller.         *)
OrInsertReturn(p, v) ==
  LET w == IF memo[p] = Absent THEN v ELSE memo[p] IN
  /\ memo' = [memo EXCEPT ![p] = w]
  /\ rv' = w
  /\ stack' = Tail(stack)

(* A memo hit: `return v.clone()`.                                         *)
Lookup ==
  /\ pc = "run" /\ stack # <<>> /\ Top.ph = "enter"
  /\ ~Unvisited(Top.n)
  /\ rv' = memo[Top.n] /\ stack' = Tail(stack)
  /\ UNCHANGED <<heap, av, root, memo, nh, locked, pc>>

(* `_ => self.clone()`: the old leaf itself.                               *)
EnterLeaf ==
  /\ pc = "run" /\ stack # <<>> /\ Top.ph = "enter"
  /\ Unvisited(Top.n) /\ heap[Top.n].k = "Leaf"
  /\ OrInsertReturn(Top.n, Top.n)
  /\ UNCHANGED <<heap, av, root, nh, locked, pc>>

(* Variant in which Atom falls into the default arm, as a leaf.           *)
EnterAtomAsLeaf ==
  /\ pc = "run" /\ stack # <<>> /\ Top.ph = "enter"
  /\ Unvisited(Top.n) /\ heap[Top.n].k = "Atom"
  /\ OrInsertReturn(Top.n, Top.n)
  /\ UNCHANGED <<heap, av, root, nh, locked, pc>>

(* `LispKind::Atom(a) => Arc::new(LispKind::Atom(a.remap(r)))`.            *)
EnterAtom ==
  /\ pc = "run" /\ stack # <<>> /\ Top.ph = "enter"
  /\ Unvisited(Top.n) /\ heap[Top.n].k = "Atom"
  /\ nh' = Append(nh, [k |-> "Atom", a |-> AtomGet(heap[Top.n].a), ch |-> <<>>])
  /\ OrInsertReturn(Top.n, N + Len(nh) + 1)
  /\ UNCHANGED <<heap, av, root, locked, pc>>

(* A container: its children are remapped in order (`v.remap(r)`, then    *)
(* `l.remap(r)` for a DottedList; a HashMap in its iteration order).      *)
EnterList ==
  /\ pc = "run" /\ stack # <<>> /\ Top.ph = "enter"
  /\ Unvisited(Top.n) /\ heap[Top.n].k = "List"
  /\ SetTop([Top EXCEPT !.ph = "next"])
  /\ UNCHANGED <<heap, av, root, memo, nh, locked, rv, pc>>

(* Variant cloning the content out of the guard and remapping it after    *)
(* the lock is released; unbounded recursion ends in a stack overflow.    *)
EnterRefUnlocked ==
  /\ pc = "run" /\ stack # <<>> /\ Top.ph = "enter"
  /\ Unvisited(Top.n) /\ heap[Top.n].k = "Ref"
  /\ IF Len(stack) = 2 * N
       THEN pc' = "panic" /\ UNCHANGED stack
       ELSE SetTop([Top EXCEPT !.ph = "next"]) /\ UNCHANGED pc
  /\ UNCHANGED <<heap, av, root, memo, nh, locked, rv>>

(* `Mutex::new(self.lock().unwrap().remap(r))`: the lock is taken before  *)
(* the content is remapped; if this thread already holds it, the call     *)
(* never returns: it deadlocks or panics.                                 *)
EnterRef ==
  /\ pc = "run" /\ stack # <<>> /\ Top.ph = "enter"
  /\ Unvisited(Top.n) /\ heap[Top.n].k = "Ref"
  /\ IF Top.n \in locked
       THEN /\ pc' \in {"deadlock", "panic"}
            /\ UNCHANGED <<stack, locked>>
       ELSE /\ locked' = locked \cup {Top.n}
            /\ SetTop([Top EXCEPT !.ph = "next"])
            /\ UNCHANGED pc
  /\ UNCHANGED <<heap, av, root, memo, nh, rv>>

(* The next child is remapped by a nested call.                           *)
Descend ==
  /\ pc = "run" /\ stack # <<>> /\ Top.ph = "next"
  /\ Top.i <= Len(heap[Top.n].ch)
  /\ stack' = <<Frame(heap[Top.n].ch[Top.i]), [Top EXCEPT !.ph = "wait"]>> \o Tail(stack)
  /\ UNCHANGED <<heap, av, root, memo, nh, locked, rv, pc>>

(* The nested call has returned `rv`: it becomes the next new child.      *)
Collect ==
  /\ pc = "run" /\ stack # <<>> /\ Top.ph = "wait"
  /\ SetTop([Top EXCEPT !.ph = "next", !.i = @ + 1, !.acc = Append(@, rv)])
  /\ UNCHANGED <<heap, av, root, memo, nh, locked, rv, pc>>

(* Variant in which the Ref's guard outlives the call.                    *)
BuildKeepsLock ==
  /\ pc = "run" /\ stack # <<>> /\ Top.ph = "next"
  /\ Top.i > Len(heap[Top.n].ch)
  /\ nh' = Append(nh, [k |-> heap[Top.n].k, a |-> 0, ch |-> Top.acc])
  /\ OrInsertReturn(Top.n, N + Len(nh) + 1)
  /\ UNCHANGED <<heap, av, root, locked, pc>>

(* Every child remapped: the new node is built (for a Ref, `Mutex::new`,  *)
(* after which the guard is dropped), then inserted in the memo.          *)
Build ==
  /\ pc = "run" /\ stack # <<>> /\ Top.ph = "next"
  /\ Top.i > Len(heap[Top.n].ch)
  /\ nh' = Append(nh, [k |-> heap[Top.n].k, a |-> 0, ch |-> Top.acc])
  /\ locked' = locked \ {Top.n}
  /\ OrInsertReturn(Top.n, N + Len(nh) + 1)
  /\ UNCHANGED <<heap, av, root, pc>>

(* The outermost call has returned.                                        *)
Return ==
  /\ pc = "run" /\ stack = <<>>
  /\ pc' = "done"
  /\ UNCHANGED <<heap, av, root, memo, nh, locked, stack, rv>>

(* Returned, deadlocked, or unwinding: nothing more happens.              *)
Stopped == pc # "run" /\ UNCHANGED vars

Next ==
  \/ Lookup \/ EnterLeaf \/ EnterAtom \/ EnterList \/ EnterRef
  \/ Descend \/ Collect \/ Build \/ Return \/ Stopped

Spec == Init /\ [][Next]_vars

-----------------------------------------------------------------------------
(* The old graph: an edge from a container or a Ref to each child.        *)
OldGraph ==
  [node |-> Nodes,
   edge |-> {<<n, m>> \in Nodes \X Nodes : \E j \in DOMAIN heap[n].ch : heap[n].ch[j] = m}]

(* A cycle is reachable from the root; every such cycle passes a Ref.     *)
RefCycle ==
  \E m \in Descendants(OldGraph, root) \cup {root} : m \in Descendants(OldGraph, m)

NewIds == N + 1 .. N + Len(nh)

(* Types; every lock held is that of a Ref whose content is being          *)
(* remapped (the guard is dropped once `Mutex::new` has its value); and    *)
(* the recursion is at most two frames per node deep.                     *)
TypeOK ==
  /\ memo \in [Nodes -> {Absent} \cup Nodes \cup NewIds]
  /\ locked \subseteq {f.n : f \in {g \in ToSet(stack) : heap[g.n].k = "Ref" /\ g.ph # "enter"}}
  /\ pc \in {"run", "done", "deadlock", "panic"}
  /\ Len(stack) <= 2 * N

(* The memo is a homomorphism from the old graph to the new one: a leaf   *)
(* is kept as it is, an Atom becomes the atom r.atom maps it to, and a    *)
(* container or Ref becomes a new node of its kind whose children are the *)
(* memo images of the old children, in order.                              *)
MemoHomomorphic ==
  \A n \in Nodes : memo[n] # Absent =>
    IF heap[n].k = "Leaf" THEN memo[n] = n
    ELSE /\ memo[n] \in NewIds
         /\ nh[memo[n] - N].k = heap[n].k
         /\ nh[memo[n] - N].a = IF heap[n].k = "Atom" THEN AtomGet(heap[n].a) ELSE 0
         /\ nh[memo[n] - N].ch = [j \in DOMAIN heap[n].ch |-> memo[heap[n].ch[j]]]

(* Sharing is preserved: every new node is the image of exactly one old   *)
(* node, so a node shared in the old graph is copied once, not once per   *)
(* path to it.                                                             *)
SharingPreserved ==
  \A x \in NewIds : \E n \in Nodes : memo[n] = x /\ \A m \in Nodes \ {n} : memo[m] # x

(* remap returns exactly when no Ref cycle is reachable from the root,    *)
(* and then returns the root's image; on a cycle it stops at the Ref it   *)
(* re-enters, whose lock this thread holds, instead of recursing without  *)
(* end.                                                                    *)
RemapOutcome ==
  pc # "run" =>
    /\ pc = "done" <=> ~RefCycle
    /\ pc = "done" => rv = memo[root]
    /\ pc # "done" => \E f \in ToSet(stack) : f.n \in locked /\ heap[f.n].k = "Ref"
=============================================================================
