------------------------------ MODULE IndexBST ------------------------------
(***************************************************************************)
(* The debugging index of run (export.rs 660-669): index_map sorted by     *)
(* name, then write_index (489-525) laying out a binary search tree of     *)
(* write_index_entry records (435-487), each record's offset stored in its *)
(* per-id anchor and the root's offset in the root slot.                   *)
(*                                                                         *)
(* Names are integers ordered by <; an atom is its name, so a sort and a   *)
(* term or theorem may share one (an atom has a sort and a decl field).    *)
(* The record's source position, kind byte and name bytes are abstracted   *)
(* to their lengths: a record is 37 bytes of fields, the name, and a 0.    *)
(***************************************************************************)
EXTENDS AlignTo, SequencesExt

CONSTANTS
  Names,       \* atom names, a set of positive integers
  MaxEntries,  \* bound on the length of index_map
  Base         \* the writer's position when the index starts

NameLen(a) == a

(* An index_map entry (is_sort, atom, cmd) with the id the anchor table    *)
(* keys it by.  Entries are pushed in statement order, so cmd increases   *)
(* and ids count up within each kind.                                      *)
Kinds == {"sort", "term", "thm"}
IsDecl(e) == e.kind # "sort"

NewEntries(m) ==
  {[kind |-> kd, a |-> x, cmd |-> Len(m) + 1,
    ix |-> Cardinality({q \in DOMAIN m : m[q].kind = kd})] : kd \in Kinds, x \in Names}

(* An atom has at most one sort and one declaration.                       *)
Fresh(m, e) == \A q \in DOMAIN m : m[q].a = e.a => IsDecl(m[q]) # IsDecl(e)

RECURSIVE IndexMaps(_)
IndexMaps(n) ==
  IF n = 0 THEN {<<>>}
  ELSE LET prev == IndexMaps(n - 1) IN
    prev \cup UNION {{Append(m, e) : e \in {e \in NewEntries(m) : Fresh(m, e)}} : m \in prev}

Key(e) == [kind |-> e.kind, ix |-> e.ix]

(* index_map.sort_unstable_by_key(name): any ordering by name.             *)
SortedByName(m) ==
  {s \in SetToSeqs(ToSet(m)) : IsSorted(s, LAMBDA x, y : x.a <= y.a)}

VARIABLES
  imap,    \* index_map as pushed by the main body
  sorted,  \* index_map after the sort
  stack,   \* frames of write_index / the chain loop (head is the top)
  rv,      \* the offset the last finished call returned
  pos,     \* the writer's position
  recs,    \* the records written: [at, il, ir, e]
  anchor,  \* per-id anchor slots of the index header
  root,    \* the root slot
  pc       \* "sort" | "write" | "done"

vars == <<imap, sorted, stack, rv, pos, recs, anchor, root, pc>>

Init ==
  /\ imap \in IndexMaps(MaxEntries)
  /\ sorted = <<>> /\ stack = <<>> /\ rv = 0 /\ pos = Base /\ recs = <<>>
  /\ anchor = [x \in {Key(imap[q]) : q \in DOMAIN imap} |-> 0]
  /\ root = 0 /\ pc = "sort"

(* A frame: the slices of the call, the equal-name run [lo, hi) of the    *)
(* split, the left child's offset, and the chain loop's counter and n.    *)
Call(left, map) ==
  [st |-> "enter", left |-> left, map |-> map, lo |-> 0, hi |-> 0, il |-> 0, c |-> 0, n |-> 0]

(* Variant not reserving the root and anchor slots before the records.   *)
IndexStartNoReserve ==
  /\ pc = "sort"
  /\ \E s \in SortedByName(imap) :
       /\ sorted' = s
       /\ stack' = <<Call(<<>>, s)>>
  /\ pos' = AlignTo(pos, 8)
  /\ pc' = "write"
  /\ UNCHANGED <<imap, rv, recs, anchor, root>>

(* if index { align_to(8); p_index.commit; sort; fixup_large(8 * size);   *)
(* root.set(write_index(&[], &index_map)) ... }                           *)
IndexStart ==
  /\ pc = "sort"
  /\ \E s \in SortedByName(imap) :
       /\ sorted' = s
       /\ stack' = <<Call(<<>>, s)>>
  /\ pos' = AlignTo(pos, 8) + 8 * (1 + Len(imap))
  /\ pc' = "write"
  /\ UNCHANGED <<imap, rv, recs, anchor, root>>

(* write_index_entry(il, ir, e): align, set e's anchor, write the record. *)
WriteEntry(il, ir, e) ==
  LET n == AlignTo(pos, 8) IN
  /\ anchor' = [anchor EXCEPT ![Key(e)] = n]
  /\ recs' = Append(recs, [at |-> n, il |-> il, ir |-> ir, e |-> e])
  /\ pos' = n + 37 + NameLen(e.a) + 1
  /\ rv' = n

Top == Head(stack)
SetTop(f) == <<f>> \o Tail(stack)

(* map empty: for t in left.rev() { n = write_index_entry(0, n, t) }.      *)
ChainStart ==
  /\ pc = "write" /\ stack # <<>> /\ Top.st = "enter" /\ Top.map = <<>>
  /\ stack' = SetTop([Top EXCEPT !.st = "chain", !.c = Len(Top.left), !.n = 0])
  /\ UNCHANGED <<imap, sorted, rv, pos, recs, anchor, root, pc>>

ChainEntry ==
  /\ pc = "write" /\ stack # <<>> /\ Top.st = "chain" /\ Top.c > 0
  /\ WriteEntry(0, Top.n, Top.left[Top.c])
  /\ stack' = SetTop([Top EXCEPT !.c = Top.c - 1, !.n = AlignTo(pos, 8)])
  /\ UNCHANGED <<imap, sorted, root, pc>>

ChainEnd ==
  /\ pc = "write" /\ stack # <<>> /\ Top.st = "chain" /\ Top.c = 0
  /\ rv' = Top.n
  /\ stack' = Tail(stack)
  /\ UNCHANGED <<imap, sorted, pos, recs, anchor, root, pc>>

(* The two loops widening [lo, hi) to the run of the median's atom         *)
(* (0-based indices, as in the code).                                      *)
RECURSIVE RunLo(_, _, _)
RunLo(m, lo, a) == IF lo > 0 /\ m[lo].a = a THEN RunLo(m, lo - 1, a) ELSE lo

RECURSIVE RunHi(_, _, _)
RunHi(m, hi, a) == IF hi < Len(m) /\ m[hi + 1].a = a THEN RunHi(m, hi + 1, a) ELSE hi

(* Variant without the loop widening the run downwards.                   *)
SplitNoLowerRun ==
  /\ pc = "write" /\ stack # <<>> /\ Top.st = "enter" /\ Top.map # <<>>
  /\ LET m  == Top.map
         a  == m[Len(m) \div 2 + 1].a
         lo == Len(m) \div 2
         hi == RunHi(m, Len(m) \div 2 + 1, a)
     IN stack' = <<Call(Top.left, SubSeq(m, 1, lo))>>
                 \o SetTop([Top EXCEPT !.st = "left", !.lo = lo, !.hi = hi])
  /\ UNCHANGED <<imap, sorted, rv, pos, recs, anchor, root, pc>>

(* Variant splitting at the first entry instead of the median.            *)
SplitAtStart ==
  /\ pc = "write" /\ stack # <<>> /\ Top.st = "enter" /\ Top.map # <<>>
  /\ LET m  == Top.map
         a  == m[1].a
         hi == RunHi(m, 1, a)
     IN stack' = <<Call(Top.left, <<>>)>>
                 \o SetTop([Top EXCEPT !.st = "left", !.lo = 0, !.hi = hi])
  /\ UNCHANGED <<imap, sorted, rv, pos, recs, anchor, root, pc>>

(* map nonempty: lo = len / 2, the run [lo, hi) of its atom, then         *)
(* il = write_index(left, &map[..lo]).                                     *)
Split ==
  /\ pc = "write" /\ stack # <<>> /\ Top.st = "enter" /\ Top.map # <<>>
  /\ LET m  == Top.map
         a  == m[Len(m) \div 2 + 1].a
         lo == RunLo(m, Len(m) \div 2, a)
         hi == RunHi(m, Len(m) \div 2 + 1, a)
     IN stack' = <<Call(Top.left, SubSeq(m, 1, lo))>>
                 \o SetTop([Top EXCEPT !.st = "left", !.lo = lo, !.hi = hi])
  /\ UNCHANGED <<imap, sorted, rv, pos, recs, anchor, root, pc>>

(* Variant passing map[lo..hi] (the node included) as the right `left`.   *)
AfterLeftKeepsNode ==
  /\ pc = "write" /\ stack # <<>> /\ Top.st = "left"
  /\ stack' = <<Call(SubSeq(Top.map, Top.lo + 1, Top.hi), SubSeq(Top.map, Top.hi + 1, Len(Top.map)))>>
               \o SetTop([Top EXCEPT !.st = "right", !.il = rv])
  /\ UNCHANGED <<imap, sorted, rv, pos, recs, anchor, root, pc>>

(* ir = write_index(&map[lo+1..hi], &map[hi..]).                           *)
AfterLeft ==
  /\ pc = "write" /\ stack # <<>> /\ Top.st = "left"
  /\ stack' = <<Call(SubSeq(Top.map, Top.lo + 2, Top.hi), SubSeq(Top.map, Top.hi + 1, Len(Top.map)))>>
               \o SetTop([Top EXCEPT !.st = "right", !.il = rv])
  /\ UNCHANGED <<imap, sorted, rv, pos, recs, anchor, root, pc>>

(* Variant writing the node with its two children exchanged.              *)
AfterRightSwapped ==
  /\ pc = "write" /\ stack # <<>> /\ Top.st = "right"
  /\ WriteEntry(rv, Top.il, Top.map[Top.lo + 1])
  /\ stack' = Tail(stack)
  /\ UNCHANGED <<imap, sorted, root, pc>>

(* write_index_entry(il, ir, map[lo]), returning its offset.               *)
AfterRight ==
  /\ pc = "write" /\ stack # <<>> /\ Top.st = "right"
  /\ WriteEntry(Top.il, rv, Top.map[Top.lo + 1])
  /\ stack' = Tail(stack)
  /\ UNCHANGED <<imap, sorted, root, pc>>

(* root.set(...); index_header.commit(self).                               *)
IndexEnd ==
  /\ pc = "write" /\ stack = <<>>
  /\ root' = rv
  /\ pc' = "done"
  /\ UNCHANGED <<imap, sorted, stack, rv, pos, recs, anchor>>

Finished == pc = "done" /\ UNCHANGED vars

Next ==
  \/ IndexStart \/ ChainStart \/ ChainEntry \/ ChainEnd
  \/ Split \/ AfterLeft \/ AfterRight \/ IndexEnd \/ Finished

Spec == Init /\ [][Next]_vars

-----------------------------------------------------------------------------
(* The reader's view of the index: the record at an offset, the in-order  *)
(* walk of the tree, and a search collecting every entry of one name      *)
(* (left on smaller, right on larger, and on a match the entry and the    *)
(* rest of the run to its right).                                          *)
RecAt(x) == CHOOSE r \in ToSet(recs) : r.at = x

RECURSIVE InOrder(_)
InOrder(x) ==
  IF x = 0 THEN <<>>
  ELSE LET r == RecAt(x) IN InOrder(r.il) \o <<r.e>> \o InOrder(r.ir)

RECURSIVE Lookup(_, _)
Lookup(x, y) ==
  IF x = 0 THEN {}
  ELSE LET r == RecAt(x) IN
    IF y < r.e.a THEN Lookup(r.il, y)
    ELSE IF y > r.e.a THEN Lookup(r.ir, y)
    ELSE {r.e} \cup Lookup(r.ir, y)

(* Types, and every record lies beyond the root and anchor slots that      *)
(* fixup_large reserved, so finish's patch of the header cannot overwrite  *)
(* one.                                                                    *)
TypeOK ==
  /\ pc \in {"sort", "write", "done"}
  /\ rv \in Nat /\ root \in Nat
  /\ \A q \in DOMAIN recs : recs[q].at >= AlignTo(Base, 8) + 8 * (1 + Len(imap))

(* Spec section 8 property 7, for whole entries: the in-order walk from    *)
(* the root visits exactly the sorted index_map, each entry once, in       *)
(* order; the equal-name run handed to the right call as `left` lands      *)
(* right after its first member.                                           *)
InOrderSorted ==
  pc = "done" => InOrder(root) = sorted

(* A search by name from the root finds every entry of that name (a sort  *)
(* and a declaration sharing an atom) and nothing else.                    *)
SearchFindsAll ==
  pc = "done" => \A y \in Names : Lookup(root, y) = {e \in ToSet(imap) : e.a = y}

(* The number of records a search passes on its longest path, the floor  *)
(* of log2, and the longest run of entries sharing one name.             *)
RECURSIVE Depth(_)
Depth(x) ==
  IF x = 0 THEN 0 ELSE 1 + Max({Depth(RecAt(x).il), Depth(RecAt(x).ir)})

RECURSIVE FloorLog2(_)
FloorLog2(n) == IF n <= 1 THEN 0 ELSE 1 + FloorLog2(n \div 2)

LongestRun == Max({Cardinality({q \in DOMAIN imap : imap[q].a = y}) : y \in Names})

(* write_index roots every subtree at the median (lo = map.len() / 2), so *)
(* a search passes at most floor(log2 n) + 1 records, plus the rest of an *)
(* equal-name run, which the right call writes as a chain under its        *)
(* leftmost leaf.  A split anywhere else keeps the tree ordered and every  *)
(* search correct, so only the depth tells it apart.                       *)
IndexBalanced ==
  pc = "done" => Depth(root) <= FloorLog2(Len(imap)) + LongestRun

-----------------------------------------------------------------------------
(* The index as IndexWrite sees it: the entries of index_map, the records *)
(* written with their offsets, the anchors, and the writer's position as  *)
(* the bound below which no further record may start (the end of the root *)
(* and anchor slots until the first record).                               *)
HeaderEnd == AlignTo(Base, 8) + 8 * (1 + Len(imap))

Abs == INSTANCE IndexWrite WITH
  KeyOf   <- Key,
  entries <- ToSet(imap),
  written <- {<<recs[q].e, recs[q].at>> : q \in DOMAIN recs},
  anchor  <- anchor,
  top     <- IF recs = <<>> THEN HeaderEnd ELSE pos,
  root    <- root,
  done    <- pc = "done"

(* write_index and its caller implement IndexWrite: every index_map entry *)
(* is written exactly once, at an aligned offset past every earlier       *)
(* record, with its anchor set to that offset, and the root is set only   *)
(* when all are written.  Passing the split node again in the run carried *)
(* to the right call, or dropping a member of that run, breaks it.        *)
IndexRefinement == Abs!Spec
=============================================================================
