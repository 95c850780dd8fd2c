------------------------------ MODULE Binders ------------------------------
(***************************************************************************)
(* Exporter::write_binders and write_sort_deps (export.rs 259-262,         *)
(* 271-284), as run calls them for a term (table entry, binders, then the *)
(* return word, 549-554) or a theorem (table entry and binders, 571-574), *)
(* with write_term_header and write_thm_header (264-269, 429-433).        *)
(*                                                                         *)
(* A binder word is `bound << 63 | sort << 56 | deps`: dependency bits     *)
(* 0..54, bit 55 unused, seven sort bits, the bound flag on top.  The      *)
(* model scales the word: DepBits dependency bits (55 in the code), one   *)
(* unused bit, SortBits sort bits (7), the bound flag.  The capacity test *)
(* `bv >= 1 << 55` scales with it to `bv >= 2^DepBits`.                    *)
(***************************************************************************)
EXTENDS Integers, Sequences, FiniteSets, Bitwise

CONSTANTS
  DepBits,    \* dependency bits of a word (55)
  SortBits,   \* sort bits of a word (7)
  MaxArgs     \* bound on the number of binders of a declaration

SortShift  == DepBits + 1
BoundShift == DepBits + 1 + SortBits
SortIds    == 0 .. 2^SortBits - 1

(* Variant shifting the bound flag one bit too far.                        *)
SortDepsHighBound(bound, sort, deps) ==
  (IF bound THEN 2^(BoundShift + 1) ELSE 0) + sort * 2^SortShift + deps

(* write_sort_deps(bound, sort, deps).                                     *)
SortDeps(bound, sort, deps) ==
  (IF bound THEN 2^BoundShift ELSE 0) + sort * 2^SortShift + deps

(* A binder: Type::Bound(s), or Type::Reg(s, deps) whose deps, as the     *)
(* elaborator produces them, name bound variables declared before it.     *)
BoundB(s)   == [bound |-> TRUE, s |-> s, deps |-> 0]
RegB(s, d)  == [bound |-> FALSE, s |-> s, deps |-> d]

NBound(as, k) == Cardinality({q \in 1 .. k : as[q].bound})
Min2(a, b) == IF a < b THEN a ELSE b

(* The binders that may follow the list `as`: a regular binder depends on *)
(* no bound variable or on every one declared before it.                  *)
NextBinders(as) ==
  {BoundB(s) : s \in SortIds}
  \cup {RegB(s, d) : s \in SortIds, d \in {0, 2^Min2(NBound(as, Len(as)), DepBits) - 1}}

(* Binder lists of length at most n.                                       *)
RECURSIVE ArgLists(_)
ArgLists(n) ==
  IF n = 0 THEN {<<>>}
  ELSE LET prev == ArgLists(n - 1) IN
       prev \cup UNION {{Append(as, b) : b \in NextBinders(as)} : as \in prev}

(* A term carries a return sort and dependencies and may be a definition; *)
(* a theorem has none of these.                                           *)
Decls ==
  UNION {{[kind |-> "term", args |-> as, rs |-> s, rdeps |-> d, def |-> df] :
            s \in SortIds, d \in {0, 2^Min2(NBound(as, Len(as)), DepBits) - 1},
            df \in BOOLEAN}
         \cup {[kind |-> "thm", args |-> as, rs |-> 0, rdeps |-> 0, def |-> FALSE]}
         : as \in ArgLists(MaxArgs)}

VARIABLES
  decl,   \* the declaration whose binders are written
  k,      \* binders written so far
  bv,     \* the rolling bound bit
  out,    \* the words written
  head,   \* the declaration's table entry: nargs and byte 2
  pc      \* "head" | "args" | "done" | "panic"

vars == <<decl, k, bv, out, head, pc>>

(* The table entry starts as the zero bytes fixup_large reserved.          *)
Init ==
  /\ decl \in Decls /\ k = 0 /\ bv = 1 /\ out = <<>>
  /\ head = [nargs |-> 0, byte |-> 0] /\ pc = "head"

(* Variant flagging a definition with 0x40, a bit of the sort field.      *)
DefFlagLow == 2^(SortBits - 1)

(* The 0x80 of write_term_header: the bit above the sort field.            *)
DefFlag == 2^SortBits

(* write_term_header(head, nargs, t.ret.0, is Def, p_term): nargs, then   *)
(* byte 2 = sort | 0x80 for a definition.  (p_term is Layout's.)           *)
TermHeader ==
  /\ pc = "head" /\ decl.kind = "term"
  /\ head' = [nargs |-> Len(decl.args),
              byte |-> decl.rs | (IF decl.def THEN DefFlag ELSE 0)]
  /\ pc' = "args"
  /\ UNCHANGED <<decl, k, bv, out>>

(* write_thm_header(head, nargs, p_thm): byte 2 keeps its reserved 0.     *)
ThmHeader ==
  /\ pc = "head" /\ decl.kind = "thm"
  /\ head' = [head EXCEPT !.nargs = Len(decl.args)]
  /\ pc' = "args"
  /\ UNCHANGED <<decl, k, bv, out>>

(* Variant of the capacity test accepting bv = 1 << 55.                    *)
FullLate(b) == b > 2^DepBits

(* `bv >= (1 << 55)`.                                                      *)
Full(b) == b >= 2^DepBits

(* Variant doubling bv before the word is written.                         *)
BoundArgEarly ==
  /\ pc = "args" /\ k < Len(decl.args) /\ decl.args[k + 1].bound
  /\ ~Full(bv)
  /\ out' = Append(out, SortDeps(TRUE, decl.args[k + 1].s, bv * 2))
  /\ bv' = bv * 2
  /\ k' = k + 1
  /\ UNCHANGED <<decl, head, pc>>

(* Type::Bound(s): write_sort_deps(true, s, bv); bv *= 2.                  *)
BoundArg ==
  /\ pc = "args" /\ k < Len(decl.args) /\ decl.args[k + 1].bound
  /\ ~Full(bv)
  /\ out' = Append(out, SortDeps(TRUE, decl.args[k + 1].s, bv))
  /\ bv' = bv * 2
  /\ k' = k + 1
  /\ UNCHANGED <<decl, head, pc>>

(* panic!("more than 55 bound variables").                                 *)
BoundPanic ==
  /\ pc = "args" /\ k < Len(decl.args) /\ decl.args[k + 1].bound
  /\ Full(bv)
  /\ pc' = "panic"
  /\ UNCHANGED <<decl, k, bv, out, head>>

(* Type::Reg(s, deps): write_sort_deps(false, s, deps).                    *)
RegArg ==
  /\ pc = "args" /\ k < Len(decl.args) /\ ~decl.args[k + 1].bound
  /\ out' = Append(out, SortDeps(FALSE, decl.args[k + 1].s, decl.args[k + 1].deps))
  /\ k' = k + 1
  /\ UNCHANGED <<decl, bv, head, pc>>

(* After the binders, a term writes its return word (line 554).            *)
EndBinders ==
  /\ pc = "args" /\ k = Len(decl.args)
  /\ out' = IF decl.kind = "term" THEN Append(out, SortDeps(FALSE, decl.rs, decl.rdeps)) ELSE out
  /\ pc' = "done"
  /\ UNCHANGED <<decl, k, bv, head>>

(* A finished declaration, or the process after the panic, takes no step. *)
Stopped == pc \in {"done", "panic"} /\ UNCHANGED vars

Next == TermHeader \/ ThmHeader \/ BoundArg \/ BoundPanic \/ RegArg \/ EndBinders \/ Stopped

Spec == Init /\ [][Next]_vars

-----------------------------------------------------------------------------
(* The fields of a word, as the verifier reads them.                      *)
Decode(w) ==
  [bound |-> w \div 2^BoundShift = 1,
   s     |-> (w \div 2^SortShift) % 2^SortBits,
   deps  |-> w % 2^SortShift]

(* What spec section 8 (property 6) says binder q reads back as: the i-th *)
(* bound binder (from 0) depends on exactly 2^i.                          *)
Expected(q) ==
  LET b == decl.args[q] IN
  IF b.bound THEN [bound |-> TRUE, s |-> b.s, deps |-> 2^NBound(decl.args, q - 1)]
  ELSE [bound |-> FALSE, s |-> b.s, deps |-> b.deps]

(* Types: every word fits in the word width.                               *)
TypeOK ==
  /\ k \in 0 .. Len(decl.args)
  /\ out \in Seq(0 .. 2^(BoundShift + 1) - 1)
  /\ head.byte \in 0 .. 2^(SortBits + 1) - 1
  /\ pc \in {"head", "args", "done", "panic"}

(* Every word written so far decodes to its binder: bound flag, sort, and *)
(* for the i-th bound binder the single dependency bit i; the return word *)
(* of a term decodes to its sort and dependencies; and the table entry     *)
(* reads back nargs, the term's sort in the low bits of byte 2 and the    *)
(* definition flag in its top bit (a theorem's byte 2 is 0).              *)
BindersDecode ==
  /\ pc # "head" =>
       /\ head.nargs = Len(decl.args)
       /\ head.byte % DefFlag = decl.rs
       /\ (head.byte \div DefFlag = 1) = decl.def
  /\ \A q \in 1 .. Min2(Len(out), Len(decl.args)) : Decode(out[q]) = Expected(q)
  /\ pc = "done" /\ decl.kind = "term" =>
       Decode(out[Len(out)]) = [bound |-> FALSE, s |-> decl.rs, deps |-> decl.rdeps]

(* The capacity of spec section 3: no word sets a dependency bit at or    *)
(* above DepBits (bit 55), a declaration with at most DepBits bound        *)
(* binders is written in full, and one with more panics (section 8,       *)
(* property 8).                                                            *)
CapacityEnforced ==
  /\ \A q \in DOMAIN out : Decode(out[q]).deps < 2^DepBits
  /\ pc = "done" => NBound(decl.args, Len(decl.args)) <= DepBits
  /\ pc = "panic" => NBound(decl.args, Len(decl.args)) > DepBits
=============================================================================
