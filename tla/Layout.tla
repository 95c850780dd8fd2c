------------------------------ MODULE Layout ------------------------------
(***************************************************************************)
(* The byte layout of an MMB file as Exporter::run lays it out and         *)
(* Exporter::finish patches it (export.rs 82-152, 233-257, 527-691): the  *)
(* positioned writer `pos`, the fixup registry, align_to, the order of the *)
(* sections, and the application of the fixups at the end.               *)
(*                                                                         *)
(* Contents are abstracted to lengths: a body of the term or theorem table *)
(* is its binder words, its return word and a unify stream of a length   *)
(* from UnifyLens; a proof-stream record (write_cmd_bytes) has a length   *)
(* from RecLens.  What the checks need of the contents is kept as ghost   *)
(* `marks`: the position at which each record of the file begins.         *)
(***************************************************************************)
EXTENDS Integers, Sequences, FiniteSets, TLC, AlignTo

CONSTANTS
  MagicLen,   \* length of MM0B_MAGIC (wire codec)
  MaxSorts,   \* bound on the number of sorts
  MaxTerms,   \* bound on the number of terms
  MaxThms,    \* bound on the number of theorems
  UnifyLens,  \* possible lengths of a unify command stream
  RecLens,    \* possible lengths of a proof-stream record
  NameLen     \* length of every declaration name

ASSUME MagicLen \in Nat /\ NameLen \in Nat \ {0}

(* An environment: a term is a plain term or a definition with a unify   *)
(* stream; every declaration has at most one binder.                      *)
TermShapes == [nbind : 0 .. 1, def : {FALSE}, ulen : {0}]
                \cup [nbind : 0 .. 1, def : {TRUE}, ulen : UnifyLens]
ThmShapes  == [nbind : 0 .. 1, ulen : UnifyLens]
SeqsUpTo(S, n) == UNION {[1 .. m -> S] : m \in 0 .. n}

(* The declaration trace (env.stmts()): sorts, then terms, then theorems,  *)
(* each with the length of its proof-stream record.                        *)
Entries(e) ==
  [q \in 1 .. e.sorts |-> [k |-> "sort", i |-> q - 1]]
  \o [q \in DOMAIN e.terms |-> [k |-> "term", i |-> q - 1]]
  \o [q \in DOMAIN e.thms |-> [k |-> "thm", i |-> q - 1]]

Envs ==
  UNION {{[sorts |-> s, terms |-> tm, thms |-> th, index |-> ix, recs |-> rc] :
            rc \in [1 .. s + Len(tm) + Len(th) -> RecLens]}
         : s \in 0 .. MaxSorts, tm \in SeqsUpTo(TermShapes, MaxTerms),
           th \in SeqsUpTo(ThmShapes, MaxThms), ix \in BOOLEAN}

VARIABLES
  env,      \* the environment being exported
  pos,      \* Exporter.pos
  pc,       \* the section of run being written, then "ran", "done"
  j,        \* loop counter of the current section
  tok,      \* allocated fixups: token name -> [at, len]
  tab,      \* the buffers of the large fixups: token name -> Seq of values
  fixups,   \* Exporter.fixups: Seq of [tok, at, val], in commit order
  imap,     \* index_map: Seq of [e, cmd]
  left,     \* index entries not yet written by write_index
  last,     \* offset returned by the last write_index_entry
  marks,    \* ghost: [at, tag] for every record written
  sink      \* the file after finish: field offset -> value

vars == <<env, pos, pc, j, tok, tab, fixups, imap, left, last, marks, sink>>

Init ==
  /\ env \in Envs
  /\ pos = 0 /\ pc = "header" /\ j = 1
  /\ tok = [t \in {} |-> 0] /\ tab = [t \in {} |-> <<>>]
  /\ fixups = <<>> /\ imap = <<>> /\ left = {} /\ last = 0
  /\ marks = {} /\ sink = [o \in {} |-> 0]

NTerms == Len(env.terms)
NThms  == Len(env.thms)

(* Add a token, or a mark, to a function or set.                          *)
Alloc(t, at, len) == tok @@ (t :> [at |-> at, len |-> len])
Commit(t, v) == fixups' = Append(fixups, [tok |-> t, at |-> tok[t].at, val |-> v])
NoEntry == [k |-> "none", i |-> 0]
Tag(k, e, c) == [k |-> k, e |-> e, c |-> c]
(* A body's tag carries c = 1 when the body ends with a 0 byte.            *)
Mark(at, tag) == marks' = marks \cup {[at |-> at, tag |-> tag]}

(* The zero bytes fixup32 and fixup64 reserve: write_u32(0), write_u64(0). *)
Fixup32Len == 4

(* Variant of fixup64 reserving with write_u32(0).                         *)
Fixup64LenShort == 4

Fixup64Len == 8

(* Magic, version and sort count, num_terms, num_thms, the four header   *)
(* fixups, then one modifier byte per sort.                                *)
Header ==
  /\ pc = "header"
  /\ LET h == MagicLen + 4 + 4 + 4
         a == h + 2 * Fixup32Len
     IN /\ tok' = ("p_terms" :> [at |-> h, len |-> Fixup32Len])
                @@ ("p_thms" :> [at |-> h + Fixup32Len, len |-> Fixup32Len])
                @@ ("p_proof" :> [at |-> a, len |-> Fixup64Len])
                @@ ("p_index" :> [at |-> a + Fixup64Len, len |-> Fixup64Len])
        /\ pos' = a + 2 * Fixup64Len + env.sorts
  /\ pc' = "terms"
  /\ UNCHANGED <<env, j, tab, fixups, imap, left, last, marks, sink>>

(* Variant of fixup_large that does not write its zero bytes.             *)
OpenTableNoReserve(p, t, n) ==
  LET a == AlignTo(pos, 8) IN
  /\ Commit(p, a)
  /\ tok' = Alloc(t, a, 8 * n)
  /\ tab' = [x \in DOMAIN tab \cup {t} |-> IF x = t THEN [k \in 1 .. n |-> 0] ELSE tab[x]]
  /\ pos' = a
  /\ Mark(a, Tag(t, NoEntry, 0))
  /\ j' = 1

(* `align_to(8); p.commit(self); fixup_large(n * 8)`: the table begins at *)
(* the aligned position, which is also the header pointer.               *)
OpenTable(p, t, n) ==
  LET a == AlignTo(pos, 8) IN
  /\ Commit(p, a)
  /\ tok' = Alloc(t, a, 8 * n)
  /\ tab' = [x \in DOMAIN tab \cup {t} |-> IF x = t THEN [k \in 1 .. n |-> 0] ELSE tab[x]]
  /\ pos' = a + 8 * n
  /\ Mark(a, Tag(t, NoEntry, 0))
  /\ j' = 1

TermTableStart ==
  /\ pc = "terms"
  /\ OpenTable("p_terms", "term_header", NTerms)
  /\ pc' = "term"
  /\ UNCHANGED <<env, imap, left, last, sink>>

(* One term: its table entry is align_to(8); then the binder words, the    *)
(* return word, and for a definition the unify stream and a 0 byte.      *)
TermBody ==
  /\ pc = "term" /\ j <= NTerms
  /\ LET t == env.terms[j]
         a == AlignTo(pos, 8)
     IN /\ tab' = [tab EXCEPT !["term_header"][j] = a]
        /\ pos' = a + 8 * t.nbind + 8 + (IF t.def THEN t.ulen + 1 ELSE 0)
        /\ Mark(a, Tag("body", [k |-> "term", i |-> j - 1], IF t.def THEN 1 ELSE 0))
  /\ j' = j + 1
  /\ UNCHANGED <<env, pc, tok, fixups, imap, left, last, sink>>

TermTableEnd ==
  /\ pc = "term" /\ j > NTerms
  /\ Commit("term_header", tab["term_header"])
  /\ pc' = "thms"
  /\ UNCHANGED <<env, pos, j, tok, tab, imap, left, last, marks, sink>>

ThmTableStart ==
  /\ pc = "thms"
  /\ OpenTable("p_thms", "thm_header", NThms)
  /\ pc' = "thm"
  /\ UNCHANGED <<env, imap, left, last, sink>>

(* One theorem: align_to(8), binder words, unify stream, a 0 byte.         *)
ThmBody ==
  /\ pc = "thm" /\ j <= NThms
  /\ LET t == env.thms[j]
         a == AlignTo(pos, 8)
     IN /\ tab' = [tab EXCEPT !["thm_header"][j] = a]
        /\ pos' = a + 8 * t.nbind + t.ulen + 1
        /\ Mark(a, Tag("body", [k |-> "thm", i |-> j - 1], 1))
  /\ j' = j + 1
  /\ UNCHANGED <<env, pc, tok, fixups, imap, left, last, sink>>

ThmTableEnd ==
  /\ pc = "thm" /\ j > NThms
  /\ Commit("thm_header", tab["thm_header"])
  /\ pc' = "proof"
  /\ UNCHANGED <<env, pos, j, tok, tab, imap, left, last, marks, sink>>

(* p_proof.commit(self), at the position the theorem table left.          *)
ProofStart ==
  /\ pc = "proof"
  /\ Commit("p_proof", pos)
  /\ Mark(pos, Tag("stream", NoEntry, 0))
  /\ pc' = "stream" /\ j' = 1
  /\ UNCHANGED <<env, pos, tok, tab, imap, left, last, sink>>

(* Variant pushing the index entry after write_cmd_bytes.                 *)
StreamRecLate ==
  /\ pc = "stream" /\ j <= Len(Entries(env))
  /\ LET e == Entries(env)[j] IN
     /\ imap' = IF env.index THEN Append(imap, [e |-> e, cmd |-> pos + env.recs[j]]) ELSE imap
     /\ Mark(pos, Tag("cmd", e, 0))
  /\ pos' = pos + env.recs[j]
  /\ j' = j + 1
  /\ UNCHANGED <<env, pc, tok, tab, fixups, left, last, sink>>

(* One statement of the trace: with the index on, push (entry, pos); then *)
(* write_cmd_bytes.                                                        *)
StreamRec ==
  /\ pc = "stream" /\ j <= Len(Entries(env))
  /\ LET e == Entries(env)[j] IN
     /\ imap' = IF env.index THEN Append(imap, [e |-> e, cmd |-> pos]) ELSE imap
     /\ Mark(pos, Tag("cmd", e, 0))
  /\ pos' = pos + env.recs[j]
  /\ j' = j + 1
  /\ UNCHANGED <<env, pc, tok, tab, fixups, left, last, sink>>

(* The 0 byte that ends the proof stream.                                  *)
StreamEnd ==
  /\ pc = "stream" /\ j > Len(Entries(env))
  /\ pos' = pos + 1
  /\ pc' = IF env.index THEN "index" ELSE "noindex"
  /\ UNCHANGED <<env, j, tok, tab, fixups, imap, left, last, marks, sink>>

(* p_index.cancel(); write_u32(0).                                         *)
NoIndex ==
  /\ pc = "noindex"
  /\ pos' = pos + 4
  /\ pc' = "ran"
  /\ UNCHANGED <<env, j, tok, tab, fixups, imap, left, last, marks, sink>>

(* Anchor slot of an entry in the index header: root, then one slot per   *)
(* sort, per term, per theorem (IndexHeader::sort/term/thm).              *)
Anchor(e) ==
  CASE e.k = "sort" -> 2 + e.i
    [] e.k = "term" -> 2 + env.sorts + e.i
    [] e.k = "thm"  -> 2 + env.sorts + NTerms + e.i

(* align_to(8); p_index.commit(self); fixup_large(8 * size).  The sort of *)
(* index_map only decides the order write_index visits the entries in,   *)
(* which IndexEntry leaves free.                                           *)
IndexStart ==
  /\ pc = "index"
  /\ LET a == AlignTo(pos, 8)
         size == 1 + env.sorts + NTerms + NThms
     IN /\ Commit("p_index", a)
        /\ tok' = Alloc("index", a, 8 * size)
        /\ tab' = [x \in DOMAIN tab \cup {"index"} |->
                     IF x = "index" THEN [k \in 1 .. size |-> 0] ELSE tab[x]]
        /\ pos' = a + 8 * size
        /\ Mark(a, Tag("index", NoEntry, 0))
  /\ left' = DOMAIN imap
  /\ pc' = "entry"
  /\ UNCHANGED <<env, j, imap, last, sink>>

(* Variant of write_index_entry without its align_to(8).                   *)
IndexEntryUnaligned ==
  /\ pc = "entry"
  /\ \E x \in left :
       LET n == pos IN
       /\ tab' = [tab EXCEPT !["index"][Anchor(imap[x].e)] = n]
       /\ Mark(n, Tag("rec", imap[x].e, imap[x].cmd))
       /\ pos' = n + 8 + 8 + 4 + 4 + 8 + 4 + 1 + NameLen + 1
       /\ last' = n
       /\ left' = left \ {x}
  /\ UNCHANGED <<env, pc, j, tok, fixups, imap, sink>>

(* write_index_entry: align_to(8), set the entry's anchor, then the       *)
(* record: children, line/column, cmd, id, kind, name and a 0 byte.       *)
IndexEntry ==
  /\ pc = "entry"
  /\ \E x \in left :
       LET n == AlignTo(pos, 8) IN
       /\ tab' = [tab EXCEPT !["index"][Anchor(imap[x].e)] = n]
       /\ Mark(n, Tag("rec", imap[x].e, imap[x].cmd))
       /\ pos' = n + 8 + 8 + 4 + 4 + 8 + 4 + 1 + NameLen + 1
       /\ last' = n
       /\ left' = left \ {x}
  /\ UNCHANGED <<env, pc, j, tok, fixups, imap, sink>>

(* root.set(write_index(...)); index_header.commit(self).  write_index     *)
(* returns the record it wrote last, or 0 for no entries.                 *)
IndexEnd ==
  /\ pc = "entry" /\ left = {}
  /\ Commit("index", [tab["index"] EXCEPT ![1] = last])
  /\ pc' = "ran"
  /\ UNCHANGED <<env, pos, j, tok, tab, imap, left, last, marks, sink>>

(* The fields a fixup writes: one for a 32- or 64-bit fixup, one every 8  *)
(* bytes for a large one.                                                  *)
Patch(f) ==
  IF f.tok \in {"p_terms", "p_thms", "p_proof", "p_index"}
    THEN [o \in {f.at} |-> f.val]
    ELSE [o \in {f.at + 8 * (k - 1) : k \in DOMAIN f.val} |-> f.val[(o - f.at) \div 8 + 1]]

(* finish: seek to each fixup in order and write it; a later write wins.   *)
Finish ==
  /\ pc = "ran"
  /\ sink' = LET P == [i \in DOMAIN fixups |-> Patch(fixups[i])]
                 D == UNION {DOMAIN P[i] : i \in DOMAIN P}
                 LastAt(o) == CHOOSE i \in DOMAIN P : o \in DOMAIN P[i] /\
                                \A i2 \in DOMAIN P : o \in DOMAIN P[i2] => i2 <= i
             IN [o \in D |-> P[LastAt(o)][o]]
  /\ pc' = "done"
  /\ UNCHANGED <<env, pos, j, tok, tab, fixups, imap, left, last, marks>>

Finished == pc = "done" /\ UNCHANGED vars

Next ==
  \/ Header \/ TermTableStart \/ TermBody \/ TermTableEnd
  \/ ThmTableStart \/ ThmBody \/ ThmTableEnd
  \/ ProofStart \/ StreamRec \/ StreamEnd \/ NoIndex
  \/ IndexStart \/ IndexEntry \/ IndexEnd
  \/ Finish \/ Finished

Spec == Init /\ [][Next]_vars /\ WF_vars(Next)

-----------------------------------------------------------------------------
(* The header fields of the format (spec section 6.1), by offset.          *)
Field == [p_terms |-> MagicLen + 12, p_thms |-> MagicLen + 16,
          p_proof |-> MagicLen + 20, p_index |-> MagicLen + 28]

(* The value the finished file holds at offset o; 0 if nothing was patched *)
(* there (fixups reserve zero bytes).                                     *)
At(o) == IF o \in DOMAIN sink THEN sink[o] ELSE 0
TagsAt(o) == {m.tag : m \in {m2 \in marks : m2.at = o}}
IsTag(o, k, e) == \E t \in TagsAt(o) : t.k = k /\ t.e = e

(* Types, and every region a fixup reserved lies behind the writer.        *)
TypeOK ==
  /\ env \in Envs
  /\ pos \in Nat
  /\ \A t \in DOMAIN tok : tok[t].at + tok[t].len <= pos
  /\ pc \in {"header", "terms", "term", "thms", "thm", "proof", "stream",
             "noindex", "index", "entry", "ran", "done"}
  /\ left \subseteq DOMAIN imap

(* After finish, every pointer of the file names the record it is for:    *)
(* the header's table, stream and index pointers; every term and theorem  *)
(* table entry; every index anchor and the root; and every index record's *)
(* cmd field names the statement's command in the proof stream.  With the *)
(* index off, p_index stays 0.                                             *)
PointersResolve ==
  pc = "done" =>
  /\ IsTag(At(Field.p_terms), "term_header", NoEntry)
  /\ IsTag(At(Field.p_thms), "thm_header", NoEntry)
  /\ IsTag(At(Field.p_proof), "stream", NoEntry)
  /\ \A q \in 1 .. NTerms :
       IsTag(At(At(Field.p_terms) + 8 * (q - 1)), "body", [k |-> "term", i |-> q - 1])
  /\ \A q \in 1 .. NThms :
       IsTag(At(At(Field.p_thms) + 8 * (q - 1)), "body", [k |-> "thm", i |-> q - 1])
  /\ IF ~env.index THEN At(Field.p_index) = 0
     ELSE LET base == At(Field.p_index) IN
          /\ IsTag(base, "index", NoEntry)
          /\ IF Entries(env) = <<>> THEN At(base) = 0
             ELSE \E t \in TagsAt(At(base)) : t.k = "rec"
          /\ \A q \in DOMAIN Entries(env) : LET e == Entries(env)[q] IN IsTag(At(base + 8 * (Anchor(e) - 1)), "rec", e)
          /\ \A m \in marks : m.tag.k = "rec" => IsTag(m.tag.c, "cmd", m.tag.e)

(* The bytes finish writes for a fixup: the width of its Value.           *)
Width(f) ==
  CASE f.tok \in {"p_terms", "p_thms"} -> 4
    [] f.tok \in {"p_proof", "p_index"} -> 8
    [] OTHER -> 8 * Len(f.val)

(* finish may apply the fixups in any order (the spec allows sorting them *)
(* by offset) and overwrites no data: every committed Value is exactly as  *)
(* wide as the zero bytes fixup32/fixup64/fixup_large reserved for it, no  *)
(* two reservations overlap, no record starts inside one, and at the end  *)
(* every reservation was committed once, except p_index, which run        *)
(* cancels exactly when the index is off.                                  *)
FixupsSettled ==
  /\ \A i \in DOMAIN fixups : Width(fixups[i]) = tok[fixups[i].tok].len
  /\ \A t1, t2 \in DOMAIN tok :
       t1 # t2 => \/ tok[t1].at + tok[t1].len <= tok[t2].at
                  \/ tok[t2].at + tok[t2].len <= tok[t1].at
  /\ \A m \in marks, t \in DOMAIN tok :
       ~(tok[t].at < m.at /\ m.at < tok[t].at + tok[t].len)
  /\ pc = "done" =>
       \A t \in DOMAIN tok :
         Cardinality({i \in DOMAIN fixups : fixups[i].tok = t})
           = IF t = "p_index" /\ ~env.index THEN 0 ELSE 1

(* Every table, body, index and index record starts on an 8-byte boundary *)
(* (spec section 8, property 3), the proof stream excepted.               *)
RecordsAligned ==
  \A m \in marks : m.tag.k \in {"term_header", "thm_header", "body", "index", "rec"} => m.at % 8 = 0

(* Every block a term or theorem table entry points at ends with a 0 byte *)
(* (spec section 4.8: binders, unifier, terminating 0; section 8: a pure  *)
(* term's body is its return word and a NUL).                              *)
BodiesTerminated ==
  \A m \in marks : m.tag.k = "body" => m.tag.c = 1

(* The proof stream that p_proof names is 8-byte aligned (spec sections   *)
(* 6.1 and 8, property 3).                                                 *)
ProofStreamAligned ==
  pc = "done" => At(Field.p_proof) % 8 = 0
=============================================================================
