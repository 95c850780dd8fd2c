# TLA+ models of the mm0-rs MMB exporter

This directory holds TLA+ models of `src/mm0-rs/src/mmb/export.rs`, the
exporter that writes a `.mmb` binary proof file from an elaborated
mm0-rs environment. The models are checked with TLC. The spec marks
`src/mm0-rs/src/elab/lisp.rs` as context only. Its value remapper is
modelled anyway, in `LispRemap`, because it is the one place in the shown
code that takes a lock.

## 1. The system

The exporter is one synchronous pass on one thread. Nothing runs concurrently.
The hard behaviour is in three places:

* how shared sub-terms are numbered while expression and proof DAGs are serialized;
* how values whose position is not yet known are written out of order;
* how names are laid out in the optional index tree.

The model checker is used for these, not for thread interleavings.

| Component | Code (export.rs) | State it keeps | Operations |
|---|---|---|---|
| Reorder map | `Reorder` 16-32 | `map: [Option<u32>]` (heap slot → output index), `idx` (next index) | `new`; updated by every serializer |
| Proof-stream expression serializer | `write_expr_proof` 154-179 | the reorder map, the scratch buffer | Ref (fresh / already saved), Dummy, App |
| Unify serializer | `write_expr_unify` 286-323 | the reorder map, the `save` queue of slots whose index is not known yet, the output | Ref (fresh / saved), Dummy, App; `commit!` drains the queue |
| Proof and conversion serializer | `write_proof` 325-378, `write_conv` 380-427 | the reorder map, the theorem's hypothesis indices `ehyps` | Ref, Dummy, Term, Hyp, Thm, Conv; Refl, Sym, Cong, Unfold, ConvCut/ConvSave/ConvRef |
| Positioned writer | `Write for Exporter` 142-152, `align_to` 251-257 | `pos` | write_all, write_u32/u64, align_to |
| Fixup registry | `Fixup32/64/Large` 82-140, `fixup32/64/large` 233-249, `finish` 680-691 | `fixups: Vec<(u64, Value)>` | allocate, commit, commit_val, cancel, finish |
| Binder packing | `write_binders` 271-284, `write_sort_deps` 259-262, headers 264-269, 429-433 | the rolling bound bit `bv` | one 64-bit word per binder |
| Index builder | `write_index_entry` 435-487, `write_index` 489-518 | the index header fixup | recursive BST construction over the name-sorted entries |
| Top-level driver | `run` 527-677 | all of the above | header, sort table, term table, theorem table, proof stream, index |
| BigBuffer | 181-213 | an in-memory cursor | write, seek, `finish`, flush on `Drop` |

**How they interact.** `run` writes the header. It reserves `p_terms` and
`p_thms` as 32-bit fixups and `p_proof` and `p_index` as 64-bit fixups. For
each term it aligns the output to 8 bytes, records that offset in the term
table fixup, writes the binders, and writes the unifier of a Def
(`write_expr_unify`). Theorems are handled the same way, with the unifier
covering the statement and then the hypotheses in reverse order. It then walks
the declaration trace and writes one proof-stream record per sort or
declaration:

* for a Def or an Axiom, it uses `write_expr_proof`;
* for a theorem, it uses `write_proof` and `write_conv`.

Finally it builds the index, or cancels `p_index`. `finish` seeks to every
fixup and writes its value.

**Reading the output.** The proof stream and the unify stream are programs for
the verifier's stack machine:

* In a proof stream, `Dummy`, a saved `Term` or `Thm`, `Hyp`, `Save` and
  `ConvSave` each push one entry onto the verifier's heap. `Ref(n)` reads entry
  `n`.
* In a unify stream, a saved `Term` and a `Dummy` push.

The exporter numbers these entries with `reorder.idx`. The whole sharing
discipline is correct only if the exporter's numbering and the reader's heap
agree.

**What is hard to test.** All of it is sequential, but the serializers are
recursions over DAGs with back-references. Some inputs are rare and hard to
write tests for:

* chains of `Ref` to `Ref`;
* a slot first met inside an application's argument;
* a hypothesis followed by a fresh shared sub-term;
* queued slots carried from one statement to the next.

The full list, each at its line, is the `hazards` list of `PROJECT.json`.

**What makes each part correct.**

* Serializers: reading the stream back gives the declaration
  (round trip). Every index held by the reorder map names a reader heap entry
  with the slot's meaning. Two slots share an index exactly when they are the
  same node.
* Unifier: running it against the declaration's own statement succeeds and
  consumes the statement and every hypothesis.
* Writer and fixups:
  * every forward pointer is committed, or cancelled to 0 for `p_index`;
  * pointed-to records are 8-byte aligned;
  * fixups do not overlap;
  * after `finish` every pointer holds the position it promised.
* Binders: the word decodes back to (bound, sort, deps). The i-th bound
  binder's mask is 2^i. The 56th bound binder panics.
* Index: an in-order walk gives the name-sorted entries, each exactly once.
  Every anchor points at its own record. The tree is as deep as a balanced one, plus an
  equal-name run.

## 2. Modules and runs (built so far)

### `MmbExpr` (shared definitions)

This module defines the following:

* **Expression heaps.** A heap is a function `0..HeapLen-1 -> ExprNode`.
  Argument slots come first. A `Ref` only names a lower slot (spec §9: heaps are
  topologically ordered).
* **`Val`.** The meaning of a node, as a tree with sharing unfolded.
* **The proof-stream commands and `Read`.** `Read` is a reference reading of an
  expression proof stream: a stack machine with a heap that starts with the
  arguments.

In `Read`:

* `Dummy`, a saved `Term` and `Hyp` each push onto the heap.
* `Ref(n)` pushes heap entry `n`.
* `Hyp` also adds the statement to the hypothesis list.

That `Hyp` takes a heap entry is what the exporter itself assumes in the Thm
branch of `run` (lines 640-642: `ehyps.push(reorder.idx); reorder.idx += 1`).

A dummy command carries the dummy's name as a ghost field. The wire format does
not, but the ghost field lets the reading tell two dummies apart. `Read` and
`Val` are the reference semantics the properties compare against. They are not
code of the repository, so they are not in the map.

### `ExprProof`: `write_expr_proof` and the Def/Axiom bodies

The recursion is an explicit stack of frames, so that each step writes at most
one command. The frame kinds are:

* `Call(node, save)`;
* `TermF` for the `ProofCmd::Term` written after an application's children;
* `SetMap(i)` for `reorder.map[i] = Some(n)`.

The match arms map to actions as follows:

| Code | Action |
|---|---|
| `Ref` with `map[i]` None | `RefFresh` |
| `Ref` with `Some(n)` | `RefSaved` |
| `Dummy` | `DummyNode` |
| `App` | `AppEnter` then `AppTerm` |
| the assignment after a Ref's expansion | `RefRecord` |
| hypotheses loop of the Axiom branch, `ProofCmd::Hyp` | `StartHyp`, `EmitHyp` |
| the statement | `StartRet` |
| `vec.write_u8(0)` | `EndBody` |

`Init` picks any declaration from the bounded input space:

* a Def: a heap that may contain dummies, and a head;
* an Axiom: a heap without dummies, up to `MaxHyps` hypotheses, and a return
  value.

Runs:

* **`expr_roundtrip`** (`ExprProof_roundtrip.cfg`, `MaxHyps = 1`, pass,
  599,371 states) checks four properties:
  * `TypeOK`, which also bounds `idx` by the heap length;
  * `SharedSlotsBeforeHyp`: until the first `ProofCmd::Hyp` is written, every
    index in the map names a reader heap entry equal to the slot's meaning
    (`SharedSlotsResolve`);
  * `SlotIndexCanonical`: two slots share an index exactly when a Ref chain
    joins them (spec section 8 items 1-2). This holds with hypotheses too;
  * `RoundTripNoHyps`: the finished body of a declaration without hypotheses
    reads back as the statement (`BodyRoundTrip`).

  The two restricted properties are `SharedSlotsResolve` and `BodyRoundTrip`
  limited to where the `axiom_hyp_index` finding below does not reach; the
  unrestricted `BodyRoundTrip` is that run's property.
* **`axiom_hyp_index`** (`ExprProof_axiom_hyp.cfg`, violation) checks
  `BodyRoundTrip` with one axiom hypothesis. TLC finds the following
  counterexample. The axiom has hypothesis `x` and statement `f(c, c)`, with
  `c` a shared slot. The exporter writes `Hyp` and then saves `c` as index 1,
  because `idx` was not advanced by `Hyp`. The reader put the hypothesis at
  index 1, so the second `c` is written as `Ref(1)` and reads back as the
  hypothesis. This is the finding in `PROJECT.json`.

Bounds: one argument, a heap of 3 slots, a nullary term `c`, a binary term `f`,
one sort. These bounds already allow:

* a dummy slot;
* an application that shares a lower slot twice;
* a Ref chain (slot 2 = `Ref(1)`);
* inline nested applications.

A heap of 3 slots is the smallest in which a shared slot can itself use another
shared slot.

### `ExprUnify`: `write_expr_unify` with the `save` queue

Actions:

* `RefFresh` queues the slot and continues into `heap[i]`.
* `RefSaved` writes `Ref(n)` and runs `commit!(n)`.
* `DummyNode` runs `commit!(idx)`, advances `idx` and writes `Dummy`.
* `AppNode`: if the queue is empty it writes an unsaved Term. Otherwise it runs
  `commit!(idx)`, advances `idx` and writes a saved Term. Then it pushes the
  children.
* The driver writes the statement, then for each hypothesis from last to first
  a `Hyp` and the hypothesis (`StartHyp`), then 0 (`EndUnify`). One `save`
  queue and one reorder map are shared across all of them, as at lines 575-582.

The reference unifier `URead` is run against the declaration's own statement:

* `Term` pops a node of that head, saves it if asked, and pushes its arguments
  with the first on top.
* `Ref(n)` pops a node that must equal heap entry `n`.
* `Hyp` pushes the next hypothesis, starting from the last.

Run **`unify_match`** (`ExprUnify_match.cfg`, `MaxHyps = 1`, pass) checks:

* `UnifyMatches`: the unifier matches and consumes the statement and every
  hypothesis;
* `UnifyMapResolves`: at every step, every index in the map names the reader's
  entry for that slot;
* `TypeOK`.

`MaxHyps = 2` also passes, but takes 12 minutes, over the 5-minute budget.

### `ProofNodes` and `ProofStream`: `write_proof`, `write_conv` and the Thm branch

`ProofNodes` extends the heaps of `MmbExpr` with the proof nodes (`Hyp`,
`Thm`, `Conv`) and the conversion nodes (`Refl`, `Sym`, `Cong`, `Unfold`).
`ProofNode` is defined outside this repository, so these constructors are
modelled from the spec. A heap is generated slot by slot with a kind for each
slot ("expr", "proof" or "conv"):

* slots `0..NArgs-1` are arguments;
* the next `NHyps` slots hold `Hyp(n, e)`;
* the remaining slots hold a dummy, a unary term, a `Thm` of a one-argument,
  one-hypothesis axiom, a `Conv`, any conversion, or a `Ref` alias of a lower
  free slot.

A child only refers to slots of the kind its position needs. So
`write_proof` never meets a conversion and `write_conv` never meets an
expression, and the `unreachable!()` arms (373-376, 404-408) are not reached.
`Init` enumerates every such heap and head (44 012 proofs for `NArgs = 1`,
`NHyps = 1`, `HeapLen = 4`).

The two mutually recursive functions are one stack of frames:

| Frame | Stands for |
|---|---|
| `PCall(n, save)` | a call `write_proof(n, save)` |
| `CCall(n)` | a call `write_conv(n)` |
| `TermF` / `ThmF` | the command written after the children |
| `ConvF` | `ProofCmd::Conv`, then `write_conv(c)` |
| `SaveF` | the `if save` of the Conv arm |
| `SetMap(i)` | `reorder.map[i] = Some(n)` (336) |
| `CutF(i)` | `ConvSave`, `map[i] = idx`, `idx += 1` (396-398) |
| `UnfoldF(c)` | `ProofCmd::Unfold`, then `write_conv(c)` |

`rv` is the `u32` that `write_proof` returns. There is one action per match
arm:

* `write_proof`: `PRefFresh`, `PRefSaved`, `RecordRef`, `PDummyNode`,
  `PTermEnter`/`PTermEmit`, `PHypNode`, `PThmEnter`/`PThmEmit`,
  `PConvEnter`/`PConvEmit`/`SaveAfterConv`.
* `write_conv`: `CRefInline` (a fresh Ref to a Refl or a Ref is written in
  place), `CRefCut`/`CCutSave`, `CRefSaved`, `CRefl`, `CSym`, `CCong`,
  `CUnfoldEnter`/`CUnfoldEmit`.
* The Thm branch of `run`: `StartHyp`, `EmitHyp` (`Hyp`, `ehyps.push(idx)`,
  `idx += 1`), `StartRet`, `EndBody`.

The reference reading `PRead` extends `Read`:

* `Thm` pops `res`, the binder arguments and the hypothesis proofs, as many
  as the theorem table says.
* `Conv` pops `p` and `e1` and waits for a conversion.
* `Save` saves the top of the stack.
* Conversions are prefix. `Sym`, `Cong`, `Unfold` and `ConvCut` open a frame
  that waits for its arguments. `ConvSave` closes a cut and saves the
  conversion. `ConvRef(n)` must name a saved conversion.
* `Cong` carries its term as a ghost field so that the reading knows how many
  conversions follow. In the real verifier, unification supplies this.

Run **`proof_roundtrip`** (`ProofStream_roundtrip.cfg`, pass, 798 330 states,
about 15 s) checks:

* `ProofRoundTrip`: the finished stream reads back as the proof tree, the
  hypotheses read back as the hypothesis statements, and no conversion frame
  is left open.
* `ProofMapResolves`: at every step, every index in `map` and in `ehyps`
  names the reading's heap entry for that slot or hypothesis. This covers
  indices recorded by `RecordRef`, by `CCutSave` and by the hypothesis loop.
* `TypeOK`: types, and every recorded index lies below `idx`.

Mutants: writing the binder arguments before the hypothesis proofs
(`PThmEnterArgsFirst`) breaks `ProofRoundTrip`. Recording `idx + 1` after a
cut (`CCutSavePreIncr`) breaks `ProofMapResolves`. Dropping the `idx += 1`
after a cut (`CCutSaveNoIncr`) breaks `TypeOK`.

Every action fires in this run, including `CRefSaved`: a `ConvRef` happens
when a cut conversion slot is used by two `Conv` nodes. In the Thm branch,
`EmitHyp` advances `idx` (lines 641-642), so the stale index of the Axiom
branch (finding above) does not occur here.

### `AlignTo` and `Layout`: the positioned writer, fixups and `finish`

`AlignTo` holds `align_to` (251-257) as two operators:

* `AlignPad(pos, n)` is `((n - pos % 256) % 256) & (n - 1)`. This is the u8
  truncation, the wrapping subtraction and the mask, using `&` from the
  community module `Bitwise`.
* `AlignTo(pos, n)` is `pos` plus that padding.

`MC_AlignTo` walks `pos` over `0..520` for each `n` in {2, 4, 8}. Run
**`align_to`** (pass, 1 563 states) checks `AlignToCorrect`: the result is
the least multiple of `n` at or after `pos`, past the first 256 bytes too.
The mutant without the mask (`AlignPadNoMask`) breaks it at `pos = 0`.

`Layout` follows `run` section by section, with contents abstracted to
lengths:

* `Header` (528-543) writes the fixed fields and allocates the four header
  fixups at their offsets, then one byte per sort. The offsets follow from
  the zero bytes `fixup32` and `fixup64` reserve (`Fixup32Len`,
  `Fixup64Len`, lines 233-243).
* `TermTableStart`/`ThmTableStart` (`OpenTable`, 546-547 and 568-569) run
  `align_to(8)`, commit the header pointer and allocate the large table
  fixup, writing its zero bytes.
* `TermBody`/`ThmBody` (548-564, 570-583) write one body each. The table
  entry is `align_to(8)`. Then come 8 bytes per binder, the return word
  (terms only), and for a definition or theorem a unify stream of a length
  from `UnifyLens` and a 0 byte.
* `TermTableEnd`/`ThmTableEnd` commit the table buffers.
* `ProofStart` (587) commits `p_proof` at the current position.
* `StreamRec` (590-657) handles one statement of the trace. With the index
  on, it pushes `(entry, pos)`, then writes a record of a length from
  `RecLens`.
* `StreamEnd` (658) writes the final 0 byte.
* Without the index, `NoIndex` (672-675) cancels `p_index` and writes 4
  bytes.
* With the index:
  * `IndexStart` (661-669) aligns, commits `p_index` and allocates the anchor
    table.
  * `IndexEntry` (`write_index_entry`, 435-487) writes one record per entry,
    aligned, and sets the entry's anchor. `IndexEntry` may pick the entries in
    any order. `write_index` visits them in one order, which the index builder
    decides. The root is the record written last (or 0).
  * `IndexEnd` (670-671) stores the root and commits the anchor table.
* `Finish` (680-691) applies `fixups` in commit order to `sink` (field offset
  to value); a later patch wins.

The ghost set `marks` records where each record of the file begins: a table,
a body, the stream, a statement's command, the anchor table, an index record
(with the `cmd` field it holds). Properties are stated against the marks, not
against the values the actions commit.

Runs (`MC_Layout`, up to 1 sort, 2 terms, 1 theorem, at most one binder
each, unify and record lengths in {1, 2}, index on and off):

* **`layout_pointers`** (pass, 438 085 states, about 25 s):
  * `FixupsSettled`: `finish` may apply the fixups in any order and
    overwrites no data. The spec (§ Finalization) lets an implementation sort
    them by offset, and the code commits them out of order (each table after
    its bodies). The property checks four things:
    * every committed `Value` (`Width`) is exactly as wide as the zero bytes
      its fixup reserved;
    * no two reservations overlap;
    * no record begins inside one;
    * at the end each reservation was committed once, except `p_index`,
      which is cancelled exactly when the index is off.

    The mutant `Fixup64LenShort`, a `fixup64` reserving with
    `write_u32(0)`, breaks it when `p_proof` is committed.
  * `PointersResolve`: after `finish`, each of the following names the record
    it is for:
    * the `p_terms`, `p_thms`, `p_proof` and `p_index` header fields;
    * every table entry;
    * every index anchor;
    * the root;
    * every index record's `cmd` field.

    With the index off, `p_index` reads 0. The mutant `StreamRecLate`, which
    records the position after `write_cmd_bytes`, breaks it.
  * `RecordsAligned`: tables, bodies, the anchor table and index records start
    on 8-byte boundaries. The mutant `IndexEntryUnaligned` breaks it.
  * `TypeOK`, which includes "every reserved fixup region lies behind the
    writer". A `fixup_large` that does not write its zeros
    (`OpenTableNoReserve`) breaks it.
* **`proof_stream_aligned`** (violation) checks `ProofStreamAligned`. Spec
  §6.1 and §8 property 3 require `p_proof` to be a multiple of 8. Line 587
  commits it with no `align_to(8)`. Trace: no sorts, no terms, one theorem
  with no binders and a 1-byte unify stream. The theorem table is 40..48,
  the body is the stream and its 0 byte, so `p_proof = 50`.
* **`term_body_nul`** (violation) checks `BodiesTerminated`. Spec §4.8 (and
  the pure-term scenario of §8) says every table body ends with a 0 byte. For
  `TermKind::Term`, the code writes the binders and the return word and no 0
  byte (the `write_u8(0)` at line 560 is in the Def branch only).

### `Binders`: `write_binders` and `write_sort_deps`

`Binders` models one declaration's entry of the term or theorem table as
`run` writes it (lines 549-554 and 571-574): the 8-byte table entry
(`write_term_header` 264-269, `write_thm_header` 429-433), then one call of
`write_binders` (271-284), then, for a term, the return word. The entry's
`p_term`/`p_thm` field is `Layout`'s. `nargs` is converted to `u16` with
`try_into().expect`; `MaxArgs` stays far below that bound, so that panic
is not reached.

A word is `bound << 63 | sort << 56 | deps`. The model keeps that layout at a
scaled width:

* `DepBits` dependency bits (55 in the code);
* one unused bit;
* `SortBits` sort bits (7 in the code);
* the bound flag on top.

The capacity test `bv >= 1 << 55` becomes `Full(bv) == bv >= 2^DepBits`.

**Inputs.** `decl` is a term or a theorem with up to `MaxArgs` binders. The
dependency mask of a `Type::Reg` binder is one of two values: 0, or every
bound variable declared before it. These are the masks the elaborator
produces.

**Actions.** Each arm of the loop is an action:

* `TermHeader`, which writes `nargs` and byte 2 = `sort | 0x80` for a
  definition (`DefFlag`, scaled to `2^SortBits`), and `ThmHeader`, which
  writes `nargs` and leaves byte 2 at its reserved 0;
* `BoundArg`;
* `BoundPanic`, which is the `panic!`;
* `RegArg`;
* `EndBinders`, which writes the return word for a term.

**Run `binders_words`** (pass): `DepBits = 3`, `SortBits = 1`, `MaxArgs = 4`,
47 539 states. Four bound binders reach the panic.

* `BindersDecode`: every word written decodes to its binder. The i-th bound
  binder decodes to the single dependency bit i, and a term's last word
  decodes to its return sort and dependencies. The table entry reads back
  `nargs`, the sort in the low bits of byte 2 and the definition flag in its
  top bit; this works only because sort ids are below `2^SortBits` (the
  assert on `num_sorts` at line 530). The mutant `BoundArgEarly`, which
  doubles `bv` before the write, breaks it. So does `DefFlagLow`, a flag of
  0x40, which lies inside the sort field.
* `CapacityEnforced`: no dependency bit at or above `DepBits` is ever written.
  A declaration finishes exactly when it has at most `DepBits` bound
  binders, and panics otherwise. `FullLate` (`>` for `>=`) breaks it.
* `TypeOK`: every word fits the word width. `SortDepsHighBound` breaks it.

### `IndexBST`: the debugging index (`write_index`, `write_index_entry`)

`IndexBST` models the `if index` branch of `run` (lines 660-671).

**Input.** `imap` is `index_map` as the statement loop pushes it (lines
590-597): one entry per sort, term and theorem, with `cmd` increasing in push
order and ids counting up within each kind. An atom has a `sort` field and a
`decl` field, so a sort and a declaration may share a name, but two sorts may
not, and neither may two declarations.

**Sort.** `IndexStart` aligns and sorts. The sort is `sort_unstable_by_key`,
so it is any ordering by name. `IndexStart` then reserves the `8 * size`
header with `fixup_large` and calls `write_index(&[], &index_map)`.

**Recursion.** `write_index` is an explicit frame stack:

* `Split`: the median, the two loops widening `[lo, hi)` to the run of its
  atom (`RunLo`, `RunHi`), and the left call;
* `AfterLeft`: the right call, with `map[lo+1..hi]` as its `left`;
* `AfterRight`: `write_index_entry(il, ir, map[lo])`;
* `ChainStart`, `ChainEntry`, `ChainEnd`: the empty-map case, which writes
  `left` in reverse as a right-linked chain.

**Records.** `WriteEntry` is `write_index_entry`. It aligns, sets the
entry's anchor, and writes a record of 37 + name + 1 bytes. Only the child
offsets and the entry are kept.

The reader side is `InOrder` (the in-order walk over the records) and
`Lookup` (a search by name that, on a match, also continues into the right
subtree).

**Run `index_tree`** (pass, 450 149 states, about 18 s): every `index_map`
of up to five entries on names {1, 2, 3} (name length = name). The base
position is unaligned. Five entries give maps of odd length, depth-three
trees and an equal-name run carried into a right call that also has a
nonempty map. Six entries take 90 s with no new kind of split.

* `InOrderSorted`: the in-order walk from the root is exactly the sorted
  map. That includes the equal-name run handed to the right call landing
  right after its first member. A node written with its children exchanged
  (`AfterRightSwapped`) breaks it.
* `SearchFindsAll`: a search finds every entry of a name and nothing else.
  Dropping the downward loop (`SplitNoLowerRun`) breaks it: an entry of the
  median's name is left in the left subtree, where the search does not look.
* `IndexBalanced`: the longest search path passes at most
  `floor(log2 n) + 1` records, plus the rest of the longest equal-name run,
  which the right call writes as a chain under its leftmost leaf. This is
  why `write_index` splits at the median (`lo = map.len() / 2`, line 491).
  A split at the first entry (`SplitAtStart`) keeps the tree ordered and
  every search correct, so the other properties and any functional test
  pass. Only this property catches it: the tree becomes a list.
* `IndexRefinement` (`PROPERTY`): `IndexBST` implements the abstract
  specification `IndexWrite` (see below). Passing the split node along with
  the run carried to the right call (`AfterLeftKeepsNode`, off by one in
  `map[lo+1..hi]`) writes it twice, which breaks the refinement at the second
  write.
* `TypeOK`, which includes "records lie beyond the reserved header".
  `IndexStartNoReserve` breaks it.

**Abstract specification `IndexWrite`.** It states what `write_index` and
its caller promise, without the tree:

* `Write(e, at)`: an entry not yet written gets a record at an 8-aligned
  offset `at` at or beyond `top`, its anchor is set to `at`, and `top`
  moves past `at`;
* `Publish`: once every entry is written, the root names one of the records
  (0 for an empty map).

`IndexBST` instantiates it as `Abs == INSTANCE IndexWrite WITH ...`:

| Abstract variable | Concrete value |
|---|---|
| `entries` | the entries of `imap` |
| `written` | the `<<entry, offset>>` pairs of `recs` |
| `anchor` | `anchor` |
| `top` | the end of the reserved root and anchor slots until the first record, then `pos` |
| `root` | `root` |
| `done` | `pc = "done"` |

`Abs!Spec` is checked as a property. It implies that every anchor resolves
to its own record once the index is written, and that no record is written
twice. Every step of `IndexBST` other than `ChainEntry`, `AfterRight` and
`IndexEnd` is a stuttering step of `IndexWrite`.

Spec §4.10 asks for a stable sort, and the code calls `sort_unstable_by_key`.
The model therefore lets a sort and a declaration of the same name come out
in either order. All three properties hold for every such order; only which
of the two becomes the tree node depends on it. The standard library's
current implementation keeps the order for slices of up to 20 entries.

Two more observations from the model:

* Since an atom has at most two entries, the carried chain never holds more
  than one entry, so the `rev()` in the chain loop is never exercised.
* Spec §4.10 gives the record length as 40 + name + 1 bytes. The fields the
  code writes add up to 37 bytes before the name.

### `Sink`: `BigBuffer`, `Exporter::finish` and failure paths

`Sink` follows the image from `run` to the real sink when the writer is a
`BigBuffer` (lines 180-213).

**Caller.** The caller is not in this repository, so it is modelled from the
spec and from `BigBuffer::finish`'s doc comment. It lends the buffer to the
`Exporter`, calls `run`, then `Exporter::finish`, then `BigBuffer::finish`,
and drops the buffer on every exit.

**Cells.** The image is a sequence of cells:

* `"D"`: data;
* `"Z"`: the zeros a fixup reserves;
* `"V"`: a fixup's value.

**`run`.** `run` is reduced to the writer calls it makes and to a panic,
which can happen at any of its fatal checks:

* `WriteData` is the `Write` impl: `pos` is advanced, then the Cursor is
  written.
* `Reserve` is `fixup*`.
* `Commit` and `Cancel` are the fixup tokens' methods.
* `RunPanic` starts unwinding.

**After `run`.**

* `ExFinishFixup` is one seek-and-write of `Exporter::finish`.
* `BBFinish` is `write_all(&mem::take(buffer))`.
* `Drop` is `write_all(get_ref()).expect(..)`. A failure in `Drop` panics,
  and while unwinding that aborts.
* The real sink's `write_all` either writes everything, or writes a strict
  prefix and fails.

**Direct file.** `Exporter<W: Write + Seek>` may also be given a seekable file
directly. `Init` chooses between the two writers with `direct`. With a direct
file, `buf` and `cur` are the file and its position. Two more actions apply:

* `WriteFail`: `Exporter::write_all` has already advanced `pos` when the
  file's `write_all` fails, and `run` returns the error through `?`.
* `FinishFail`: a seek, a value write or the final flush of
  `Exporter::finish` fails. The fixups from that one on stay zero in the file
  (hazard at line 682).

`RunPanic` then leaves the file as it is, and `ExFinishEnd` ends the export.

**Run `sink_release`** (pass, 8 860 states): every run of up to 4 cells,
through a `BigBuffer` or straight to a file, with a sink that may fail.

* `FinalImage`: an export that returns Ok leaves in the sink (or the file)
  exactly `run`'s image with every committed fixup's value at its offset. A
  `finish` that writes at the cursor without seeking (`ExFinishFixupNoSeek`)
  breaks it.
* `ReleasedOnce` (spec §5): through a `BigBuffer`, on every exit, including
  a panic of `run`, the buffer reaches the sink exactly once unless the sink fails. A `Drop` that
  writes from the cursor on (`DropFromCursor`) loses the image after a
  panic.
* `ErrorSurfaced`: the result is Ok exactly when neither `run` panicked nor
  the sink failed. With a direct file, this covers a failure between two
  fixups of `finish`. A sink failure on the normal path is an `io::Error` and not
  a panic in `Drop`. This holds because `mem::take` empties the buffer
  before the write. `BBFinishIgnoreError` breaks it.
* `TypeOK`, which includes "during `run`, `pos` is the cursor and the image
  length". A fixup that writes its zeros past `pos` (`ReserveNoPos`) breaks
  it.

**What the model shows about the panic path.** After a panic in `run`, the
sink receives the unpatched image, with its header pointers still zero.
That is what spec §5 asks for ("flushed on all exit paths, including
panic"). If the sink then fails, the process aborts. Spec §7 leaves the
cleanup of such a partial file to the caller.

### `LispRemap`: remapping Lisp values (`elab/lisp.rs` 94-135)

`impl Remap<LispRemapper> for LispVal` copies a graph of Lisp values into a
new environment. It renames atoms through `r.atom`, and it shares copies
through the memo `r.lisp`, which is keyed by the old value's pointer.

**The old graph.** `heap` holds the old graph as nodes `1..N` of four kinds:

* `Atom`;
* `List`, which stands for `List`, `DottedList`, `AtomMap` and a `Proc`'s
  environment: ordered children;
* `Ref`, a `Mutex` with one child;
* `Leaf`, every kind the `_ => self.clone()` arm returns as it is.

An `Arc` is immutable, so a container points only at older nodes. A Ref's
content may point anywhere, so every cycle passes through a Ref.

**State and actions.** The recursion is a stack of frames.

| Code | Action |
|---|---|
| `if let Some(v) = r.lisp.get(&p) {return v.clone()}` | `Lookup` |
| `LispKind::Atom(a) => ... a.remap(r)` | `EnterAtom` (`AtomGet` is `get(a).unwrap_or(a)`) |
| `List`/`DottedList`/`Proc`/`AtomMap` arms | `EnterList`, then `Descend`/`Collect` per child |
| `Mutex::new(self.lock().unwrap().remap(r))` | `EnterRef` (lock), children, `Build` (guard dropped) |
| `_ => self.clone()` | `EnterLeaf` |
| `r.lisp.entry(p).or_insert(v).clone()` | `OrInsertReturn`, in every returning action |

New nodes are numbered `N+1, N+2, ...` and kept in `nh`. If `EnterRef` finds
the lock already held by this thread, it ends the run in `"deadlock"` or in
`"panic"`: `std::sync::Mutex::lock` leaves that choice unspecified.

**Run `lisp_remap`** (`LispRemap_graphs.cfg`, pass, 101 584 states, about
7 seconds). It
covers every graph of 3 nodes with up to 2 children per container, 2 atoms,
every `AtomVec` over them, and every root. Three nodes are enough for:

* a DAG with a shared node;
* a Ref that contains itself;
* a cycle through a Ref and a List;
* an atom that is renamed next to one that is not.

| Property | Statement | Mutant that breaks it |
|---|---|---|
| `MemoHomomorphic` | Every memo entry is the image of its node: leaves are kept, atoms renamed, containers and Refs rebuilt from the images of their children, in order. | `EnterAtomAsLeaf`: `Atom` falls into the default arm. |
| `SharingPreserved` | Every new node is the image of exactly one old node, so a shared node is copied once. | `UnvisitedNoLookup`: the memo lookup is dropped. |
| `RemapOutcome` | `remap` returns exactly when no Ref cycle is reachable from the root, and then returns the root's image. Otherwise it stops at a Ref whose lock this thread holds. | `EnterRefUnlocked`: the content is cloned out of the guard and remapped after the unlock. It recurses until the stack overflows. |
| `TypeOK` | Every lock held belongs to a Ref whose content is being remapped. | `BuildKeepsLock`: the guard outlives the call. |

**What the model shows.** A cyclic Lisp value does not return from `remap`:
the thread deadlocks or panics on the Ref's own Mutex. Such a value is a Ref
set to contain itself, which `set!` on a `ref!` can build. The memo is filled
only after a node's children are remapped, so it cannot break the cycle.
This is recorded as a hazard and not as a finding, because neither the spec
nor a comment promises anything about cyclic values.

**Not modelled.** The IR and match branches that a `Proc` carries are
remapped by impls outside this file. Evaluating a value concurrently while
it is remapped is also left out. The keys of an `AtomMap` are cloned as
they are (line 102) and not renamed through `r.atom`; the model keeps only
the values as children, so `MemoHomomorphic` says nothing about the keys.
No liveness property is checked: the walk of a finite graph is finite, and
`RemapOutcome` with TLC's deadlock check already says that every run ends
in `"done"` with the root's image or at a relocked Ref.

### Fairness

The exporter is a single-threaded loop that never waits. `Spec` carries
`WF_vars(Next)` only so that a finished body is not counted as a deadlock:
`Finished` is a stuttering step once `pc = "done"`. No liveness property
is checked. Termination of the recursions follows from the topological order
of the heaps, which `Init` guarantees.

## 3. Plan

The modules are ordered by how much of the exporter's correctness rests on
them.

1. **Done: `MmbExpr`, `ExprProof`, `ExprUnify`.** The two expression
   serializers and the reorder map.
2. **Done: `ProofNodes`, `ProofStream`.** `write_proof` and `write_conv`
   with the Thm branch of `run`. A possible extension is a run with two
   hypotheses, once its state space fits the time budget.
3. **Done: `AlignTo`, `Layout`, `Sink`.** `Sink` includes the direct
   seekable file, where `finish` can fail between two fixups.
4. **Done: `Binders`.** `write_binders` and `write_sort_deps` at a scaled
   word width.
5. **Done: `IndexBST`.** `write_index` as a state machine writing
   entries. It checks:
   * the in-order walk equals the sorted entries;
   * every entry occurs once;
   * anchors point at their records;
   * equal-name runs, including a sort and a declaration sharing a name.

   It refines the abstract `IndexWrite`.
6. **Done: `LispRemap`.** The lisp.rs remapper, with the Ref lock and the
   outcome on cyclic values.
7. **Composition, not needed.** `Layout` and the serializers share only the
   body lengths. Each Def, Axiom and Thm branch of `run` builds a fresh
   `Reorder`, and `term_reord` (line 563) is pushed but never read in
   `export.rs`. A `Driver` module would therefore run the serializers one
   after the other and could not reach any state the separate runs miss.

## 4. Not modelled

* **`Syntax::from_str` and `Syntax::parse`** (`elab/lisp.rs` 14-54). These
  are string-to-keyword tables with no state and no property to check.
* **The byte encoding of commands** (`write_cmd_bytes`, `ProofCmd::write_to`).
  This belongs to the external codec. Commands are modelled as records.
* **Source positions in index entries** (`to_pos`). These are formatting only.
