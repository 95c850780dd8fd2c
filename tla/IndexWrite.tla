----------------------------- MODULE IndexWrite -----------------------------
(***************************************************************************)
(* What the index writer promises, without the tree: each entry of the    *)
(* index map is written once, as a record at an 8-aligned offset beyond   *)
(* everything written before it, and its anchor is set to that offset;    *)
(* once every entry is written, the root is published, naming one of the  *)
(* records (0 for an empty map).  IndexBST implements this specification *)
(* under the mapping given there.                                         *)
(***************************************************************************)
EXTENDS Integers

CONSTANT KeyOf(_)   \* the anchor an entry's offset is stored in

VARIABLES
  entries,  \* the entries of the index map
  written,  \* <<entry, offset>> for every record written
  anchor,   \* anchor key -> offset, 0 while unset
  top,      \* no record may start below this offset
  root,     \* the published root offset
  done      \* the root has been published

vars == <<entries, written, anchor, top, root, done>>

Init ==
  /\ written = {}
  /\ anchor = [k \in {KeyOf(e) : e \in entries} |-> 0]
  /\ top \in Nat
  /\ root = 0
  /\ done = FALSE

WrittenEntries == {w[1] : w \in written}

(* One record for an entry not yet written, at a fresh aligned offset.    *)
Write(e, at) ==
  /\ ~done
  /\ e \in entries \ WrittenEntries
  /\ at >= top /\ at % 8 = 0
  /\ written' = written \cup {<<e, at>>}
  /\ anchor' = [anchor EXCEPT ![KeyOf(e)] = at]
  /\ top' > at
  /\ UNCHANGED <<entries, root, done>>

(* Every entry written: the root names one of the records.                *)
Publish ==
  /\ ~done /\ WrittenEntries = entries
  /\ root' \in IF entries = {} THEN {0} ELSE {w[2] : w \in written}
  /\ done' = TRUE
  /\ UNCHANGED <<entries, written, anchor, top>>

Next ==
  \/ \E w \in written' \ written : Write(w[1], w[2])
  \/ Publish

Spec == Init /\ [][Next]_vars
=============================================================================
