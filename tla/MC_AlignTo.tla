----------------------------- MODULE MC_AlignTo -----------------------------
(* A walk over the positions 0 .. PosBound for each width in Widths, on   *)
(* which align_to is compared with rounding up.                           *)
EXTENDS AlignTo

CONSTANTS
  Widths,    \* the alignments align_to is called with
  PosBound   \* positions 0 .. PosBound are checked

VARIABLES p, w
vars == <<p, w>>

Init == p = 0 /\ w \in Widths

Step == p < PosBound /\ p' = p + 1 /\ UNCHANGED w

Done == p = PosBound /\ UNCHANGED vars

Next == Step \/ Done

Spec == Init /\ [][Next]_vars

(* align_to(n) returns the least multiple of n at or after the position:  *)
(* the u8 truncation and wrapping subtraction lose nothing when n divides *)
(* 256, also past the first 256 bytes of the file.                         *)
AlignToCorrect ==
  /\ AlignTo(p, w) % w = 0
  /\ p <= AlignTo(p, w)
  /\ AlignTo(p, w) < p + w
=============================================================================
