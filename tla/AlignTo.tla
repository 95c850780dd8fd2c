------------------------------ MODULE AlignTo ------------------------------
(***************************************************************************)
(* Exporter::align_to (export.rs 251-257): the padding is computed on the *)
(* position truncated to a u8, with wrapping subtraction and a mask.  It  *)
(* is checked against the definition of rounding up by MC_AlignTo.        *)
(***************************************************************************)
EXTENDS Integers, Bitwise

(* Variant without the `& (n - 1)` mask.                                   *)
AlignPadNoMask(pos, n) == (n - (pos % 256)) % 256

(* `n.wrapping_sub(self.pos as u8) & (n - 1)` zero bytes.                 *)
AlignPad(pos, n) == ((n - (pos % 256)) % 256) & (n - 1)

AlignTo(pos, n) == pos + AlignPad(pos, n)
=============================================================================
