\* The widths of the spec's positioned writer, over the first two 256-byte
\* pages of the file.
CONSTANTS
  Widths = {2, 4, 8}
  PosBound = 520
SPECIFICATION Spec
INVARIANT AlignToCorrect
