\* An environment with a definition or theorem whose unify stream leaves the
\* writer off an 8-byte boundary, then p_proof committed at that position.
CONSTANTS
  MagicLen = 4
  MaxSorts = 1
  MaxTerms = 2
  MaxThms = 1
  UnifyLens = {1, 2}
  RecLens = {1, 2}
  NameLen = 1
SPECIFICATION Spec
INVARIANTS
  ProofStreamAligned
