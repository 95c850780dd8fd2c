\* A plain term (no definition) in the term table.
CONSTANTS
  MagicLen = 4
  MaxSorts = 1
  MaxTerms = 2
  MaxThms = 1
  UnifyLens = {1, 2}
  RecLens = {1, 2}
  NameLen = 1
SPECIFICATION Spec
INVARIANTS
  BodiesTerminated
