\* An axiom with one hypothesis, read back from its proof stream.
CONSTANTS
  Arity <- MCArity
  SortIds <- MCSortIds
  NArgs = 1
  HeapLen = 3
  MaxHyps = 1
SPECIFICATION Spec
INVARIANT BodyRoundTrip
