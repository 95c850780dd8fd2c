\* One argument, one hypothesis, two free heap slots: a slot may be shared,
\* be an alias of the other, or hold a conversion that is cut and reused.
CONSTANTS
  Arity <- MCArity
  ThmSig <- MCThmSig
  SortIds <- MCSortIds
  NArgs = 1
  NHyps = 1
  HeapLen = 4
SPECIFICATION Spec
INVARIANTS
  TypeOK
  ProofRoundTrip
  ProofMapResolves
