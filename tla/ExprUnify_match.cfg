\* Definitions and theorems with their hypotheses, unified against their own statements.
CONSTANTS
  Arity <- MCArity
  SortIds <- MCSortIds
  NArgs = 1
  HeapLen = 3
  MaxHyps = 1
SPECIFICATION Spec
INVARIANT TypeOK
INVARIANT UnifyMatches
INVARIANT UnifyMapResolves
