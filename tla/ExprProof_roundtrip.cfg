\* Def bodies and axioms with up to one hypothesis, one argument, three heap slots.
CONSTANTS
  Arity <- MCArity
  SortIds <- MCSortIds
  NArgs = 1
  HeapLen = 3
  MaxHyps = 1
SPECIFICATION Spec
INVARIANT TypeOK
INVARIANT SharedSlotsBeforeHyp
INVARIANT SlotIndexCanonical
INVARIANT RoundTripNoHyps
