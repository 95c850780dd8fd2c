\* Every old graph of three nodes with up to two children per container and
\* two atoms, every AtomVec, every root.
CONSTANTS
  N = 3
  Atoms = {0, 1}
  MaxChildren = 2
SPECIFICATION Spec
INVARIANT TypeOK
INVARIANT MemoHomomorphic
INVARIANT SharingPreserved
INVARIANT RemapOutcome
