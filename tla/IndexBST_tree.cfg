\* write_index over every index_map of up to five entries on three names.
CONSTANTS
  Names = {1, 2, 3}
  MaxEntries = 5
  Base = 61
SPECIFICATION Spec
INVARIANTS
  TypeOK
  InOrderSorted
  SearchFindsAll
  IndexBalanced
PROPERTY
  IndexRefinement
