\* Up to one sort, two terms and one theorem, with and without the index.
CONSTANTS
  MagicLen = 4
  MaxSorts = 1
  MaxTerms = 2
  MaxThms = 1
  UnifyLens = {1, 2}
  RecLens = {1, 2}
  NameLen = 1
SPECIFICATION Spec
INVARIANTS
  TypeOK
  FixupsSettled
  PointersResolve
  RecordsAligned
