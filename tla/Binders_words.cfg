\* Three dependency bits, one sort bit, up to four binders: the fourth
\* bound binder is one past the capacity.
CONSTANTS
  DepBits = 3
  SortBits = 1
  MaxArgs = 4
SPECIFICATION Spec
INVARIANTS
  TypeOK
  BindersDecode
  CapacityEnforced
