SPECIFICATION Spec

CONSTANTS
  a = a
  b = b
  zero = zero
  Elem <- MCElem
  Zero = zero
  Args <- MCArgs
  Slices <- MCSlices
  MinCap = 2
  MaxSize = 4

INVARIANTS
  TypeOK
  VacatedCleared

PROPERTY ImplementsSequence
