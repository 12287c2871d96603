CONSTANTS
  Nil = Nil
  Readers = {"r1", "r2"}
  Places <- PlacesDef
  Objects <- ObjectsDef
  MaxWrites = 2
SPECIFICATION Spec
INVARIANT CopiesAreEqual
PROPERTY OthersUntouched
CHECK_DEADLOCK FALSE
