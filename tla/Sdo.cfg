SPECIFICATION Spec
CONSTANTS
  Array = {a1, a2}
  SmallSize = 1
  MaxSize = 3
  Block = {b1, b2}
  Value = {zero, one}
  Zero = zero
  Junk = junk
  NoArray = NoArray
  Broken = Broken
SYMMETRY Symmetry
\* A double delete is where the model ends.
CHECK_DEADLOCK FALSE
INVARIANTS
  TypeOK
  HeapOwned
PROPERTIES
  MoveNeverAllocates
  ImplementsArray
  StorageLostByThrow
