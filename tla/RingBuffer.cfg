SPECIFICATION Spec
CONSTANTS
  Size = 4
  Byte = {a, b}
  Zero = a
INVARIANT TypeOK
PROPERTY ImplementsLossyQueue
