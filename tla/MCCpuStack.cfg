SPECIFICATION Spec
CONSTANTS
  ByteSize = 8
  Program <- StackProgram
  MaxInts = 2
  Draws <- No
  Data = {3}
  Targets <- StackTargets
  Vectors <- MCVectors
  Lines <- Asked
INVARIANTS
  StackIsLifo
  ReturnsWhereLeft
