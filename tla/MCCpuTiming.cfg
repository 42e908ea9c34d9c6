SPECIFICATION FairSpec
CONSTANTS
  ByteSize = 8
  Program <- TimingProgram
  MaxInts = 1
  Draws <- Either
  Data = {3}
  Targets <- TimingTargets
  Vectors <- MCVectors
  Lines <- Edges
INVARIANTS
  CyclesAsTested
  OneAccessPerCycle
  NextIsDisassembled
PROPERTIES
  TickTerminates
  NmiIsServed
