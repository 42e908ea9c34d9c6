SPECIFICATION FairSpec
CONSTANTS
  Code <- NestedCalls
  IsrAddr = 13
  Interrupts = TRUE
  MaxDepth = 2
  MaxBreakpoints = 2
  BreakAddrs <- InNested
  LabelsFiles <- MCLabelsFiles
  Bucket <- MCBucket
  BucketSize = 2
  WildHandles <- MCWildHandles
  Symbols <- MCSymbols
  Commands <- All
INVARIANTS
  BreakpointsKeepNames
PROPERTIES
  RunsHonourBreakpoints
  NextCompletesCall
  FinishStaysWithin
  BreakStops
