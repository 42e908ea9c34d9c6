SPECIFICATION FairSockSpec
CONSTANTS
  Size = 3
  Byte = {0, 1}
  Zero = 0
  MaxInflight = 2
CHECK_DEADLOCK FALSE
INVARIANTS
  SleepsOnlyWhenFull
PROPERTIES
  ImplementsSerialLine
  CleanupReturns
