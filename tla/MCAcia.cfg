SPECIFICATION AciaSpec
CONSTANTS
  Byte = {0, 255}
  Ff = 255
  Size = 1
  MaxLine = 1
  CtrlVal <- Controls
  HwReset <- EightBits
  SbrTable <- OneTick
INVARIANTS
  ReadsWhatIsThere
  DriverIsTold
PROPERTIES
  DriverIsServed
