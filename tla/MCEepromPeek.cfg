SPECIFICATION At28c256Spec
CONSTANTS
  BusAddr <- OnTheBus
  Base = 32768
  DataByte = {1}
  T_BLC = 2
  T_WC = 3
  Nanos = {1, 4}
  LoadSizes = {32768}
INVARIANTS
  StrobeTellsTheTruth
