SPECIFICATION Spec
CONSTANTS
  AddrBits = 1
  Val = {0, 1}
  Open = 255
  Conn = {c1, c2}
  Decoders <- WithInvalid
  Handlers <- Memories
  Chips <- MCChips
  Tracer = {t1}
  Nobody = nobody
SYMMETRY SymmetricConn
INVARIANTS
  ReplayRepeats
  TracersHearTheBus
PROPERTIES
  ImplementsAddressSpace
