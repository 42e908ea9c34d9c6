SPECIFICATION ProgramsSpec
CONSTANTS
  Pin <- Pins
  PB7 = "PB7"
  Half = 3
  SectorSize = 2
  Image <- Disk
  Program = {"pins", "pulses", "timer", "shake", "card", "bytes"}
  Blocks = {0, 256}
INVARIANTS
  PulsesEnd
  ListenersKnow
PROPERTIES
  TimerOnTime
  HandshakeDelivers
  BlockArrives
