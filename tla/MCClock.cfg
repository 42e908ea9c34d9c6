SPECIFICATION FairSpec
CONSTANTS
  Clk = {c1, c2}
  MainConfigs <- MCMainConfigs
  Configs <- MCConfigs
  NsPerSec = 12
  MaxHalves = 6
INVARIANTS
  TicksAreTimeToEdge
  MainOncePerHalfTick
PROPERTIES
  ImplementsIdealClocks
  HalfTickTerminates
