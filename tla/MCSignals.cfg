SPECIFICATION SignalSpec
CONSTANTS
  Client = {d1, d2, d3}
  MaxVoters = 2
  Invalid = none
INVARIANT MasksAreAccountedFor
PROPERTY ImplementsWiredOr
