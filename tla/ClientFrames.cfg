\* Messages of up to five frames where three are the limit.
SPECIFICATION Spec
CONSTANTS
  max_frames_per_message = 3
  CounterValues = 4
  Disturbances = {"control", "timeout", "empty", "invalid"}
  MaxMessages = 3
  MaxParts = 5
  MaxWire = 3
INVARIANTS
  TypeOK
  BufferBounded
  OneMessageAtATime
  UncutIsWhole
  NothingLost
PROPERTY
  KeepsContract
