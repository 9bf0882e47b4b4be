\* A ping, or a time-out, in the middle of a message.
SPECIFICATION Spec
CONSTANTS
  max_frames_per_message = 3
  CounterValues = 4
  Disturbances = {"control", "timeout"}
  MaxMessages = 2
  MaxParts = 2
  MaxWire = 2
INVARIANT ReturnsMessages
