SPECIFICATION Spec
CONSTANTS
  Ids = {"id"}
  Topics = {"OnJsonApiEvent"}
  MaxSent = 1
  MaxReceived = 1
INVARIANT CallsAreNotSubscriptions
