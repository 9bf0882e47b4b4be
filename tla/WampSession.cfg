SPECIFICATION Spec
CONSTANTS
  Ids = {"id"}
  Topics = {"OnJsonApiEvent"}
  MaxSent = 1
  MaxReceived = 2
INVARIANTS
  TypeOK
  AnswersAreForCalls
  EventsAreSubscribed
PROPERTIES
  UserEventProtocol
  ReliesOnReports
