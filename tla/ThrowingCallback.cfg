\* Nobody sends or stops; the callback for "connected" throws.
SPECIFICATION FairSpec
CONSTANTS
  u1 = u1
  Users = {u1}
  Loop = Loop
  NoThread = NoThread
  UserCalls <- NoCalls
  CallbackCalls <- NoCalls
  CallbacksThrow = TRUE
  ReceiveTimeouts = TRUE
  LookupsFail = FALSE
  StartsFail = FALSE
  MaxPending = 2
PROPERTIES
  DisconnectionIsReported
