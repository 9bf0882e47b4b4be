\* One application thread calls stop() after another has called run().
SPECIFICATION FairSpec
CONSTANTS
  u1 = u1
  Users = {u1}
  Loop = Loop
  NoThread = NoThread
  UserCalls <- StopOnly
  CallbackCalls <- NoCalls
  CallbacksThrow = FALSE
  ReceiveTimeouts = TRUE
  LookupsFail = FALSE
  StartsFail = FALSE
  MaxPending = 2
PROPERTIES
  StopIsNeverLost
