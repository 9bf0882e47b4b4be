\* One application thread that sends and stops; callbacks return, and call
\* send_message() and stop(); a receive never times out, so that only stop()
\* or the LCU gets the loop out of it.
SPECIFICATION FairSpec
CONSTANTS
  u1 = u1
  Users = {u1}
  Loop = Loop
  NoThread = NoThread
  UserCalls <- UserCallsNoDestroy
  CallbackCalls <- UserCallsNoDestroy
  CallbacksThrow = FALSE
  ReceiveTimeouts = FALSE
  LookupsFail = FALSE
  StartsFail = FALSE
  MaxPending = 2
INVARIANT
  ConnectionIsTold
PROPERTIES
  EventProtocol
  ReportsConnection
  StopTerminates
  Reconnects
  DisconnectionIsReported
  CallsReturn
