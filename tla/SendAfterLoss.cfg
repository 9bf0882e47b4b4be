\* One application thread calls send_message() while the loop reconnects.
SPECIFICATION Spec
CONSTANTS
  u1 = u1
  Users = {u1}
  Loop = Loop
  NoThread = NoThread
  UserCalls <- SendOnly
  CallbackCalls <- NoCalls
  CallbacksThrow = FALSE
  ReceiveTimeouts = FALSE
  LookupsFail = FALSE
  StartsFail = FALSE
  MaxPending = 2
INVARIANTS
  SendReturnsABoolean
