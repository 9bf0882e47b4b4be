\* Everything may happen: two application threads that send, stop and
\* destroy, callbacks that call back and throw, receives that time out.
SPECIFICATION Spec
CONSTANTS
  u1 = u1
  u2 = u2
  Users = {u1, u2}
  Loop = Loop
  NoThread = NoThread
  UserCalls <- AllUserCalls
  CallbackCalls <- UserCallsNoDestroy
  CallbacksThrow = TRUE
  ReceiveTimeouts = TRUE
  LookupsFail = TRUE
  StartsFail = TRUE
  MaxPending = 2
SYMMETRY UserSymmetry
INVARIANTS
  TypeOK
  LoopNeverReadsNull
  ConnectedIsReal
  SendNeverUsesDestroyedClient
  SenderIsAlone
  OwnerNeverWaits
  RunEndsDisconnected
  CallbackCallsFindClient
  LossIsToldFirst
  StopWakesLoop
PROPERTIES
  StableWhileLocked
  UsesClientByContract
