--------------------- MODULE LcuWebsocketHandlerProofs ---------------------
(***************************************************************************)
(* What LcuWebsocketHandler.tla satisfies for every set of application     *)
(* threads, every choice of calls, callbacks that throw or not, receives   *)
(* that time out or not, and every bound on unread messages.               *)
(***************************************************************************)
EXTENDS LcuWebsocketHandler, TLAPS

\* Sending is done under the lock, and reconnecting too; only a callback
\* takes the Loop thread into a member function.
LockInv ==
  /\ pc \in {"get_params", "start"} => m_socket_mutex = Loop
  /\ \A t \in Threads : api[t] \in {"send_deref", "send_frame"} => m_socket_mutex = t
  /\ m_socket_mutex = Loop => \/ pc \in {"get_params", "start"}
                              \/ api[Loop] \in {"send_deref", "send_frame"}
  /\ \A u \in Users : m_socket_mutex = u => api[u] \in {"send_deref", "send_frame"}
  /\ api[Loop] # "out" => pc \in CallbackLabels

\* What m_websocket is at the lines of run() that rely on it.
ClientInv ==
  /\ pc \in {"idle", "called", "get_params", "notify_stopped", "cb_stopped"}
       => m_websocket = "null"
  /\ object # "destroyed" /\ pc = "start" => m_websocket = "unstarted"
  /\ object # "destroyed" /\ pc \in {"receive", "notify_connected", "cb_connected"}
       => m_websocket = "connected"

\* Nobody but stop(), which does not lock, is overtaken by the loop.
StaleInv == \A t \in stale : api[t] = "stop_frame" \/ object = "destroyed"

\* Of what run() has reported when it has returned.
ReportInv == pc = "idle" => ~m_is_state_connected

\* What the application has been told agrees with m_websocket, as long as no
\* callback throws.
EventInv ==
  /\ object # "destroyed" /\ m_websocket = "connected"
       => m_is_state_connected \/ pc \in {"notify_connected", "cb_connected"}
  /\ object # "destroyed" /\ pc = "cb_message" => m_is_state_connected
  /\ pc \in {"notify_lost", "cb_lost", "reconnect"} => m_websocket # "connected"
  /\ pc = "cb_connected" => ~m_is_state_connected
  /\ pc \in {"cb_lost", "cb_stopped"} => m_is_state_connected

\* Nothing may be waiting to be read.
LEMMA NothingPending == 0 \in 0 .. MaxPending
  BY BoundAssumption

\* Every variable keeps its type, and the client never reads more messages than
\* the LCU has sent.
THEOREM TypeCorrect == Spec => []TypeOK
<1> USE ThreadAssumption, UseAssumption, BoundAssumption
    DEF TypeOK, ThreadsTypeOK, HandlerTypeOK, PeerTypeOK, Threads, LoopLabels,
        CallbackLabels, ApiLabels
<1>1. Init => TypeOK
  <2>1. Init => ThreadsTypeOK
    BY DEF Init
  <2>2. Init => HandlerTypeOK
    BY DEF Init
  <2>3. Init => PeerTypeOK
    BY NothingPending DEF Init
  <2> QED
    BY <2>1, <2>2, <2>3
<1>2. TypeOK /\ [Next]_vars => TypeOK'
  <2> SUFFICES ASSUME TypeOK, [Next]_vars PROVE TypeOK'
    OBVIOUS
  <2> USE DEF flags, client, peer
  <2>1. CASE Run
    BY <2>1 DEF Run
  <2>2. CASE LoopStep
    <3> USE DEF LoopGoes, LoopAt
    <3>1. CASE EnterLoop
      <4>1. ThreadsTypeOK'
        BY <3>1 DEF EnterLoop
      <4>2. HandlerTypeOK'
        BY <3>1 DEF EnterLoop
      <4>3. PeerTypeOK'
        BY <3>1 DEF EnterLoop
      <4> QED
        BY <4>1, <4>2, <4>3
    <3>2. CASE CheckStop
      BY <3>2 DEF CheckStop
    <3>3. CASE StopReset
      <4>1. ThreadsTypeOK'
        BY <3>3 DEF StopReset, DestroyClient
      <4>2. HandlerTypeOK'
        BY <3>3 DEF StopReset, DestroyClient
      <4>3. PeerTypeOK'
        BY NothingPending, <3>3 DEF StopReset, DestroyClient
      <4> QED
        BY <4>1, <4>2, <4>3
    <3>4. CASE StopResetThrows
      BY <3>4 DEF StopResetThrows, Dies
    <3>5. CASE NotifyStopped
      <4>1. ThreadsTypeOK'
        BY <3>5 DEF NotifyStopped, Notify
      <4>2. HandlerTypeOK'
        BY <3>5 DEF NotifyStopped, Notify
      <4>3. PeerTypeOK'
        BY <3>5 DEF NotifyStopped, Notify
      <4> QED
        BY <4>1, <4>2, <4>3
    <3>6. CASE CheckConnected
      BY <3>6 DEF CheckConnected
    <3>7. CASE ReceiveMessage
      BY <3>7 DEF ReceiveMessage, ReadOne
    <3>8. CASE ReceiveNothing
      BY <3>8 DEF ReceiveNothing, ReadOne
    <3>9. CASE ReceiveFails
      BY <3>9 DEF ReceiveFails, ReadOne, LossNoticed
    <3>10. CASE NotifyLost
      <4>1. ThreadsTypeOK'
        BY <3>10 DEF NotifyLost, Notify
      <4>2. HandlerTypeOK'
        BY <3>10 DEF NotifyLost, Notify
      <4>3. PeerTypeOK'
        BY <3>10 DEF NotifyLost, Notify
      <4> QED
        BY <4>1, <4>2, <4>3
    <3>11. CASE ReconnectLock
      <4>1. ThreadsTypeOK'
        BY <3>11 DEF ReconnectLock, NeedsReset, DestroyClient, Lock
      <4>2. HandlerTypeOK'
        BY <3>11 DEF ReconnectLock, NeedsReset, DestroyClient, Lock
      <4>3. PeerTypeOK'
        BY NothingPending, <3>11 DEF ReconnectLock, NeedsReset, DestroyClient, Lock
      <4> QED
        BY <4>1, <4>2, <4>3
    <3>20. CASE LookupFails
      BY <3>20 DEF LookupFails, Unlock, peer
    <3>12. CASE GetParams
      BY <3>12 DEF GetParams, Unlock
    <3>13. CASE Start
      BY <3>13 DEF Start, Unlock
    <3>14. CASE NotifyConnected
      <4>1. ThreadsTypeOK'
        BY <3>14 DEF NotifyConnected, Notify
      <4>2. HandlerTypeOK'
        BY <3>14 DEF NotifyConnected, Notify
      <4>3. PeerTypeOK'
        BY <3>14 DEF NotifyConnected, Notify
      <4> QED
        BY <4>1, <4>2, <4>3
    <3>15. CASE Sleep
      BY <3>15 DEF Sleep
    <3>16. CASE CallbackReturn
      <4>1. ThreadsTypeOK'
        BY <3>16 DEF CallbackReturn
      <4>2. HandlerTypeOK'
        BY <3>16 DEF CallbackReturn
      <4>3. PeerTypeOK'
        BY <3>16 DEF CallbackReturn
      <4> QED
        BY <4>1, <4>2, <4>3
    <3>17. CASE CallbackThrowCaught
      <4>1. ThreadsTypeOK'
        BY <3>17 DEF CallbackThrowCaught
      <4>2. HandlerTypeOK'
        BY <3>17 DEF CallbackThrowCaught
      <4>3. PeerTypeOK'
        BY <3>17 DEF CallbackThrowCaught
      <4> QED
        BY <4>1, <4>2, <4>3
    <3>18. CASE CallbackThrowTerminates
      BY <3>18 DEF CallbackThrowTerminates, Dies
    <3>19. CASE LoopTouchesDestroyed
      BY <3>19 DEF LoopTouchesDestroyed, Dies
    <3> QED
      BY <2>2, <3>1, <3>2, <3>3, <3>4, <3>5, <3>6, <3>7, <3>8, <3>9, <3>10, <3>11,
         <3>12, <3>13, <3>14, <3>15, <3>16, <3>17, <3>18, <3>19, <3>20 DEF LoopStep
  <2>3. ASSUME NEW t \in Threads, CallSend(t) \/ CallStop(t) \/ ApiStep(t)
        PROVE  TypeOK'
    <3> USE DEF ApiGoes, ApiAt
    <3>1. CASE CallSend(t)
      BY <3>1 DEF CallSend
    <3>2. CASE SendCheck(t)
      BY <3>2 DEF SendCheck
    <3>3. CASE SendLock(t)
      BY <3>3 DEF SendLock, Lock
    <3>4. CASE SendDeref(t)
      <4>1. ThreadsTypeOK'
        BY <3>4 DEF SendDeref, Unlock
      <4>2. HandlerTypeOK'
        BY <3>4 DEF SendDeref, Unlock
      <4>3. PeerTypeOK'
        BY <3>4 DEF SendDeref, Unlock
      <4> QED
        BY <4>1, <4>2, <4>3
    <3>5. CASE SendFrame(t)
      BY <3>5 DEF SendFrame, Unlock
    <3>6. CASE CallStop(t)
      BY <3>6 DEF CallStop
    <3>7. CASE StopSet(t)
      BY <3>7 DEF StopSet
    <3>8. CASE StopCheck(t)
      BY <3>8 DEF StopCheck
    <3>9. CASE StopDeref(t)
      BY <3>9 DEF StopDeref
    <3>10. CASE StopFrame(t)
      BY <3>10 DEF StopFrame
    <3>11. CASE DerefNull(t)
      BY <3>11 DEF DerefNull, Dies
    <3>12. CASE FrameFails(t)
      <4>1. ThreadsTypeOK'
        BY <3>12 DEF FrameFails, Dies
      <4>2. HandlerTypeOK'
        BY <3>12 DEF FrameFails, Dies
      <4>3. PeerTypeOK'
        BY <3>12 DEF FrameFails, Dies
      <4> QED
        BY <4>1, <4>2, <4>3
    <3> QED
      BY <2>3, <3>1, <3>2, <3>3, <3>4, <3>5, <3>6, <3>7, <3>8, <3>9, <3>10, <3>11,
         <3>12 DEF ApiStep
  <2>4. ASSUME NEW u \in Users, CallDestroy(u)
        PROVE  TypeOK'
    BY <2>4 DEF CallDestroy
  <2>5. CASE DestroyMembers
    <3>1. ThreadsTypeOK'
      BY <2>5 DEF DestroyMembers, DestroyClient
    <3>2. HandlerTypeOK'
      BY <2>5 DEF DestroyMembers, DestroyClient
    <3>3. PeerTypeOK'
      BY NothingPending, <2>5 DEF DestroyMembers, DestroyClient
    <3> QED
      BY <3>1, <3>2, <3>3
  <2>6. CASE DestroyMembersThrows
    BY <2>6 DEF DestroyMembersThrows, Dies
  <2>7. ASSUME NEW c \in {"connected", "disconnected", "message"}, Register(c)
        PROVE  TypeOK'
    BY <2>7 DEF Register
  <2>8. CASE PeerNext
    <3> USE DEF PeerStep
    <3>1. CASE LcuLaunch
      BY <3>1 DEF LcuLaunch
    <3>2. CASE LcuListen
      BY <3>2 DEF LcuListen
    <3>3. CASE LcuExit
      <4>1. ThreadsTypeOK'
        BY <3>3 DEF LcuExit
      <4>2. HandlerTypeOK'
        BY <3>3 DEF LcuExit
      <4>3. PeerTypeOK'
        BY <3>3 DEF LcuExit
      <4> QED
        BY <4>1, <4>2, <4>3
    <3>4. CASE LinkDrop
      BY <3>4 DEF LinkDrop
    <3>5. CASE ServerSend
      BY <3>5 DEF ServerSend
    <3>6. CASE AnswerExit
      <4>1. ThreadsTypeOK' /\ HandlerTypeOK'
        BY <3>6 DEF AnswerExit
      <4>2. pending' \in 0 .. MaxPending /\ link' \in {"none", "up", "closed"}
        BY <3>6 DEF AnswerExit
      <4>3. <<lcu, params_fresh>>' = <<lcu, params_fresh>> /\ exit_sent' = FALSE
        BY <3>6 DEF AnswerExit
      <4> QED
        BY <4>1, <4>2, <4>3
    <3> QED
      BY <2>8, <3>1, <3>2, <3>3, <3>4, <3>5, <3>6 DEF PeerNext
  <2>9. CASE UNCHANGED vars
    BY <2>9 DEF vars
  <2> QED
    BY <2>1, <2>2, <2>3, <2>4, <2>5, <2>6, <2>7, <2>8, <2>9 DEF Next, Done
<1> QED
  BY <1>1, <1>2, PTL DEF Spec

----------------------------------------------------------------------------
(* What the steps of each kind leave alone.                                *)

\* run() changes neither the callbacks nor the place of a thread in a member
\* function, and it does not destroy the handler.
LEMMA LoopFrame == LoopStep => UNCHANGED <<api, registered, object>>
<1> SUFFICES ASSUME LoopStep PROVE UNCHANGED <<api, registered, object>>
  OBVIOUS
<1> USE DEF LoopGoes, LoopAt
<1>1. CASE EnterLoop
  BY <1>1 DEF EnterLoop
<1>2. CASE CheckStop
  BY <1>2 DEF CheckStop
<1>3. CASE StopReset
  BY <1>3 DEF StopReset
<1>4. CASE StopResetThrows
  BY <1>4 DEF StopResetThrows, Dies
<1>5. CASE NotifyStopped
  BY <1>5 DEF NotifyStopped, Notify
<1>6. CASE CheckConnected
  BY <1>6 DEF CheckConnected
<1>7. CASE ReceiveMessage
  BY <1>7 DEF ReceiveMessage
<1>8. CASE ReceiveNothing
  BY <1>8 DEF ReceiveNothing
<1>9. CASE ReceiveFails
  BY <1>9 DEF ReceiveFails
<1>10. CASE NotifyLost
  BY <1>10 DEF NotifyLost, Notify
<1>11. CASE ReconnectLock
  BY <1>11 DEF ReconnectLock
<1>20. CASE LookupFails
  BY <1>20 DEF LookupFails, Unlock, peer
<1>12. CASE GetParams
  BY <1>12 DEF GetParams
<1>13. CASE Start
  BY <1>13 DEF Start
<1>14. CASE NotifyConnected
  BY <1>14 DEF NotifyConnected, Notify
<1>15. CASE Sleep
  BY <1>15 DEF Sleep
<1>16. CASE CallbackReturn
  BY <1>16 DEF CallbackReturn
<1>17. CASE CallbackThrowCaught
  BY <1>17 DEF CallbackThrowCaught
<1>18. CASE CallbackThrowTerminates
  BY <1>18 DEF CallbackThrowTerminates, Dies
<1>19. CASE LoopTouchesDestroyed
  BY <1>19 DEF LoopTouchesDestroyed, Dies
<1> QED
  BY <1>1, <1>2, <1>3, <1>4, <1>5, <1>6, <1>7, <1>8, <1>9, <1>10, <1>11, <1>12,
     <1>13, <1>14, <1>15, <1>16, <1>17, <1>18, <1>19, <1>20 DEF LoopStep

\* send_message() and stop() move no other thread and never write m_websocket.
LEMMA ApiFrame ==
  ASSUME NEW t \in Threads, CallSend(t) \/ CallStop(t) \/ ApiStep(t)
  PROVE  UNCHANGED <<pc, m_is_state_connected, client, registered, object>>
<1> USE DEF ApiGoes, ApiAt, client
<1>1. CASE CallSend(t)
  BY <1>1 DEF CallSend
<1>2. CASE SendCheck(t)
  BY <1>2 DEF SendCheck
<1>3. CASE SendLock(t)
  BY <1>3 DEF SendLock
<1>4. CASE SendDeref(t)
  BY <1>4 DEF SendDeref
<1>5. CASE SendFrame(t)
  BY <1>5 DEF SendFrame
<1>6. CASE CallStop(t)
  BY <1>6 DEF CallStop
<1>7. CASE StopSet(t)
  BY <1>7 DEF StopSet
<1>8. CASE StopCheck(t)
  BY <1>8 DEF StopCheck
<1>9. CASE StopDeref(t)
  BY <1>9 DEF StopDeref
<1>10. CASE StopFrame(t)
  BY <1>10 DEF StopFrame
<1>11. CASE DerefNull(t)
  BY <1>11 DEF DerefNull, Dies, flags
<1>12. CASE FrameFails(t)
  BY <1>12 DEF FrameFails, Dies, flags
<1> QED
  BY <1>1, <1>2, <1>3, <1>4, <1>5, <1>6, <1>7, <1>8, <1>9, <1>10, <1>11, <1>12 DEF ApiStep

\* The LCU changes its own state and the connection only.
LEMMA PeerFrame ==
  PeerNext => UNCHANGED <<pc, api, flags, m_socket_mutex, client, registered, object, fate>>
  BY DEF PeerNext, PeerStep, LcuLaunch, LcuListen, LcuExit, LinkDrop, ServerSend,
         AnswerExit

----------------------------------------------------------------------------
(* The inductive invariant, part by part.                                  *)

\* m_websocket is what the line that run() is at relies on.
LEMMA ClientCorrect == Spec => []ClientInv
<1>1. Init => ClientInv
  BY DEF Init, ClientInv
<1>2. TypeOK /\ ClientInv /\ [Next]_vars => ClientInv'
  <2> SUFFICES ASSUME TypeOK, ClientInv, [Next]_vars PROVE ClientInv'
    OBVIOUS
  <2> USE DEF ClientInv, flags, client
  <2>1. CASE Run
    BY <2>1 DEF Run
  <2>2. CASE LoopStep
    <3> USE DEF LoopGoes, LoopAt
    <3>1. CASE EnterLoop
      BY <3>1 DEF EnterLoop
    <3>2. CASE CheckStop
      BY <3>2 DEF CheckStop
    <3>3. CASE StopReset
      BY <3>3 DEF StopReset, DestroyClient
    <3>4. CASE StopResetThrows
      BY <3>4 DEF StopResetThrows, Dies
    <3>5. CASE NotifyStopped
      BY <3>5 DEF NotifyStopped, Notify
    <3>6. CASE CheckConnected
      BY <3>6 DEF CheckConnected, is_connected
    <3>7. CASE ReceiveMessage
      BY <3>7 DEF ReceiveMessage
    <3>8. CASE ReceiveNothing
      BY <3>8 DEF ReceiveNothing
    <3>9. CASE ReceiveFails
      BY <3>9 DEF ReceiveFails, LossNoticed
    <3>10. CASE NotifyLost
      BY <3>10 DEF NotifyLost, Notify
    <3>11. CASE ReconnectLock
      BY <3>11 DEF ReconnectLock, NeedsReset, DestroyClient, TypeOK,
                   HandlerTypeOK
    <3>20. CASE LookupFails
      BY <3>20 DEF LookupFails, Unlock, peer
    <3>12. CASE GetParams
      BY <3>12 DEF GetParams
    <3>13. CASE Start
      BY <3>13 DEF Start
    <3>14. CASE NotifyConnected
      BY <3>14 DEF NotifyConnected, Notify
    <3>15. CASE Sleep
      BY <3>15 DEF Sleep
    <3>16. CASE CallbackReturn
      BY <3>16 DEF CallbackReturn
    <3>17. CASE CallbackThrowCaught
      BY <3>17 DEF CallbackThrowCaught
    <3>18. CASE CallbackThrowTerminates
      BY <3>18 DEF CallbackThrowTerminates, Dies
    <3>19. CASE LoopTouchesDestroyed
      BY <3>19 DEF LoopTouchesDestroyed, Dies
    <3> QED
      BY <2>2, <3>1, <3>2, <3>3, <3>4, <3>5, <3>6, <3>7, <3>8, <3>9, <3>10, <3>11,
         <3>12, <3>13, <3>14, <3>15, <3>16, <3>17, <3>18, <3>19, <3>20 DEF LoopStep
  <2>3. ASSUME NEW t \in Threads, CallSend(t) \/ CallStop(t) \/ ApiStep(t)
        PROVE  ClientInv'
    BY <2>3, ApiFrame
  <2>4. ASSUME NEW u \in Users, CallDestroy(u)
        PROVE  ClientInv'
    BY <2>4 DEF CallDestroy, ApiAt
  <2>5. CASE DestroyMembers
    BY <2>5 DEF DestroyMembers, DestroyClient
  <2>6. CASE DestroyMembersThrows
    BY <2>6 DEF DestroyMembersThrows, Dies
  <2>7. ASSUME NEW c \in {"connected", "disconnected", "message"}, Register(c)
        PROVE  ClientInv'
    BY <2>7 DEF Register
  <2>8. CASE PeerNext
    BY <2>8, PeerFrame
  <2>9. CASE UNCHANGED vars
    BY <2>9 DEF vars
  <2> QED
    BY <2>1, <2>2, <2>3, <2>4, <2>5, <2>6, <2>7, <2>8, <2>9 DEF Next, Done
<1> QED
  BY <1>1, <1>2, TypeCorrect, PTL DEF Spec

\* The owner of the lock is where the code has it locked, and nobody else is.
LEMMA LockCorrect == Spec => []LockInv
<1> USE ThreadAssumption DEF Threads
<1>1. Init => LockInv
  BY DEF Init, LockInv
<1>2. TypeOK /\ LockInv /\ [Next]_vars => LockInv'
  <2> SUFFICES ASSUME TypeOK, LockInv, [Next]_vars PROVE LockInv'
    OBVIOUS
  <2> USE DEF TypeOK, ThreadsTypeOK, HandlerTypeOK, LockInv, flags, CallbackLabels
  <2>1. CASE Run
    BY <2>1 DEF Run
  <2>2. CASE LoopStep
    <3> USE DEF LoopGoes, LoopAt
    <3>1. CASE EnterLoop
      BY <3>1 DEF EnterLoop
    <3>2. CASE CheckStop
      BY <3>2 DEF CheckStop
    <3>3. CASE StopReset
      BY <3>3 DEF StopReset, Unlocked
    <3>4. CASE StopResetThrows
      BY <3>4 DEF StopResetThrows, Dies
    <3>5. CASE NotifyStopped
      BY <3>5 DEF NotifyStopped, Notify
    <3>6. CASE CheckConnected
      BY <3>6 DEF CheckConnected, Unlocked
    <3>7. CASE ReceiveMessage
      BY <3>7 DEF ReceiveMessage
    <3>8. CASE ReceiveNothing
      BY <3>8 DEF ReceiveNothing
    <3>9. CASE ReceiveFails
      BY <3>9 DEF ReceiveFails
    <3>10. CASE NotifyLost
      BY <3>10 DEF NotifyLost, Notify
    <3>11. CASE ReconnectLock
      BY <3>11 DEF ReconnectLock, Lock, Unlocked
    <3>20. CASE LookupFails
      BY <3>20 DEF LookupFails, Unlock, peer
    <3>12. CASE GetParams
      BY <3>12 DEF GetParams, Unlock
    <3>13. CASE Start
      BY <3>13 DEF Start, Unlock
    <3>14. CASE NotifyConnected
      BY <3>14 DEF NotifyConnected, Notify
    <3>15. CASE Sleep
      BY <3>15 DEF Sleep
    <3>16. CASE CallbackReturn
      BY <3>16 DEF CallbackReturn
    <3>17. CASE CallbackThrowCaught
      BY <3>17 DEF CallbackThrowCaught
    <3>18. CASE CallbackThrowTerminates
      BY <3>18 DEF CallbackThrowTerminates, Dies
    <3>19. CASE LoopTouchesDestroyed
      BY <3>19 DEF LoopTouchesDestroyed, Dies
    <3> QED
      BY <2>2, <3>1, <3>2, <3>3, <3>4, <3>5, <3>6, <3>7, <3>8, <3>9, <3>10, <3>11,
         <3>12, <3>13, <3>14, <3>15, <3>16, <3>17, <3>18, <3>19, <3>20 DEF LoopStep
  <2>3. ASSUME NEW t \in Threads, CallSend(t) \/ CallStop(t) \/ ApiStep(t)
        PROVE  LockInv'
    <3> USE DEF ApiGoes, ApiAt
    <3>1. CASE CallSend(t)
      BY <3>1 DEF CallSend, MayCall
    <3>2. CASE SendCheck(t)
      BY <3>2 DEF SendCheck, Unlocked
    <3>3. CASE SendLock(t)
      BY <3>3 DEF SendLock, Lock, Unlocked
    <3>4. CASE SendDeref(t)
      BY <3>4 DEF SendDeref, Unlock
    <3>5. CASE SendFrame(t)
      BY <3>5 DEF SendFrame, Unlock
    <3>6. CASE CallStop(t)
      BY <3>6 DEF CallStop, MayCall
    <3>7. CASE StopSet(t)
      BY <3>7 DEF StopSet
    <3>8. CASE StopCheck(t)
      BY <3>8 DEF StopCheck, Unlocked
    <3>9. CASE StopDeref(t)
      BY <3>9 DEF StopDeref
    <3>10. CASE StopFrame(t)
      BY <3>10 DEF StopFrame
    <3>11. CASE DerefNull(t)
      BY <3>11 DEF DerefNull, Dies
    <3>12. CASE FrameFails(t)
      BY <3>12 DEF FrameFails, Dies
    <3> QED
      BY <2>3, <3>1, <3>2, <3>3, <3>4, <3>5, <3>6, <3>7, <3>8, <3>9, <3>10, <3>11,
         <3>12 DEF ApiStep
  <2>4. ASSUME NEW u \in Users, CallDestroy(u)
        PROVE  LockInv'
    BY <2>4 DEF CallDestroy, ApiAt
  <2>5. CASE DestroyMembers
    BY <2>5 DEF DestroyMembers
  <2>6. CASE DestroyMembersThrows
    BY <2>6 DEF DestroyMembersThrows, Dies
  <2>7. ASSUME NEW c \in {"connected", "disconnected", "message"}, Register(c)
        PROVE  LockInv'
    BY <2>7 DEF Register
  <2>8. CASE PeerNext
    BY <2>8, PeerFrame
  <2>9. CASE UNCHANGED vars
    BY <2>9 DEF vars
  <2> QED
    BY <2>1, <2>2, <2>3, <2>4, <2>5, <2>6, <2>7, <2>8, <2>9 DEF Next, Done
<1> QED
  BY <1>1, <1>2, TypeCorrect, PTL DEF Spec

\* A client is destroyed while a thread is in sendFrame() only if that thread
\* is in stop(), or the handler is destroyed altogether.
LEMMA StaleCorrect == Spec => []StaleInv
<1> USE ThreadAssumption DEF Threads
<1>1. Init => StaleInv
  BY DEF Init, StaleInv
<1>2. TypeOK /\ LockInv /\ StaleInv /\ [Next]_vars => StaleInv'
  <2> SUFFICES ASSUME TypeOK, LockInv, StaleInv, [Next]_vars PROVE StaleInv'
    OBVIOUS
  <2> USE DEF StaleInv, flags, client
  <2>1. CASE Run
    BY <2>1 DEF Run
  <2>2. CASE LoopStep
    <3>1. ASSUME Unlocked, DestroyClient PROVE StaleInv'
      <4>1. UNCHANGED <<api, object>>
        BY <2>2, LoopFrame
      <4>2. \A t \in Threads : api[t] # "send_frame"
        BY <3>1 DEF LockInv, Unlocked
      <4> QED
        BY <3>1, <4>1, <4>2 DEF DestroyClient
    <3>2. ASSUME UNCHANGED stale PROVE StaleInv'
      BY <2>2, <3>2, LoopFrame
    <3>3. (Unlocked /\ DestroyClient) \/ UNCHANGED stale
      <4>1. CASE EnterLoop
        BY <4>1 DEF EnterLoop
      <4>2. CASE CheckStop
        BY <4>2 DEF CheckStop
      <4>3. CASE StopReset
        BY <4>3 DEF StopReset, Unlocked
      <4>4. CASE StopResetThrows
        BY <4>4 DEF StopResetThrows, Dies
      <4>5. CASE NotifyStopped
        BY <4>5 DEF NotifyStopped, Notify
      <4>6. CASE CheckConnected
        BY <4>6 DEF CheckConnected, Unlocked
      <4>7. CASE ReceiveMessage
        BY <4>7 DEF ReceiveMessage
      <4>8. CASE ReceiveNothing
        BY <4>8 DEF ReceiveNothing
      <4>9. CASE ReceiveFails
        BY <4>9 DEF ReceiveFails
      <4>10. CASE NotifyLost
        BY <4>10 DEF NotifyLost, Notify
      <4>11. CASE ReconnectLock
        BY <4>11 DEF ReconnectLock, NeedsReset, Lock, Unlocked
      <4>20. CASE LookupFails
        BY <4>20 DEF LookupFails, Unlock, peer
      <4>12. CASE GetParams
        BY <4>12 DEF GetParams
      <4>13. CASE Start
        BY <4>13 DEF Start
      <4>14. CASE NotifyConnected
        BY <4>14 DEF NotifyConnected, Notify
      <4>15. CASE Sleep
        BY <4>15 DEF Sleep
      <4>16. CASE CallbackReturn
        BY <4>16 DEF CallbackReturn
      <4>17. CASE CallbackThrowCaught
        BY <4>17 DEF CallbackThrowCaught
      <4>18. CASE CallbackThrowTerminates
        BY <4>18 DEF CallbackThrowTerminates, Dies
      <4>19. CASE LoopTouchesDestroyed
        BY <4>19 DEF LoopTouchesDestroyed, Dies
      <4> QED
        BY <2>2, <4>1, <4>2, <4>3, <4>4, <4>5, <4>6, <4>7, <4>8, <4>9, <4>10,
           <4>11, <4>12, <4>13, <4>14, <4>15, <4>16, <4>17, <4>18,
           <4>19, <4>20 DEF LoopStep
    <3> QED
      BY <3>1, <3>2, <3>3
  <2>3. ASSUME NEW t \in Threads, CallSend(t) \/ CallStop(t) \/ ApiStep(t)
        PROVE  StaleInv'
    <3>1. \A s \in stale : api[s] = "stop_frame" => api'[s] = "stop_frame"
      <4> USE DEF ApiGoes, ApiAt, TypeOK, ThreadsTypeOK, HandlerTypeOK
      <4>1. CASE CallSend(t)
        BY <4>1 DEF CallSend
      <4>2. CASE SendCheck(t)
        BY <4>2 DEF SendCheck
      <4>3. CASE SendLock(t)
        BY <4>3 DEF SendLock
      <4>4. CASE SendDeref(t)
        BY <4>4 DEF SendDeref
      <4>5. CASE SendFrame(t)
        BY <4>5 DEF SendFrame
      <4>6. CASE CallStop(t)
        BY <4>6 DEF CallStop
      <4>7. CASE StopSet(t)
        BY <4>7 DEF StopSet
      <4>8. CASE StopCheck(t)
        BY <4>8 DEF StopCheck
      <4>9. CASE StopDeref(t)
        BY <4>9 DEF StopDeref
      <4>10. CASE StopFrame(t)
        BY <4>10 DEF StopFrame
      <4>11. CASE DerefNull(t)
        BY <4>11 DEF DerefNull, Dies
      <4>12. CASE FrameFails(t)
        BY <4>12 DEF FrameFails, Dies
      <4> QED
        BY <2>3, <4>1, <4>2, <4>3, <4>4, <4>5, <4>6, <4>7, <4>8, <4>9, <4>10,
           <4>11, <4>12 DEF ApiStep
    <3> QED
      BY <2>3, <3>1, ApiFrame
  <2>4. ASSUME NEW u \in Users, CallDestroy(u)
        PROVE  StaleInv'
    BY <2>4 DEF CallDestroy, ApiAt, TypeOK, ThreadsTypeOK, HandlerTypeOK
  <2>5. CASE DestroyMembers
    BY <2>5 DEF DestroyMembers, DestroyClient
  <2>6. CASE DestroyMembersThrows
    BY <2>6 DEF DestroyMembersThrows, Dies
  <2>7. ASSUME NEW c \in {"connected", "disconnected", "message"}, Register(c)
        PROVE  StaleInv'
    BY <2>7 DEF Register
  <2>8. CASE PeerNext
    BY <2>8, PeerFrame
  <2>9. CASE UNCHANGED vars
    BY <2>9 DEF vars
  <2> QED
    BY <2>1, <2>2, <2>3, <2>4, <2>5, <2>6, <2>7, <2>8, <2>9 DEF Next, Done
<1> QED
  BY <1>1, <1>2, TypeCorrect, LockCorrect, PTL DEF Spec

\* run() returns after notify_connection_state_changed(false).
LEMMA ReportCorrect == Spec => []ReportInv
<1>1. Init => ReportInv
  BY DEF Init, ReportInv
<1>2. ReportInv /\ [Next]_vars => ReportInv'
  <2> SUFFICES ASSUME ReportInv, [Next]_vars PROVE ReportInv'
    OBVIOUS
  <2> USE DEF ReportInv, flags, client
  <2>1. CASE Run
    BY <2>1 DEF Run
  <2>2. CASE LoopStep
    <3> USE DEF LoopGoes, LoopAt
    <3>1. CASE EnterLoop
      BY <3>1 DEF EnterLoop
    <3>2. CASE CheckStop
      BY <3>2 DEF CheckStop
    <3>3. CASE StopReset
      BY <3>3 DEF StopReset
    <3>4. CASE StopResetThrows
      BY <3>4 DEF StopResetThrows, Dies
    <3>5. CASE NotifyStopped
      BY <3>5 DEF NotifyStopped, Notify
    <3>6. CASE CheckConnected
      BY <3>6 DEF CheckConnected
    <3>7. CASE ReceiveMessage
      BY <3>7 DEF ReceiveMessage
    <3>8. CASE ReceiveNothing
      BY <3>8 DEF ReceiveNothing
    <3>9. CASE ReceiveFails
      BY <3>9 DEF ReceiveFails
    <3>10. CASE NotifyLost
      BY <3>10 DEF NotifyLost, Notify
    <3>11. CASE ReconnectLock
      BY <3>11 DEF ReconnectLock
    <3>20. CASE LookupFails
      BY <3>20 DEF LookupFails, Unlock, peer
    <3>12. CASE GetParams
      BY <3>12 DEF GetParams
    <3>13. CASE Start
      BY <3>13 DEF Start
    <3>14. CASE NotifyConnected
      BY <3>14 DEF NotifyConnected, Notify
    <3>15. CASE Sleep
      BY <3>15 DEF Sleep
    <3>16. CASE CallbackReturn
      BY <3>16 DEF CallbackReturn
    <3>17. CASE CallbackThrowCaught
      BY <3>17 DEF CallbackThrowCaught
    <3>18. CASE CallbackThrowTerminates
      BY <3>18 DEF CallbackThrowTerminates, Dies
    <3>19. CASE LoopTouchesDestroyed
      BY <3>19 DEF LoopTouchesDestroyed, Dies
    <3> QED
      BY <2>2, <3>1, <3>2, <3>3, <3>4, <3>5, <3>6, <3>7, <3>8, <3>9, <3>10, <3>11,
         <3>12, <3>13, <3>14, <3>15, <3>16, <3>17, <3>18, <3>19, <3>20 DEF LoopStep
  <2>3. ASSUME NEW t \in Threads, CallSend(t) \/ CallStop(t) \/ ApiStep(t)
        PROVE  ReportInv'
    BY <2>3, ApiFrame
  <2>4. ASSUME NEW u \in Users, CallDestroy(u)
        PROVE  ReportInv'
    BY <2>4 DEF CallDestroy, ApiAt
  <2>5. CASE DestroyMembers
    BY <2>5 DEF DestroyMembers
  <2>6. CASE DestroyMembersThrows
    BY <2>6 DEF DestroyMembersThrows, Dies
  <2>7. ASSUME NEW c \in {"connected", "disconnected", "message"}, Register(c)
        PROVE  ReportInv'
    BY <2>7 DEF Register
  <2>8. CASE PeerNext
    BY <2>8, PeerFrame
  <2>9. CASE UNCHANGED vars
    BY <2>9 DEF vars
  <2> QED
    BY <2>1, <2>2, <2>3, <2>4, <2>5, <2>6, <2>7, <2>8, <2>9 DEF Next, Done
<1> QED
  BY <1>1, <1>2, PTL DEF Spec

----------------------------------------------------------------------------
(* The theorems.                                                           *)

\* main_loop() dereferences m_websocket without the lock, but never a null
\* or disconnected one.
THEOREM LoopReadsConnectedClient == Spec => []LoopNeverReadsNull
<1>1. ClientInv => LoopNeverReadsNull
  BY DEF ClientInv, LoopNeverReadsNull
<1> QED
  BY <1>1, ClientCorrect, PTL

\* m_on_connected() is called for a connected client only.
THEOREM ConnectedIsRealAlways == Spec => []ConnectedIsReal
<1>1. ClientInv => ConnectedIsReal
  BY DEF ClientInv, ConnectedIsReal
<1> QED
  BY <1>1, ClientCorrect, PTL

\* send_message() never uses a client that the loop has destroyed.
THEOREM SendIsProtected == Spec => []SendNeverUsesDestroyedClient
<1>1. StaleInv => SendNeverUsesDestroyedClient
  BY DEF StaleInv, SendNeverUsesDestroyedClient
<1> QED
  BY <1>1, StaleCorrect, PTL

\* No thread waits for m_socket_mutex while it owns it.
THEOREM NoSelfDeadlock == Spec => []OwnerNeverWaits
<1>1. LockInv => OwnerNeverWaits
  BY DEF LockInv, OwnerNeverWaits
<1> QED
  BY <1>1, LockCorrect, PTL

\* No thread is in send_message() together with another one or with reconnect().
THEOREM SenderIsAlwaysAlone == Spec => []SenderIsAlone
<1>1. LockInv => SenderIsAlone
  BY DEF LockInv, SenderIsAlone, CallbackLabels
<1> QED
  BY <1>1, LockCorrect, PTL

\* When run() returns, the client is gone and its loss was reported.
THEOREM RunEndsClean == Spec => []RunEndsDisconnected
<1>1. ClientInv /\ ReportInv => RunEndsDisconnected
  BY DEF ClientInv, ReportInv, RunEndsDisconnected
<1> QED
  BY <1>1, ClientCorrect, ReportCorrect, PTL

\* The loop leaves the client of a thread that is in send_message() in place.
THEOREM ClientIsStableWhileLocked == Spec => StableWhileLocked
<1> DEFINE Locked == m_socket_mutex \in Users /\ m_websocket' # m_websocket
           Lost == <<m_websocket, m_websocket'>> = <<"connected", "disconnected">>
<1>1. TypeOK /\ LockInv /\ ClientInv /\ [Next]_vars => [Locked => Lost]_vars
  <2> SUFFICES ASSUME TypeOK, LockInv, ClientInv, Next, Locked PROVE Lost
    OBVIOUS
  <2> USE ThreadAssumption DEF flags, client
  <2>1. CASE LoopStep
    <3>1. ~Unlocked /\ pc \notin {"get_params", "start"}
      BY DEF Unlocked, LockInv
    <3> USE DEF LoopGoes, LoopAt
    <3>2. CASE EnterLoop
      BY <3>1, <3>2 DEF EnterLoop
    <3>3. CASE CheckStop
      BY <3>1, <3>3 DEF CheckStop
    <3>4. CASE StopReset
      BY <3>1, <3>4 DEF StopReset
    <3>5. CASE StopResetThrows
      BY <3>1, <3>5 DEF StopResetThrows, Dies
    <3>6. CASE NotifyStopped
      BY <3>1, <3>6 DEF NotifyStopped, Notify
    <3>7. CASE CheckConnected
      BY <3>1, <3>7 DEF CheckConnected
    <3>8. CASE ReceiveMessage
      BY <3>1, <3>8 DEF ReceiveMessage
    <3>9. CASE ReceiveNothing
      BY <3>1, <3>9 DEF ReceiveNothing
    <3>10. CASE ReceiveFails
      BY <3>1, <3>10 DEF ReceiveFails, LossNoticed, ClientInv
    <3>11. CASE NotifyLost
      BY <3>1, <3>11 DEF NotifyLost, Notify
    <3>12. CASE ReconnectLock
      BY <3>1, <3>12 DEF ReconnectLock, Lock
    <3>21. CASE LookupFails
      BY <3>1, <3>21 DEF LookupFails, Unlock, peer
    <3>13. CASE GetParams
      BY <3>1, <3>13 DEF GetParams
    <3>14. CASE Start
      BY <3>1, <3>14 DEF Start
    <3>15. CASE NotifyConnected
      BY <3>1, <3>15 DEF NotifyConnected, Notify
    <3>16. CASE Sleep
      BY <3>1, <3>16 DEF Sleep
    <3>17. CASE CallbackReturn
      BY <3>1, <3>17 DEF CallbackReturn
    <3>18. CASE CallbackThrowCaught
      BY <3>1, <3>18 DEF CallbackThrowCaught
    <3>19. CASE CallbackThrowTerminates
      BY <3>1, <3>19 DEF CallbackThrowTerminates, Dies
    <3>20. CASE LoopTouchesDestroyed
      BY <3>1, <3>20 DEF LoopTouchesDestroyed, Dies
    <3> QED
      BY <2>1, <3>2, <3>3, <3>4, <3>5, <3>6, <3>7, <3>8, <3>9, <3>10, <3>11, <3>12,
         <3>13, <3>14, <3>15, <3>16, <3>17, <3>18, <3>19, <3>20, <3>21 DEF LoopStep
  <2>2. CASE DestroyMembers
    BY <2>2 DEF DestroyMembers, UsersOut, LockInv
  <2>3. ASSUME NEW t \in Threads, CallSend(t) \/ CallStop(t) \/ ApiStep(t) PROVE FALSE
    BY <2>3, ApiFrame
  <2>4. CASE PeerNext
    BY <2>4, PeerFrame
  <2> QED
    BY <2>1, <2>2, <2>3, <2>4
    DEF Next, Run, CallDestroy, DestroyMembersThrows, Dies, Register, Done, vars
<1> QED
  BY <1>1, TypeCorrect, LockCorrect, ClientCorrect, PTL DEF Spec, StableWhileLocked

----------------------------------------------------------------------------
(* The handler implements ConnectionEvents when no callback throws.        *)

\* What run() has reported agrees with the state of the client.
LEMMA EventCorrect ==
  ASSUME CallbacksThrow = FALSE
  PROVE  Spec => []EventInv
<1>1. Init => EventInv
  BY DEF Init, EventInv
<1>2. TypeOK /\ ClientInv /\ EventInv /\ [Next]_vars => EventInv'
  <2> SUFFICES ASSUME TypeOK, ClientInv, EventInv, [Next]_vars PROVE EventInv'
    OBVIOUS
  <2> USE DEF EventInv, flags, client
  <2>1. CASE Run
    BY <2>1 DEF Run
  <2>2. CASE LoopStep
    <3> USE DEF LoopGoes, LoopAt, ClientInv, TypeOK, HandlerTypeOK
    <3>1. CASE EnterLoop
      BY <3>1 DEF EnterLoop
    <3>2. CASE CheckStop
      BY <3>2 DEF CheckStop
    <3>3. CASE StopReset
      BY <3>3 DEF StopReset, DestroyClient
    <3>4. CASE StopResetThrows
      BY <3>4 DEF StopResetThrows, Dies
    <3>5. CASE NotifyStopped
      BY <3>5 DEF NotifyStopped, Notify
    <3>6. CASE CheckConnected
      BY <3>6 DEF CheckConnected, is_connected
    <3>7. CASE ReceiveMessage
      BY <3>7 DEF ReceiveMessage
    <3>8. CASE ReceiveNothing
      BY <3>8 DEF ReceiveNothing
    <3>9. CASE ReceiveFails
      BY <3>9 DEF ReceiveFails, LossNoticed
    <3>10. CASE NotifyLost
      BY <3>10 DEF NotifyLost, Notify
    <3>11. CASE ReconnectLock
      BY <3>11 DEF ReconnectLock, NeedsReset, DestroyClient
    <3>20. CASE LookupFails
      BY <3>20 DEF LookupFails, Unlock, peer
    <3>12. CASE GetParams
      BY <3>12 DEF GetParams
    <3>13. CASE Start
      BY <3>13 DEF Start
    <3>14. CASE NotifyConnected
      BY <3>14 DEF NotifyConnected, Notify
    <3>15. CASE Sleep
      BY <3>15 DEF Sleep
    <3>16. CASE CallbackReturn
      BY <3>16 DEF CallbackReturn
    <3>17. CASE CallbackThrowCaught
      BY <3>17 DEF CallbackThrowCaught
    <3>18. CASE CallbackThrowTerminates
      BY <3>18 DEF CallbackThrowTerminates, Dies
    <3>19. CASE LoopTouchesDestroyed
      BY <3>19 DEF LoopTouchesDestroyed, Dies
    <3> QED
      BY <2>2, <3>1, <3>2, <3>3, <3>4, <3>5, <3>6, <3>7, <3>8, <3>9, <3>10, <3>11,
         <3>12, <3>13, <3>14, <3>15, <3>16, <3>17, <3>18, <3>19, <3>20 DEF LoopStep
  <2>3. ASSUME NEW t \in Threads, CallSend(t) \/ CallStop(t) \/ ApiStep(t)
        PROVE  EventInv'
    BY <2>3, ApiFrame
  <2>4. ASSUME NEW u \in Users, CallDestroy(u)
        PROVE  EventInv'
    BY <2>4 DEF CallDestroy, ApiAt
  <2>5. CASE DestroyMembers
    BY <2>5 DEF DestroyMembers, DestroyClient
  <2>6. CASE DestroyMembersThrows
    BY <2>6 DEF DestroyMembersThrows, Dies
  <2>7. ASSUME NEW c \in {"connected", "disconnected", "message"}, Register(c)
        PROVE  EventInv'
    BY <2>7 DEF Register
  <2>8. CASE PeerNext
    BY <2>8, PeerFrame
  <2>9. CASE UNCHANGED vars
    BY <2>9 DEF vars
  <2> QED
    BY <2>1, <2>2, <2>3, <2>4, <2>5, <2>6, <2>7, <2>8, <2>9 DEF Next, Done
<1> QED
  BY <1>1, <1>2, TypeCorrect, ClientCorrect, PTL DEF Spec

\* The application sees connections and disconnections alternate, and messages
\* only in between.
THEOREM EventsImplemented ==
  ASSUME CallbacksThrow = FALSE
  PROVE  Spec => EventProtocol
<1>1. Init => Events!Init
  BY DEF Init, Events!Init, ongoing
<1>2. TypeOK /\ ClientInv /\ ReportInv /\ EventInv /\ [Next]_vars
        => [Events!Next]_(Events!vars)
  <2> SUFFICES ASSUME TypeOK, ClientInv, ReportInv, EventInv, [Next]_vars
               PROVE  Events!Next \/ UNCHANGED Events!vars
    OBVIOUS
  <2> USE DEF Events!vars, ongoing, flags, client
  <2>1. CASE Run
    BY <2>1 DEF Run
  <2>2. CASE LoopStep
    <3> USE DEF LoopGoes, LoopAt
    <3>1. CASE EnterLoop
      BY <3>1 DEF EnterLoop
    <3>2. CASE CheckStop
      BY <3>2 DEF CheckStop
    <3>3. CASE StopReset
      BY <3>3 DEF StopReset
    <3>4. CASE StopResetThrows
      BY <3>4 DEF StopResetThrows, Dies
    <3>5. CASE NotifyStopped
      BY <3>5 DEF NotifyStopped, Notify, Events!Next, Events!Report, TypeOK, HandlerTypeOK
    <3>6. CASE CheckConnected
      BY <3>6 DEF CheckConnected
    <3>7. CASE ReceiveMessage
      BY <3>7 DEF ReceiveMessage, Events!Next, Events!Deliver, ClientInv, EventInv
    <3>8. CASE ReceiveNothing
      BY <3>8 DEF ReceiveNothing
    <3>9. CASE ReceiveFails
      BY <3>9 DEF ReceiveFails
    <3>10. CASE NotifyLost
      BY <3>10 DEF NotifyLost, Notify, Events!Next, Events!Report, TypeOK, HandlerTypeOK
    <3>11. CASE ReconnectLock
      BY <3>11 DEF ReconnectLock
    <3>20. CASE LookupFails
      BY <3>20 DEF LookupFails, Unlock, peer
    <3>12. CASE GetParams
      BY <3>12 DEF GetParams
    <3>13. CASE Start
      BY <3>13 DEF Start
    <3>14. CASE NotifyConnected
      BY <3>14 DEF NotifyConnected, Notify, Events!Next, Events!Report, TypeOK,
         HandlerTypeOK
    <3>15. CASE Sleep
      BY <3>15 DEF Sleep
    <3>16. CASE CallbackReturn
      BY <3>16 DEF CallbackReturn, Events!Next, Events!Return, EventInv
    <3>17. CASE CallbackThrowCaught
      BY <3>17 DEF CallbackThrowCaught
    <3>18. CASE CallbackThrowTerminates
      BY <3>18 DEF CallbackThrowTerminates, Dies
    <3>19. CASE LoopTouchesDestroyed
      BY <3>19 DEF LoopTouchesDestroyed, Dies
    <3> QED
      BY <2>2, <3>1, <3>2, <3>3, <3>4, <3>5, <3>6, <3>7, <3>8, <3>9, <3>10, <3>11,
         <3>12, <3>13, <3>14, <3>15, <3>16, <3>17, <3>18, <3>19, <3>20 DEF LoopStep
  <2>3. ASSUME NEW t \in Threads, CallSend(t) \/ CallStop(t) \/ ApiStep(t)
        PROVE  UNCHANGED Events!vars
    BY <2>3, ApiFrame
  <2>4. ASSUME NEW u \in Users, CallDestroy(u)
        PROVE  UNCHANGED Events!vars
    BY <2>4 DEF CallDestroy
  <2>5. CASE DestroyMembers
    BY <2>5 DEF DestroyMembers
  <2>6. CASE DestroyMembersThrows
    BY <2>6 DEF DestroyMembersThrows, Dies
  <2>7. ASSUME NEW c \in {"connected", "disconnected", "message"}, Register(c)
        PROVE  Events!Register(c)
    BY <2>7 DEF Register, Events!Register, ReportInv
  <2>8. CASE PeerNext
    BY <2>8, PeerFrame
  <2>9. CASE UNCHANGED vars
    BY <2>9 DEF vars
  <2> QED
    BY <2>1, <2>2, <2>3, <2>4, <2>5, <2>6, <2>7, <2>8, <2>9
    DEF Next, Done, Events!Next, Events!Callbacks
<1> QED
  BY <1>1, <1>2, TypeCorrect, ClientCorrect, ReportCorrect, EventCorrect, PTL
  DEF Spec, EventProtocol, Events!Spec

============================================================================
