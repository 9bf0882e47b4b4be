------------------------ MODULE HandlerClientProofs ------------------------
(***************************************************************************)
(* How Lcu_websocket_handler and the callbacks of the application use the  *)
(* client, and what the application knows of the connection.               *)
(* ClientContractProofs.tla proves that the client implements the contract *)
(* which the handler is shown here to use.                                 *)
(***************************************************************************)
EXTENDS LcuWebsocketHandlerProofs

\* Nothing arrives for a client that has not been started.
ConnectionInv ==
  m_websocket \in {"null", "unstarted"} => link = "none" /\ pending = 0

\* A callback keeps the loop from every line outside of it.
LEMMA LoopIsOutside == LoopStep => api[Loop] = "out" \/ object = "destroyed"
  BY DEF LoopStep, LoopGoes, LoopAt, EnterLoop, CheckStop, StopReset, StopResetThrows,
     NotifyStopped, NotifyLost, NotifyConnected, Notify, CheckConnected,
     ReceiveMessage, ReceiveNothing, ReceiveFails, ReconnectLock, LookupFails,
     GetParams, Start, Sleep, CallbackReturn, CallbackThrowCaught,
     CallbackThrowTerminates, LoopTouchesDestroyed

\* send_message() and stop() leave what has arrived, and the connection.
LEMMA ApiConnection ==
  ASSUME NEW t \in Threads, CallSend(t) \/ CallStop(t) \/ ApiStep(t)
  PROVE  UNCHANGED <<link, pending>>
  BY DEF ApiGoes, CallSend, CallStop, ApiStep, SendCheck, SendLock, SendDeref,
     SendFrame, StopSet, StopCheck, StopDeref, StopFrame, DerefNull, FrameFails,
     Dies, peer

\* A connection belongs to a client that was started.
LEMMA ConnectionCorrect == Spec => []ConnectionInv
<1>1. Init => ConnectionInv
  BY DEF Init, ConnectionInv
<1>2. TypeOK /\ ClientInv /\ ConnectionInv /\ [Next]_vars => ConnectionInv'
  <2> SUFFICES ASSUME TypeOK, ClientInv, ConnectionInv, [Next]_vars
               PROVE  ConnectionInv'
    OBVIOUS
  <2> USE DEF ConnectionInv, flags, client, peer
  <2>1. CASE Run
    BY <2>1 DEF Run
  <2>2. CASE LoopStep
    <3> USE DEF LoopGoes, LoopAt
    <3>1. CASE EnterLoop \/ CheckStop \/ CheckConnected \/ Sleep \/ CallbackReturn
               \/ CallbackThrowCaught \/ LookupFails
      BY <3>1 DEF EnterLoop, CheckStop, CheckConnected, Sleep, CallbackReturn,
         CallbackThrowCaught, LookupFails
    <3>2. CASE NotifyStopped \/ NotifyLost \/ NotifyConnected
      BY <3>2 DEF NotifyStopped, NotifyLost, NotifyConnected, Notify
    <3>3. CASE StopResetThrows \/ CallbackThrowTerminates \/ LoopTouchesDestroyed
      BY <3>3 DEF StopResetThrows, CallbackThrowTerminates, LoopTouchesDestroyed, Dies
    <3>4. CASE StopReset
      BY <3>4 DEF StopReset, DestroyClient
    <3>5. CASE ReceiveMessage \/ ReceiveNothing
      BY <3>5 DEF ReceiveMessage, ReceiveNothing, ClientInv
    <3>6. CASE ReceiveFails
      BY <3>6 DEF ReceiveFails, LossNoticed
    <3>7. CASE ReconnectLock
      BY <3>7 DEF ReconnectLock, DestroyClient
    <3>8. CASE GetParams
      BY <3>8 DEF GetParams, ClientInv
    <3>9. CASE Start
      BY <3>9 DEF Start
    <3> QED
      BY <2>2, <3>1, <3>2, <3>3, <3>4, <3>5, <3>6, <3>7, <3>8, <3>9 DEF LoopStep
  <2>3. ASSUME NEW t \in Threads, CallSend(t) \/ CallStop(t) \/ ApiStep(t)
        PROVE  ConnectionInv'
    BY <2>3, ApiFrame, ApiConnection
  <2>4. ASSUME NEW u \in Users, CallDestroy(u)
        PROVE  ConnectionInv'
    BY <2>4 DEF CallDestroy
  <2>5. CASE DestroyMembers \/ DestroyMembersThrows
    BY <2>5 DEF DestroyMembers, DestroyClient, DestroyMembersThrows, Dies
  <2>6. ASSUME NEW c \in {"connected", "disconnected", "message"}, Register(c)
        PROVE  ConnectionInv'
    BY <2>6 DEF Register
  <2>7. CASE PeerNext
    BY <2>7 DEF PeerNext, PeerStep, LcuLaunch, LcuListen, LcuExit, LinkDrop,
       ServerSend, AnswerExit
  <2>8. CASE UNCHANGED vars
    BY <2>8 DEF vars
  <2> QED
    BY <2>1, <2>2, <2>3, <2>4, <2>5, <2>6, <2>7, <2>8 DEF Next, Done
<1> QED
  BY <1>1, <1>2, TypeCorrect, ClientCorrect, PTL DEF Spec

----------------------------------------------------------------------------

\* The handler uses its client and the connection in the way that
\* HttpsWebsocketClient implements: every step of the loop, of a destructor and
\* of the LCU is a step of ClientContract or leaves the client alone.
THEOREM ContractUsed == Spec => UsesClientByContract
<1> USE DEF Contract!Init, Contract!Next, Contract!vars
<1>1. Init => Contract!Init
  BY DEF Init
<1>2. TypeOK /\ ClientInv /\ ConnectionInv /\ [Next]_vars
        => [Contract!Next]_(Contract!vars)
  <2> SUFFICES ASSUME TypeOK, ClientInv, ConnectionInv, [Next]_vars
               PROVE  Contract!Next \/ UNCHANGED Contract!vars
    OBVIOUS
  <2> USE DEF flags, client, peer
  <2>1. CASE Run
    BY <2>1 DEF Run
  <2>2. CASE LoopStep
    <3> USE DEF LoopGoes, LoopAt
    <3>1. CASE EnterLoop \/ CheckStop \/ CheckConnected \/ Sleep \/ CallbackReturn
               \/ CallbackThrowCaught \/ LookupFails
      BY <3>1 DEF EnterLoop, CheckStop, CheckConnected, Sleep, CallbackReturn,
         CallbackThrowCaught, LookupFails
    <3>2. CASE NotifyStopped \/ NotifyLost \/ NotifyConnected
      BY <3>2 DEF NotifyStopped, NotifyLost, NotifyConnected, Notify
    <3>3. CASE StopResetThrows \/ CallbackThrowTerminates \/ LoopTouchesDestroyed
      BY <3>3 DEF StopResetThrows, CallbackThrowTerminates, LoopTouchesDestroyed, Dies
    <3>4. CASE StopReset
      BY <3>4 DEF StopReset, DestroyClient, Contract!Destroy
    <3>5. CASE ReceiveMessage \/ ReceiveNothing
      BY <3>5 DEF ReceiveMessage, ReceiveNothing, ReadOne, ClientInv, Contract!Receive
    <3>6. CASE ReceiveFails
      BY <3>6 DEF ReceiveFails, ReadOne, LossNoticed, ClientInv, Contract!Receive,
         Contract!NoticeLoss
    <3>7. CASE ReconnectLock
      BY <3>7 DEF ReconnectLock, DestroyClient, Contract!Destroy
    <3>8. CASE GetParams
      BY <3>8 DEF GetParams, ClientInv
    <3>9. CASE Start
      BY <3>9 DEF Start, ClientInv, ConnectionInv, Contract!Start
    <3> QED
      BY <2>2, <3>1, <3>2, <3>3, <3>4, <3>5, <3>6, <3>7, <3>8, <3>9 DEF LoopStep
  <2>3. ASSUME NEW t \in Threads, CallSend(t) \/ CallStop(t) \/ ApiStep(t)
        PROVE  UNCHANGED Contract!vars
    BY <2>3, ApiFrame, ApiConnection
  <2>4. ASSUME NEW u \in Users, CallDestroy(u)
        PROVE  UNCHANGED Contract!vars
    BY <2>4 DEF CallDestroy
  <2>5. CASE DestroyMembers
    BY <2>5 DEF DestroyMembers, DestroyClient, Contract!Destroy
  <2>6. CASE DestroyMembersThrows
    BY <2>6 DEF DestroyMembersThrows, Dies
  <2>7. ASSUME NEW c \in {"connected", "disconnected", "message"}, Register(c)
        PROVE  UNCHANGED Contract!vars
    BY <2>7 DEF Register
  <2>8. CASE PeerNext
    <3>1. UNCHANGED m_websocket
      BY <2>8, PeerFrame
    <3>2. CASE ServerSend \/ AnswerExit
      BY <3>1, <3>2 DEF ServerSend, AnswerExit, PeerStep, Contract!Arrive, Contract!Close
    <3>3. CASE LinkDrop \/ LcuExit
      BY <3>1, <3>3 DEF LinkDrop, LcuExit, PeerStep, Contract!Close
    <3>4. CASE LcuLaunch \/ LcuListen
      BY <3>1, <3>4 DEF LcuLaunch, LcuListen
    <3> QED
      BY <2>8, <3>2, <3>3, <3>4 DEF PeerNext
  <2>9. CASE UNCHANGED vars
    BY <2>9 DEF vars
  <2> QED
    BY <2>1, <2>2, <2>3, <2>4, <2>5, <2>6, <2>7, <2>8, <2>9 DEF Next, Done
<1> QED
  BY <1>1, <1>2, TypeCorrect, ClientCorrect, ConnectionCorrect, PTL
  DEF Spec, UsesClientByContract, Contract!Spec

----------------------------------------------------------------------------

\* A call from a callback finds the client that is_connected() has found, for
\* any number of other threads: only the loop's own thread replaces the client,
\* and it is in the callback.
THEOREM CallbacksFindClient == Spec => []CallbackCallsFindClient
<1> USE ThreadAssumption DEF Threads
<1>1. Init => CallbackCallsFindClient
  BY DEF Init, CallbackCallsFindClient
<1>2. TypeOK /\ CallbackCallsFindClient /\ [Next]_vars => CallbackCallsFindClient'
  <2> SUFFICES ASSUME TypeOK, CallbackCallsFindClient, [Next]_vars
               PROVE  CallbackCallsFindClient'
    OBVIOUS
  <2> USE DEF CallbackCallsFindClient, flags, client
  <2>1. CASE Run
    BY <2>1 DEF Run
  <2>2. CASE LoopStep
    BY <2>2, LoopFrame, LoopIsOutside
  <2>3. ASSUME NEW t \in Threads, CallSend(t) \/ CallStop(t) \/ ApiStep(t)
        PROVE  CallbackCallsFindClient'
    <3>1. UNCHANGED <<client, object>>
      BY <2>3, ApiFrame
    <3>2. api' = api \/ t # Loop => api'[Loop] = api[Loop]
      BY <2>3 DEF ApiGoes, CallSend, CallStop, ApiStep, SendCheck, SendLock,
         SendDeref, SendFrame, StopSet, StopCheck, StopDeref, StopFrame, DerefNull,
         FrameFails, Dies, TypeOK, ThreadsTypeOK
    <3>3. CASE api' = api \/ t # Loop
      BY <3>1, <3>2, <3>3
    <3>4. CASE t = Loop /\ api' # api
      <4> USE DEF ApiGoes, ApiAt, TypeOK, ThreadsTypeOK
      <4>1. CASE CallSend(t) \/ CallStop(t) \/ StopSet(t)
        BY <3>4, <4>1 DEF CallSend, CallStop, StopSet
      <4>2. CASE SendCheck(t) \/ StopCheck(t)
        BY <3>4, <4>2 DEF SendCheck, StopCheck, is_connected
      <4>3. CASE SendLock(t) \/ SendDeref(t) \/ StopDeref(t)
        BY <3>1, <3>4, <4>3 DEF SendLock, SendDeref, StopDeref
      <4>4. CASE SendFrame(t) \/ StopFrame(t)
        BY <3>4, <4>4 DEF SendFrame, StopFrame
      <4>5. CASE DerefNull(t) \/ FrameFails(t)
        BY <3>4, <4>5 DEF DerefNull, FrameFails, Dies
      <4> QED BY <2>3, <4>1, <4>2, <4>3, <4>4, <4>5 DEF ApiStep
    <3> QED BY <3>3, <3>4
  <2>4. ASSUME NEW u \in Users, CallDestroy(u)
        PROVE  CallbackCallsFindClient'
    BY <2>4 DEF CallDestroy, ApiAt, TypeOK, ThreadsTypeOK
  <2>5. CASE DestroyMembers \/ DestroyMembersThrows
    BY <2>5 DEF DestroyMembers, DestroyMembersThrows, Dies
  <2>6. ASSUME NEW c \in {"connected", "disconnected", "message"}, Register(c)
        PROVE  CallbackCallsFindClient'
    BY <2>6 DEF Register
  <2>7. CASE PeerNext
    BY <2>7, PeerFrame
  <2>8. CASE UNCHANGED vars
    BY <2>8 DEF vars
  <2> QED
    BY <2>1, <2>2, <2>3, <2>4, <2>5, <2>6, <2>7, <2>8 DEF Next, Done
<1> QED
  BY <1>1, <1>2, TypeCorrect, PTL DEF Spec

\* No application thread is in a member function, and nobody destroys the
\* handler.
OnlyCallbacksCall == object = "alive" /\ \A u \in Users : api[u] = "out"

\* That send_message() dereferences null (SendReturnsABoolean, violated with one
\* application thread) takes a thread beside the loop: an application that calls
\* the handler only from its callbacks is safe from it.
THEOREM CallbacksSendSafely ==
  ASSUME UserCalls = {}
  PROVE  Spec => []SendReturnsABoolean
<1> USE ThreadAssumption DEF Threads
<1> DEFINE Safe == OnlyCallbacksCall /\ SendReturnsABoolean
<1>1. Init => Safe
  BY DEF Init, OnlyCallbacksCall, SendReturnsABoolean
<1>2. TypeOK /\ CallbackCallsFindClient /\ Safe /\ [Next]_vars => Safe'
  <2> SUFFICES ASSUME TypeOK, CallbackCallsFindClient, Safe, [Next]_vars PROVE Safe'
    OBVIOUS
  <2> USE DEF OnlyCallbacksCall, SendReturnsABoolean, flags, client
  <2>1. CASE Run
    BY <2>1 DEF Run
  <2>2. CASE LoopStep
    <3>1. fate' \in {fate, "terminate", "use_after_free"}
      BY <2>2 DEF LoopStep, LoopGoes, EnterLoop, CheckStop, StopReset,
         StopResetThrows, NotifyStopped, NotifyLost, NotifyConnected, Notify,
         CheckConnected, ReceiveMessage, ReceiveNothing, ReceiveFails, ReconnectLock,
         LookupFails, GetParams, Start, Sleep, CallbackReturn, CallbackThrowCaught,
         CallbackThrowTerminates, LoopTouchesDestroyed, Dies
    <3> QED BY <2>2, <3>1, LoopFrame
  <2>3. ASSUME NEW t \in Threads, CallSend(t) \/ CallStop(t) \/ ApiStep(t)
        PROVE  Safe'
    <3>1. t = Loop
      BY <2>3 DEF CallSend, CallStop, MayCall, ApiStep, SendCheck, SendLock, SendDeref,
         SendFrame, StopSet, StopCheck, StopDeref, StopFrame, DerefNull, FrameFails,
         ApiGoes, ApiAt
    <3>2. UNCHANGED object
      BY <2>3, ApiFrame
    <3>3. \A u \in Users : api'[u] = api[u]
      BY <2>3, <3>1 DEF ApiGoes, CallSend, CallStop, ApiStep, SendCheck, SendLock,
         SendDeref, SendFrame, StopSet, StopCheck, StopDeref, StopFrame, DerefNull,
         FrameFails, Dies, TypeOK, ThreadsTypeOK
    <3>4. fate' # "null_dereference"
      <4>1. ~DerefNull(t)
        BY <3>1 DEF DerefNull, ApiAt, CallbackCallsFindClient
      <4> QED
        BY <2>3, <4>1 DEF CallSend, CallStop, ApiStep, SendCheck, SendLock, SendDeref,
           SendFrame, StopSet, StopCheck, StopDeref, StopFrame, FrameFails, Dies, ApiGoes
    <3> QED BY <3>2, <3>3, <3>4
  <2>4. ASSUME NEW u \in Users
        PROVE  ~CallDestroy(u)
    BY DEF CallDestroy, MayCall
  <2>5. ~DestroyMembers /\ ~DestroyMembersThrows
    BY DEF DestroyMembers, DestroyMembersThrows
  <2>6. ASSUME NEW c \in {"connected", "disconnected", "message"}, Register(c)
        PROVE  Safe'
    BY <2>6 DEF Register
  <2>7. CASE PeerNext
    BY <2>7, PeerFrame
  <2>8. CASE UNCHANGED vars
    BY <2>8 DEF vars
  <2> QED
    BY <2>1, <2>2, <2>3, <2>4, <2>5, <2>6, <2>7, <2>8 DEF Next, Done
<1> QED
  BY <1>1, <1>2, TypeCorrect, CallbacksFindClient, PTL DEF Spec

----------------------------------------------------------------------------

\* The application knows of the loss of a connection before the loop works on
\* the next one, whether or not callbacks throw.
THEOREM LossAlwaysToldFirst == Spec => []LossIsToldFirst
<1>1. Init => LossIsToldFirst
  BY DEF Init, LossIsToldFirst
<1>2. TypeOK /\ LossIsToldFirst /\ [Next]_vars => LossIsToldFirst'
  <2> SUFFICES ASSUME TypeOK, LossIsToldFirst, [Next]_vars PROVE LossIsToldFirst'
    OBVIOUS
  <2> USE DEF LossIsToldFirst, flags, client
  <2>1. CASE Run
    BY <2>1 DEF Run
  <2>2. CASE LoopStep
    <3> USE DEF LoopGoes, LoopAt
    <3>1. CASE EnterLoop \/ CheckStop \/ StopReset \/ CheckConnected
      BY <3>1 DEF EnterLoop, CheckStop, StopReset, CheckConnected
    <3>2. CASE ReceiveMessage \/ ReceiveNothing \/ ReceiveFails
      BY <3>2 DEF ReceiveMessage, ReceiveNothing, ReceiveFails
    <3>3. CASE NotifyStopped \/ NotifyLost \/ NotifyConnected
      BY <3>3 DEF NotifyStopped, NotifyLost, NotifyConnected, Notify, TypeOK,
         HandlerTypeOK
    <3>4. CASE ReconnectLock \/ LookupFails \/ GetParams \/ Start \/ Sleep
      BY <3>4 DEF ReconnectLock, LookupFails, GetParams, Start, Sleep
    <3>5. CASE CallbackReturn \/ CallbackThrowCaught
      BY <3>5 DEF CallbackReturn, CallbackThrowCaught
    <3>6. CASE StopResetThrows \/ CallbackThrowTerminates \/ LoopTouchesDestroyed
      BY <3>6 DEF StopResetThrows, CallbackThrowTerminates, LoopTouchesDestroyed, Dies
    <3> QED BY <2>2, <3>1, <3>2, <3>3, <3>4, <3>5, <3>6 DEF LoopStep
  <2>3. ASSUME NEW t \in Threads, CallSend(t) \/ CallStop(t) \/ ApiStep(t)
        PROVE  LossIsToldFirst'
    BY <2>3, ApiFrame
  <2>4. ASSUME NEW u \in Users, CallDestroy(u)
        PROVE  LossIsToldFirst'
    BY <2>4 DEF CallDestroy
  <2>5. CASE DestroyMembers \/ DestroyMembersThrows
    BY <2>5 DEF DestroyMembers, DestroyMembersThrows, Dies
  <2>6. ASSUME NEW c \in {"connected", "disconnected", "message"}, Register(c)
        PROVE  LossIsToldFirst'
    BY <2>6 DEF Register
  <2>7. CASE PeerNext
    BY <2>7, PeerFrame
  <2>8. CASE UNCHANGED vars
    BY <2>8 DEF vars
  <2> QED
    BY <2>1, <2>2, <2>3, <2>4, <2>5, <2>6, <2>7, <2>8 DEF Next, Done
<1> QED
  BY <1>1, <1>2, TypeCorrect, PTL DEF Spec

\* The application knows of every connection the loop uses: without callbacks
\* that throw, m_is_state_connected follows the client.
THEOREM ConnectionAlwaysTold ==
  ASSUME CallbacksThrow = FALSE
  PROVE  Spec => []ConnectionIsTold
<1>1. EventInv => ConnectionIsTold
  BY DEF EventInv, ConnectionIsTold
<1> QED
  BY <1>1, EventCorrect, PTL

----------------------------------------------------------------------------

\* The loop is on its way out of receive_message(), or a thread will see to it.
Woken ==
  \/ pending > 0 \/ link = "closed" \/ exit_sent
  \/ \E t \in Threads : api[t] \in {"stop_check", "stop_deref", "stop_frame"}

\* StopWakesLoop, from the moment the loop has passed the test of m_stop, and
\* that a connected client has a connection to send "Exit" over.
WakeInv ==
  /\ m_websocket = "connected" => link # "none"
  /\ m_stop /\ m_websocket = "connected" /\ pc \in {"check_connected", "receive"}
       => Woken

\* A thread in send_message() sends no wake-up and takes none away.
LEMMA SendKeepsWakeUp ==
  ASSUME TypeOK, WakeInv, NEW t \in Threads,
         \/ CallSend(t) \/ SendCheck(t) \/ SendLock(t) \/ SendDeref(t)
         \/ SendFrame(t) \/ CallStop(t)
  PROVE  WakeInv'
<1>1. UNCHANGED <<pc, m_stop, m_websocket, link, pending, exit_sent>>
  BY DEF ApiGoes, CallSend, SendCheck, SendLock, SendDeref, SendFrame, CallStop, client
<1>2. Woken => Woken'
  <2> SUFFICES ASSUME NEW s \in Threads, api[s] \in {"stop_check", "stop_deref", "stop_frame"}
               PROVE  api'[s] = api[s]
    BY <1>1 DEF Woken
  <2> QED
    BY DEF ApiGoes, ApiAt, CallSend, SendCheck, SendLock, SendDeref, SendFrame, CallStop,
       TypeOK, ThreadsTypeOK
<1> QED
  BY <1>1, <1>2 DEF WakeInv

\* The steps of stop(): each hands the wake-up on, until "Exit" is sent.
LEMMA StopHandsWakeUpOn ==
  ASSUME TypeOK, WakeInv, NEW t \in Threads,
         StopSet(t) \/ StopCheck(t) \/ StopDeref(t) \/ StopFrame(t)
  PROVE  WakeInv'
<1>1. UNCHANGED <<pc, m_websocket, link, pending>> /\ (exit_sent => exit_sent')
  <2>1. UNCHANGED <<pc, m_websocket, link, pending>>
    BY DEF ApiGoes, StopSet, StopCheck, StopDeref, StopFrame, client
  <2>2. exit_sent' = exit_sent \/ exit_sent' = (exit_sent \/ link = "up")
    BY DEF StopSet, StopCheck, StopDeref, StopFrame
  <2>3. exit_sent => exit_sent'
    BY <2>2, Zenon
  <2> QED BY <2>1, <2>3
<1>2. SUFFICES ASSUME m_websocket = "connected", pc \in {"check_connected", "receive"},
                      m_stop'
               PROVE  Woken'
  BY <1>1 DEF WakeInv
<1> USE DEF ApiGoes, ApiAt, TypeOK, ThreadsTypeOK
<1>3. CASE StopSet(t)
  <2>1. api'[t] = "stop_check"
    BY <1>3 DEF StopSet
  <2> QED BY <2>1 DEF Woken
<1>4. CASE StopCheck(t)
  <2>1. api'[t] = "stop_deref"
    BY <1>2, <1>4 DEF StopCheck, is_connected
  <2> QED BY <2>1 DEF Woken
<1>5. CASE StopDeref(t)
  <2>1. api'[t] = "stop_frame"
    BY <1>2, <1>5 DEF StopDeref
  <2> QED BY <2>1 DEF Woken
<1>6. CASE StopFrame(t)
  <2>1. exit_sent' \/ link' = "closed"
    BY <1>1, <1>2, <1>6 DEF StopFrame, WakeInv, PeerTypeOK
  <2> QED BY <2>1 DEF Woken
<1> QED BY <1>3, <1>4, <1>5, <1>6

\* For any number of threads that call stop(), from callbacks too, no wake-up
\* of the loop is lost.
THEOREM StopAlwaysWakesLoop == Spec => []StopWakesLoop
<1>1. Init => WakeInv
  BY DEF Init, WakeInv
<1>2. TypeOK /\ WakeInv /\ [Next]_vars => WakeInv'
  <2> SUFFICES ASSUME TypeOK, WakeInv, [Next]_vars PROVE WakeInv'
    OBVIOUS
  <2> USE DEF flags, client, peer
  <2>1. CASE Run
    BY <2>1 DEF Run, WakeInv, Woken
  <2>2. CASE LoopStep
    <3>1. UNCHANGED api
      BY <2>2, LoopFrame
    <3> USE DEF LoopGoes, LoopAt, WakeInv, Woken
    <3>2. CASE EnterLoop \/ CheckStop \/ CheckConnected \/ Sleep \/ CallbackReturn
               \/ CallbackThrowCaught \/ LookupFails
      BY <3>1, <3>2 DEF EnterLoop, CheckStop, CheckConnected, Sleep, CallbackReturn,
         CallbackThrowCaught, LookupFails
    <3>3. CASE NotifyStopped \/ NotifyLost \/ NotifyConnected
      BY <3>3 DEF NotifyStopped, NotifyLost, NotifyConnected, Notify
    <3>4. CASE StopResetThrows \/ CallbackThrowTerminates \/ LoopTouchesDestroyed
      BY <3>4 DEF StopResetThrows, CallbackThrowTerminates, LoopTouchesDestroyed, Dies
    <3>5. CASE StopReset \/ ReconnectLock
      BY <3>5 DEF StopReset, ReconnectLock, DestroyClient
    <3>6. CASE ReceiveMessage \/ ReceiveNothing \/ ReceiveFails
      BY <3>6 DEF ReceiveMessage, ReceiveNothing, ReceiveFails, LossNoticed
    <3>7. CASE GetParams \/ Start
      BY <3>7 DEF GetParams, Start
    <3> QED
      BY <2>2, <3>2, <3>3, <3>4, <3>5, <3>6, <3>7 DEF LoopStep
  <2>3. ASSUME NEW t \in Threads, CallSend(t) \/ CallStop(t) \/ ApiStep(t)
        PROVE  WakeInv'
    <3>1. CASE DerefNull(t) \/ FrameFails(t)
      BY <3>1 DEF DerefNull, FrameFails, Dies, WakeInv, Woken
    <3> QED
      BY <2>3, <3>1, SendKeepsWakeUp, StopHandsWakeUpOn DEF ApiStep
  <2>4. ASSUME NEW u \in Users, CallDestroy(u)
        PROVE  WakeInv'
    <3>1. \A t \in Threads : api[t] # "out" => api'[t] = api[t]
      BY <2>4 DEF CallDestroy, ApiAt, TypeOK, ThreadsTypeOK
    <3> QED BY <2>4, <3>1 DEF CallDestroy, WakeInv, Woken
  <2>5. CASE DestroyMembers \/ DestroyMembersThrows
    BY <2>5 DEF DestroyMembers, DestroyClient, DestroyMembersThrows, Dies, WakeInv, Woken
  <2>6. ASSUME NEW c \in {"connected", "disconnected", "message"}, Register(c)
        PROVE  WakeInv'
    BY <2>6 DEF Register, WakeInv, Woken
  <2>7. CASE PeerNext
    <3>1. UNCHANGED <<pc, api, m_stop, m_websocket>>
      BY <2>7, PeerFrame
    <3>2. CASE LcuLaunch \/ LcuListen \/ ServerSend \/ AnswerExit
      BY <3>1, <3>2 DEF LcuLaunch, LcuListen, ServerSend, AnswerExit, PeerStep, WakeInv,
         Woken, TypeOK, PeerTypeOK
    <3>3. CASE LinkDrop \/ LcuExit
      BY <3>1, <3>3 DEF LinkDrop, LcuExit, PeerStep, WakeInv, Woken
    <3> QED BY <2>7, <3>2, <3>3 DEF PeerNext
  <2>8. CASE UNCHANGED vars
    BY <2>8 DEF vars, WakeInv, Woken
  <2> QED
    BY <2>1, <2>2, <2>3, <2>4, <2>5, <2>6, <2>7, <2>8 DEF Next, Done
<1>3. ClientInv /\ WakeInv => StopWakesLoop
  BY DEF ClientInv, WakeInv, Woken, StopWakesLoop
<1> QED
  BY <1>1, <1>2, <1>3, TypeCorrect, ClientCorrect, PTL DEF Spec

----------------------------------------------------------------------------
(* What Lcu_wamp_handler relies on.                                        *)

\* Without a destructor the handler stays.
Alive == object = "alive"

LEMMA NeverDestroyed ==
  ASSUME "destroy" \notin UserCalls
  PROVE  Spec => []Alive
<1>1. Init => Alive
  BY DEF Init, Alive
<1>2. Alive /\ [Next]_vars => Alive'
  <2> SUFFICES ASSUME object = "alive", [Next]_vars PROVE object' = "alive"
    BY DEF Alive
  <2>1. CASE Run \/ LoopStep
    BY <2>1, LoopFrame DEF Run
  <2>2. ASSUME NEW t \in Threads, CallSend(t) \/ CallStop(t) \/ ApiStep(t)
        PROVE  object' = "alive"
    BY <2>2, ApiFrame
  <2>3. ASSUME NEW u \in Users, CallDestroy(u)
        PROVE  FALSE
    BY <2>3, ThreadAssumption DEF CallDestroy, MayCall
  <2>4. ASSUME DestroyMembers \/ DestroyMembersThrows
        PROVE  FALSE
    BY <2>4 DEF DestroyMembers, DestroyMembersThrows
  <2>5. ASSUME NEW c \in {"connected", "disconnected", "message"}, Register(c)
        PROVE  object' = "alive"
    BY <2>5 DEF Register
  <2>6. CASE PeerNext
    BY <2>6, PeerFrame
  <2>7. CASE UNCHANGED vars
    BY <2>7 DEF vars
  <2> QED
    BY <2>1, <2>2, <2>3, <2>4, <2>5, <2>6, <2>7 DEF Next, Done
<1> QED
  BY <1>1, <1>2, PTL DEF Spec

\* The connection is made and given up between the callbacks that report it, and
\* what they report of it is so.
THEOREM ReportsImplemented ==
  ASSUME CallbacksThrow = FALSE, "destroy" \notin UserCalls
  PROVE  Spec => ReportsConnection
<1>1. Init => Reported!Init
  BY DEF Init, Reported!Init, ongoing
<1>2. ASSUME TypeOK, ClientInv, ReportInv, EventInv, LossIsToldFirst, Alive, [Next]_vars
      PROVE  [Reported!Next]_(Reported!vars)
  <2> USE <1>2 DEF Alive
  <2> USE DEF Reported!vars, Reported!Events!vars, ongoing, flags, client
  <2>1. CASE Run
    BY <2>1 DEF Run
  <2>2. CASE LoopStep
    <3> USE DEF LoopGoes, LoopAt
    <3>1. CASE EnterLoop \/ CheckStop \/ CheckConnected \/ ReceiveNothing \/ LookupFails \/ Sleep
      BY <3>1 DEF EnterLoop, CheckStop, CheckConnected, ReceiveNothing, LookupFails, Sleep
    <3>2. CASE StopResetThrows \/ CallbackThrowTerminates \/ LoopTouchesDestroyed
      BY <3>2 DEF StopResetThrows, CallbackThrowTerminates, LoopTouchesDestroyed, Dies
    <3>3. CASE StopReset
      BY <3>3 DEF StopReset, DestroyClient, EventInv, Reported!Next, Reported!Lose
    <3>4. CASE ReceiveFails
      BY <3>4 DEF ReceiveFails, LossNoticed, ClientInv, EventInv, Reported!Next, Reported!Lose
    <3>5. CASE ReconnectLock
      BY <3>5 DEF ReconnectLock, DestroyClient, EventInv
    <3>6. CASE GetParams
      BY <3>6 DEF GetParams, ClientInv
    <3>7. CASE Start
      BY <3>7 DEF Start, ClientInv, LossIsToldFirst, Reported!Next, Reported!Connect
    <3>8. CASE NotifyStopped \/ NotifyLost
      BY <3>8 DEF NotifyStopped, NotifyLost, Notify, ClientInv, EventInv, TypeOK,
         HandlerTypeOK, Reported!Next, Reported!Report, Reported!Events!Report
    <3>9. CASE NotifyConnected
      BY <3>9 DEF NotifyConnected, Notify, ClientInv, TypeOK, HandlerTypeOK,
         Reported!Next, Reported!Report, Reported!Events!Report
    <3>10. CASE ReceiveMessage
      BY <3>10 DEF ReceiveMessage, ClientInv, EventInv, Reported!Next, Reported!Report,
         Reported!Events!Deliver
    <3>11. CASE CallbackReturn
      BY <3>11 DEF CallbackReturn, EventInv, Reported!Next, Reported!Return,
         Reported!Events!Return
    <3>12. CASE CallbackThrowCaught
      BY <3>12 DEF CallbackThrowCaught
    <3> QED
      BY <2>2, <3>1, <3>2, <3>3, <3>4, <3>5, <3>6, <3>7, <3>8, <3>9, <3>10, <3>11, <3>12
      DEF LoopStep
  <2>3. ASSUME NEW t \in Threads, CallSend(t) \/ CallStop(t) \/ ApiStep(t)
        PROVE  UNCHANGED Reported!vars
    BY <2>3, ApiFrame
  <2>4. ASSUME NEW u \in Users, CallDestroy(u)
        PROVE  UNCHANGED Reported!vars
    BY <2>4 DEF CallDestroy
  <2>5. CASE DestroyMembers \/ DestroyMembersThrows
    BY <2>5 DEF DestroyMembers, DestroyMembersThrows
  <2>6. ASSUME NEW c \in {"connected", "disconnected", "message"}, Register(c)
        PROVE  Reported!Register(c)
    BY <2>6 DEF Register, ReportInv, ClientInv, Reported!Register, Reported!Events!Register
  <2>7. CASE PeerNext
    BY <2>7, PeerFrame
  <2>8. CASE UNCHANGED vars
    BY <2>8 DEF vars
  <2> QED
    BY <2>1, <2>2, <2>3, <2>4, <2>5, <2>6, <2>7, <2>8
    DEF Next, Done, Reported!Next, Reported!Events!Callbacks
<1> QED
  BY <1>1, <1>2, TypeCorrect, ClientCorrect, ReportCorrect, EventCorrect,
     LossAlwaysToldFirst, NeverDestroyed, PTL
  DEF Spec, ReportsConnection, Reported!Spec

----------------------------------------------------------------------------
(* What it takes for the process to end.                                   *)

\* No application thread is in stop(), and the loop is in no frame of a client
\* that has been destroyed.
OnlyCallbacksStop ==
  /\ Alive
  /\ \A u \in Users : api[u] \notin {"stop_set", "stop_check", "stop_deref", "stop_frame"}
  /\ Loop \notin stale

\* A use of freed memory takes a stop() or a destructor beside the loop: while
\* application threads only send, callbacks may call stop() and send_message()
\* as they like (l.35-39, l.121-128, l.163-164).
THEOREM StopsInCallbacksAreSafe ==
  ASSUME UserCalls \subseteq {"send"}
  PROVE  Spec => [](fate # "use_after_free")
<1> DEFINE Safe == fate # "use_after_free"
<1> USE ThreadAssumption DEF Threads
<1>1. Init => OnlyCallbacksStop
  BY DEF Init, OnlyCallbacksStop, Alive
<1>2. TypeOK /\ OnlyCallbacksStop /\ [Next]_vars => OnlyCallbacksStop'
  <2> SUFFICES ASSUME TypeOK, OnlyCallbacksStop, [Next]_vars PROVE OnlyCallbacksStop'
    OBVIOUS
  <2> USE DEF OnlyCallbacksStop, Alive, client
  <2>1. CASE Run
    BY <2>1 DEF Run
  <2>2. CASE LoopStep
    <3>1. UNCHANGED <<api, object>> /\ api[Loop] = "out"
      BY <2>2, LoopFrame, LoopIsOutside
    <3>2. stale' = stale \/ stale' = stale \cup {t \in Threads : api[t] \in {"send_frame", "stop_frame"}}
      BY <2>2 DEF LoopStep, LoopGoes, EnterLoop, CheckStop, StopReset, StopResetThrows,
         NotifyStopped, NotifyLost, NotifyConnected, Notify, CheckConnected,
         ReceiveMessage, ReceiveNothing, ReceiveFails, ReconnectLock, LookupFails,
         GetParams, Start, Sleep, CallbackReturn, CallbackThrowCaught,
         CallbackThrowTerminates, LoopTouchesDestroyed, Dies, DestroyClient
    <3> QED
      BY <3>1, <3>2
  <2>3. ASSUME NEW t \in Threads, CallSend(t) \/ CallStop(t) \/ ApiStep(t)
        PROVE  OnlyCallbacksStop'
    <3> USE DEF ApiGoes, ApiAt, TypeOK, ThreadsTypeOK
    <3>1. UNCHANGED <<client, object>>
      BY <2>3, ApiFrame
    <3>2. CASE CallSend(t) \/ SendCheck(t) \/ SendLock(t) \/ SendDeref(t) \/ SendFrame(t)
      BY <3>1, <3>2 DEF CallSend, SendCheck, SendLock, SendDeref, SendFrame
    <3>3. CASE CallStop(t)
      BY <3>1, <3>3 DEF CallStop, MayCall
    <3>4. CASE StopSet(t) \/ StopCheck(t) \/ StopDeref(t) \/ StopFrame(t)
      BY <3>1, <3>4 DEF StopSet, StopCheck, StopDeref, StopFrame
    <3>5. CASE DerefNull(t) \/ FrameFails(t)
      BY <3>1, <3>5 DEF DerefNull, FrameFails, Dies
    <3> QED
      BY <2>3, <3>2, <3>3, <3>4, <3>5 DEF ApiStep
  <2>4. ASSUME NEW u \in Users, CallDestroy(u)
        PROVE  FALSE
    BY <2>4 DEF CallDestroy, MayCall
  <2>5. ASSUME DestroyMembers \/ DestroyMembersThrows
        PROVE  FALSE
    BY <2>5 DEF DestroyMembers, DestroyMembersThrows
  <2>6. ASSUME NEW c \in {"connected", "disconnected", "message"}, Register(c)
        PROVE  OnlyCallbacksStop'
    BY <2>6 DEF Register
  <2>7. CASE PeerNext
    BY <2>7, PeerFrame
  <2>8. CASE UNCHANGED vars
    BY <2>8 DEF vars
  <2> QED
    BY <2>1, <2>2, <2>3, <2>4, <2>5, <2>6, <2>7, <2>8 DEF Next, Done
<1>3. TypeOK /\ OnlyCallbacksStop /\ StaleInv /\ Safe /\ [Next]_vars => Safe'
  <2> SUFFICES ASSUME TypeOK, OnlyCallbacksStop, StaleInv, Safe, [Next]_vars PROVE Safe'
    OBVIOUS
  <2>1. CASE LoopStep
    <3> USE DEF LoopGoes, LoopAt
    <3>1. CASE StopResetThrows \/ CallbackThrowTerminates
      BY <3>1 DEF StopResetThrows, CallbackThrowTerminates, Dies
    <3>2. ASSUME LoopTouchesDestroyed PROVE FALSE
      BY <3>2 DEF LoopTouchesDestroyed, OnlyCallbacksStop, Alive
    <3>3. CASE \/ EnterLoop \/ CheckStop \/ StopReset \/ CheckConnected \/ ReceiveMessage
               \/ ReceiveNothing \/ ReceiveFails \/ ReconnectLock \/ LookupFails
               \/ GetParams \/ Start \/ Sleep
      BY <3>3 DEF EnterLoop, CheckStop, StopReset, CheckConnected, ReceiveMessage,
         ReceiveNothing, ReceiveFails, ReconnectLock, LookupFails, GetParams, Start, Sleep
    <3>4. CASE \/ NotifyStopped \/ NotifyLost \/ NotifyConnected
               \/ CallbackReturn \/ CallbackThrowCaught
      BY <3>4 DEF NotifyStopped, NotifyLost, NotifyConnected, Notify, CallbackReturn,
         CallbackThrowCaught
    <3> QED
      BY <2>1, <3>1, <3>2, <3>3, <3>4 DEF LoopStep
  <2>2. ASSUME NEW t \in Threads, CallSend(t) \/ CallStop(t) \/ ApiStep(t)
        PROVE  Safe'
    <3>1. CASE DerefNull(t)
      BY <3>1 DEF DerefNull, Dies
    <3>2. CASE FrameFails(t)
      <4>1. t \notin stale
        BY DEF OnlyCallbacksStop, Alive, StaleInv
      <4> QED
        BY <3>2, <4>1 DEF FrameFails, Dies
    <3>3. CASE CallSend(t) \/ SendCheck(t) \/ SendLock(t) \/ SendDeref(t) \/ SendFrame(t)
      BY <3>3 DEF CallSend, SendCheck, SendLock, SendDeref, SendFrame, ApiGoes
    <3>4. CASE CallStop(t) \/ StopSet(t) \/ StopCheck(t) \/ StopDeref(t) \/ StopFrame(t)
      BY <3>4 DEF CallStop, StopSet, StopCheck, StopDeref, StopFrame, ApiGoes
    <3> QED
      BY <2>2, <3>1, <3>2, <3>3, <3>4 DEF ApiStep
  <2>3. ASSUME NEW u \in Users, CallDestroy(u)
        PROVE  Safe'
    BY <2>3 DEF CallDestroy
  <2>4. CASE Run \/ DestroyMembers \/ DestroyMembersThrows
    BY <2>4 DEF Run, DestroyMembers, DestroyMembersThrows, Dies
  <2>5. ASSUME NEW c \in {"connected", "disconnected", "message"}, Register(c)
        PROVE  Safe'
    BY <2>5 DEF Register
  <2>6. CASE PeerNext
    BY <2>6 DEF PeerNext, PeerStep, LcuLaunch, LcuListen, LcuExit, LinkDrop, ServerSend,
       AnswerExit
  <2>7. CASE UNCHANGED vars
    BY <2>7 DEF vars
  <2> QED
    BY <2>1, <2>2, <2>3, <2>4, <2>5, <2>6, <2>7 DEF Next, Done
<1>4. Init => Safe
  BY DEF Init
<1>5. Spec => []Safe
  BY <1>1, <1>2, <1>3, <1>4, TypeCorrect, StaleCorrect, PTL DEF Spec
<1> QED
  BY <1>5

============================================================================
