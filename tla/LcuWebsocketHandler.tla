------------------------ MODULE LcuWebsocketHandler ------------------------
(***************************************************************************)
(* Lcu_websocket_handler with the connection life cycle of the             *)
(* Https_websocket_client it owns: the thread that is inside run(), the    *)
(* application threads that call send_message(), stop() and the            *)
(* destructor, the callbacks, and the League client (LCU) at the other end *)
(* of the socket.  What one receive_message() of the client does to the    *)
(* frames of a message is left to HttpsWebsocketClient.tla.                *)
(***************************************************************************)
EXTENDS Naturals

CONSTANTS
  Users,            \* application threads
  Loop,             \* the thread that calls run()
  NoThread,         \* the owner of a free mutex
  UserCalls,        \* what Users call: a subset of {"send", "stop", "destroy"}
  CallbackCalls,    \* what callbacks call on the handler: of {"send", "stop"}
  CallbacksThrow,   \* whether a callback may throw
  ReceiveTimeouts,  \* whether a receive with nothing to read times out
  LookupsFail,      \* whether the parameters of an LCU that runs may be missing
  StartsFail,       \* whether start() may throw although the LCU listens
  MaxPending        \* bound: messages sent by the LCU and not yet read

ASSUME ThreadAssumption == Loop \notin Users /\ NoThread \notin Users \cup {Loop}
ASSUME UseAssumption ==
  /\ UserCalls \subseteq {"send", "stop", "destroy"}
  /\ CallbackCalls \subseteq {"send", "stop"}
  /\ {CallbacksThrow, ReceiveTimeouts, LookupsFail, StartsFail} \subseteq BOOLEAN
ASSUME BoundAssumption == MaxPending \in Nat \ {0}

Threads == Users \cup {Loop}

VARIABLES
  pc,                    \* where Loop is in run()
  api,                   \* where each thread is in a public member function
  m_stop,
  m_is_state_connected,
  m_socket_mutex,        \* the owner, or NoThread
  m_websocket,           \* "null", or the state of the client it points to
  registered,            \* the callbacks that are set
  stale,                 \* threads in sendFrame() of a client since destroyed
  object,                \* the handler itself: "alive", "dying", "destroyed"
  fate,                  \* "alive", or what ended the process
  lcu,                   \* the LCU process: "down", "starting", "listening"
  params_fresh,          \* the parameters last read are those of this process
  link,                  \* the connection of the client: "none", "up", "closed"
  pending,               \* messages that wait to be read from the connection
  exit_sent              \* the LCU has "Exit" to answer on the connection

flags == <<m_stop, m_is_state_connected>>
client == <<m_websocket, stale>>
peer == <<lcu, params_fresh, link, pending, exit_sent>>
vars == <<pc, api, flags, m_socket_mutex, client, registered, object, fate, peer>>

CallbackLabels == {"cb_connected", "cb_lost", "cb_stopped", "cb_message"}
LoopLabels == CallbackLabels \cup
  {"idle", "called", "check_stop", "stop_reset", "notify_stopped",
   "check_connected", "receive", "notify_lost", "reconnect", "get_params",
   "start", "notify_connected", "sleep"}
ApiLabels ==
  {"out", "send_check", "send_lock", "send_deref", "send_frame",
   "stop_set", "stop_check", "stop_deref", "stop_frame"}

ThreadsTypeOK ==
  /\ pc \in LoopLabels
  /\ api \in [Threads -> ApiLabels]
  /\ object \in {"alive", "dying", "destroyed"}
  /\ fate \in {"alive", "null_dereference", "use_after_free", "terminate"}

HandlerTypeOK ==
  /\ m_stop \in BOOLEAN /\ m_is_state_connected \in BOOLEAN
  /\ m_socket_mutex \in Threads \cup {NoThread}
  /\ m_websocket \in {"null", "unstarted", "connected", "disconnected"}
  /\ registered \subseteq {"connected", "disconnected", "message"}
  /\ stale \subseteq Threads

PeerTypeOK ==
  /\ lcu \in {"down", "starting", "listening"}
  /\ params_fresh \in BOOLEAN /\ exit_sent \in BOOLEAN
  /\ link \in {"none", "up", "closed"}
  /\ pending \in 0 .. MaxPending

\* The types of the variables; `pending` never counts below zero: the client
\* reads no more than the LCU has sent.
TypeOK == ThreadsTypeOK /\ HandlerTypeOK /\ PeerTypeOK

Init ==
  /\ pc = "idle" /\ api = [t \in Threads |-> "out"]
  /\ m_stop = FALSE /\ m_is_state_connected = FALSE
  /\ m_socket_mutex = NoThread /\ m_websocket = "null" /\ registered = {}
  /\ stale = {} /\ object = "alive" /\ fate = "alive"
  /\ lcu = "down" /\ params_fresh = FALSE
  /\ link = "none" /\ pending = 0 /\ exit_sent = FALSE

----------------------------------------------------------------------------
(* Steps of a thread, and the pieces the actions share.  A definition that  *)
(* is called faulty is the definition after it with a mistake that the code *)
(* does not make; it is no part of the specification.                       *)

\* Loop executes the line `from`, outside of a member function that a callback
\* has called, and goes on at `to`.
LoopAt(label) ==
  fate = "alive" /\ object # "destroyed" /\ pc = label /\ api[Loop] = "out"
LoopGoes(from, to) ==
  /\ LoopAt(from) /\ pc' = to
  /\ UNCHANGED <<api, registered, object, fate>>

\* The same for a thread in a member function.
ApiAt(t, label) == fate = "alive" /\ object # "destroyed" /\ api[t] = label
ApiGoes(t, from, to) ==
  /\ ApiAt(t, from) /\ api' = [api EXCEPT ![t] = to]
  /\ UNCHANGED <<pc, m_is_state_connected, client, registered, object, fate, lcu,
                 params_fresh, link, pending>>

\* The process ends: a dereference of a null or destroyed client, or an
\* exception that leaves a noexcept function.
Dies(how) ==
  /\ fate' = how
  /\ UNCHANGED <<pc, api, flags, m_socket_mutex, client, registered, object, peer>>

\* Faulty: the lock_guard of is_connected() and main_loop() is missing.
UnlockedAlways == TRUE
\* A thread that locks and unlocks m_socket_mutex around what is one step of
\* the model only has to find it free.
Unlocked == m_socket_mutex = NoThread

\* Faulty: the lock_guard is missing.
LockForgotten(t) == UNCHANGED m_socket_mutex
Lock(t) == Unlocked /\ m_socket_mutex' = t

\* Faulty: lock() without unlock().
UnlockForgotten == UNCHANGED m_socket_mutex
Unlock == m_socket_mutex' = NoThread

\* Faulty: m_websocket->is_connected() is not asked.
is_connected_pointer_only == m_websocket # "null"
is_connected == m_websocket = "connected"

\* Faulty: a client that could not be started is kept.
NeedsResetIfLost == m_websocket = "disconnected"
\* reconnect() drops a client that is not connected: one that start() failed
\* for, or one that has lost its connection.
NeedsReset == m_websocket \in {"unstarted", "disconnected"}

\* ~Https_websocket_client(): the connection goes with it, and a thread that
\* is still in sendFrame() works on freed memory.
DestroyClient ==
  /\ m_websocket' = "null"
  /\ stale' = stale \cup {t \in Threads : api[t] \in {"send_frame", "stop_frame"}}
  /\ link' = "none" /\ pending' = 0 /\ exit_sent' = FALSE
  /\ UNCHANGED <<lcu, params_fresh>>

\* The destructor runs stop(), whose shutdown() of a connected WebSocket
\* writes to the connection and may throw: the peer is gone, a send times out,
\* TLS fails.
ShutdownMayThrow == m_websocket = "connected"

\* Faulty: reads when nothing has arrived.
ReadUnguarded == pending' = pending - 1
ReadOne == pending > 0 /\ pending' = pending - 1

\* Faulty: m_connected is not cleared.
LossUnnoticed == UNCHANGED m_websocket
LossNoticed == m_websocket' = "disconnected"

\* Faulty: a callback whenever it is called, not when the state changes.
NotifyAlways(connected, from, entered, next) ==
  LET calls == (IF connected THEN "connected" ELSE "disconnected") \in registered
  IN  /\ LoopGoes(from, IF calls THEN entered ELSE next)
      /\ m_is_state_connected' = IF calls THEN m_is_state_connected ELSE connected
      /\ UNCHANGED <<m_stop, m_socket_mutex, client, peer>>
\* Faulty: m_is_state_connected is assigned only if there is a callback.
NotifyWithCallback(connected, from, entered, next) ==
  LET calls ==
        /\ m_is_state_connected # connected
        /\ (IF connected THEN "connected" ELSE "disconnected") \in registered
  IN  /\ LoopGoes(from, IF calls THEN entered ELSE next)
      /\ UNCHANGED <<flags, m_socket_mutex, client, peer>>
\* notify_connection_state_changed(connected): the registered callback, if
\* any, is entered at label `entered`, and m_is_state_connected is assigned
\* when it has returned.
Notify(connected, from, entered, next) ==
  LET calls ==
        /\ m_is_state_connected # connected
        /\ (IF connected THEN "connected" ELSE "disconnected") \in registered
  IN  /\ LoopGoes(from, IF calls THEN entered ELSE next)
      /\ m_is_state_connected' = IF calls THEN m_is_state_connected ELSE connected
      /\ UNCHANGED <<m_stop, m_socket_mutex, client, peer>>

----------------------------------------------------------------------------
(* The thread in run().                                                    *)

\* A thread has called run() and is about to execute its first statement.
Run ==
  /\ fate = "alive" /\ object = "alive" /\ pc = "idle"
  /\ pc' = "called"
  /\ UNCHANGED <<api, flags, m_socket_mutex, client, registered, object, fate, peer>>

EnterLoop ==
  /\ LoopGoes("called", "check_stop")
  /\ m_stop' = FALSE
  /\ UNCHANGED <<m_is_state_connected, m_socket_mutex, client, peer>>

\* Faulty: the client is not reset.
CheckStopKeepsClient ==
  /\ LoopGoes("check_stop", IF m_stop THEN "notify_stopped" ELSE "check_connected")
  /\ UNCHANGED <<flags, m_socket_mutex, client, peer>>
CheckStop ==
  /\ LoopGoes("check_stop", IF m_stop THEN "stop_reset" ELSE "check_connected")
  /\ UNCHANGED <<flags, m_socket_mutex, client, peer>>

StopReset ==
  /\ LoopGoes("stop_reset", "notify_stopped")
  /\ Unlocked /\ DestroyClient
  /\ UNCHANGED <<flags, m_socket_mutex>>

StopResetThrows ==
  /\ LoopAt("stop_reset") /\ Unlocked
  /\ ShutdownMayThrow /\ Dies("terminate")

NotifyStopped == Notify(FALSE, "notify_stopped", "cb_stopped", "idle")

\* Faulty: reconnect() without notify_connection_state_changed(false).
CheckConnectedUntold ==
  /\ LoopGoes("check_connected", IF is_connected THEN "receive" ELSE "reconnect")
  /\ Unlocked
  /\ UNCHANGED <<flags, m_socket_mutex, client, peer>>
CheckConnected ==
  /\ LoopGoes("check_connected", IF is_connected THEN "receive" ELSE "notify_lost")
  /\ Unlocked
  /\ UNCHANGED <<flags, m_socket_mutex, client, peer>>

\* receive_message() of the client returns a message, which is handed to the
\* callback or dropped.
ReceiveMessage ==
  /\ LoopGoes("receive", IF "message" \in registered THEN "cb_message" ELSE "check_stop")
  /\ ReadOne
  /\ UNCHANGED <<flags, m_socket_mutex, client, lcu, params_fresh, link, exit_sent>>

\* It throws and the client counts as connected still: the message has too
\* many frames, or nothing came within the time-out.
ReceiveNothing ==
  /\ LoopGoes("receive", "check_stop")
  /\ \/ ReadOne
     \/ ReceiveTimeouts /\ link = "up" /\ pending = 0 /\ UNCHANGED pending
  /\ UNCHANGED <<flags, m_socket_mutex, client, lcu, params_fresh, link, exit_sent>>

\* It throws and has cleared m_connected: the connection is closed, or what
\* was read is no valid frame.  m_socket_mutex is not taken for it.
ReceiveFails ==
  /\ LoopGoes("receive", "check_stop")
  /\ \/ link = "closed" /\ pending = 0 /\ UNCHANGED pending
     \/ ReadOne
  /\ LossNoticed
  /\ UNCHANGED <<flags, m_socket_mutex, stale, lcu, params_fresh, link, exit_sent>>

NotifyLost == Notify(FALSE, "notify_lost", "cb_lost", "reconnect")

\* reconnect() up to the test of m_websocket.  The lock is held until
\* reconnect() returns or throws.
ReconnectLock ==
  /\ IF NeedsReset THEN DestroyClient ELSE UNCHANGED <<client, peer>>
  /\ IF m_websocket' = "null"
       THEN LoopGoes("reconnect", "get_params") /\ Lock(Loop)
       ELSE LoopGoes("reconnect", "notify_connected") /\ Unlocked /\ UNCHANGED m_socket_mutex
  /\ UNCHANGED flags

\* The lookup is what LcuLookup.tla says of it, at one moment of the call.  An
\* LCU that is absent or has no parameters is an exception ...
LookupFails ==
  /\ lcu = "down" \/ LookupsFail
  /\ LoopGoes("get_params", "sleep") /\ Unlock
  /\ UNCHANGED <<flags, client, peer>>

\* ... and with its parameters a client is installed before it is started.
GetParams ==
  /\ lcu # "down"
  /\ LoopGoes("get_params", "start")
  /\ m_websocket' = "unstarted" /\ params_fresh' = TRUE
  /\ UNCHANGED <<flags, m_socket_mutex, stale, lcu, link, pending, exit_sent>>

\* start() of the client connects to the port that was read, or throws and
\* leaves the client behind: nobody listens there, or the handshake fails.
Start ==
  LET answered == lcu = "listening" /\ params_fresh
  IN  /\ \/ /\ answered /\ LoopGoes("start", "notify_connected")
            /\ m_websocket' = "connected" /\ link' = "up"
         \/ /\ ~answered \/ StartsFail
            /\ LoopGoes("start", "sleep")
            /\ UNCHANGED <<m_websocket, link>>
      /\ Unlock
      /\ UNCHANGED <<flags, stale, lcu, params_fresh, pending, exit_sent>>

NotifyConnected == Notify(TRUE, "notify_connected", "cb_connected", "check_stop")

\* event_loop_delay is over.
Sleep ==
  /\ LoopGoes("sleep", "check_stop")
  /\ UNCHANGED <<flags, m_socket_mutex, client, peer>>

CallbackReturn ==
  /\ \/ LoopGoes("cb_connected", "check_stop") /\ m_is_state_connected' = TRUE
     \/ LoopGoes("cb_message", "check_stop") /\ UNCHANGED m_is_state_connected
     \/ LoopGoes("cb_lost", "reconnect") /\ m_is_state_connected' = FALSE
     \/ LoopGoes("cb_stopped", "idle") /\ m_is_state_connected' = FALSE
  /\ UNCHANGED <<m_stop, m_socket_mutex, client, peer>>

\* receive_message() and reconnect_and_notify() swallow the exception of a
\* callback, without assigning m_is_state_connected ...
CallbackThrowCaught ==
  /\ CallbacksThrow
  /\ LoopGoes("cb_connected", "sleep") \/ LoopGoes("cb_message", "check_stop")
  /\ UNCHANGED <<flags, m_socket_mutex, client, peer>>

\* ... and from the two calls of notify_connection_state_changed(false) it
\* leaves run(), which is noexcept.
CallbackThrowTerminates ==
  /\ CallbacksThrow
  /\ LoopAt("cb_lost") \/ LoopAt("cb_stopped")
  /\ Dies("terminate")

\* run() goes on after the handler has been destroyed.
LoopTouchesDestroyed ==
  /\ fate = "alive" /\ object = "destroyed" /\ pc # "idle"
  /\ Dies("use_after_free")

----------------------------------------------------------------------------
(* The public member functions, called by Users, or by Loop in a callback. *)

MayCall(t, f) ==
  IF t = Loop THEN pc \in CallbackLabels /\ f \in CallbackCalls
              ELSE object = "alive" /\ f \in UserCalls

CallSend(t) ==
  /\ MayCall(t, "send") /\ ApiGoes(t, "out", "send_check")
  /\ UNCHANGED <<m_stop, m_socket_mutex, exit_sent>>

\* is_connected() takes the lock and releases it ...
SendCheck(t) ==
  /\ ApiGoes(t, "send_check", IF is_connected THEN "send_lock" ELSE "out")
  /\ Unlocked
  /\ UNCHANGED <<m_stop, m_socket_mutex, exit_sent>>

\* ... and send_message() takes it again.
SendLock(t) ==
  /\ ApiGoes(t, "send_lock", "send_deref") /\ Lock(t)
  /\ UNCHANGED <<m_stop, exit_sent>>

\* A client that was never started returns false without a frame.
SendDeref(t) ==
  /\ m_websocket # "null"
  /\ IF m_websocket = "unstarted"
       THEN ApiGoes(t, "send_deref", "out") /\ Unlock
       ELSE ApiGoes(t, "send_deref", "send_frame") /\ UNCHANGED m_socket_mutex
  /\ UNCHANGED <<m_stop, exit_sent>>

SendFrame(t) ==
  /\ ApiGoes(t, "send_frame", "out") /\ t \notin stale
  /\ Unlock
  /\ UNCHANGED <<m_stop, exit_sent>>

CallStop(t) ==
  /\ MayCall(t, "stop") /\ ApiGoes(t, "out", "stop_set")
  /\ UNCHANGED <<m_stop, m_socket_mutex, exit_sent>>

StopSet(t) ==
  /\ ApiGoes(t, "stop_set", "stop_check")
  /\ m_stop' = TRUE
  /\ UNCHANGED <<m_socket_mutex, exit_sent>>

\* Faulty: it is left to the loop to notice m_stop.
StopCheckOnly(t) ==
  /\ ApiGoes(t, "stop_check", "out") /\ Unlocked
  /\ UNCHANGED <<m_stop, m_socket_mutex, exit_sent>>
StopCheck(t) ==
  /\ ApiGoes(t, "stop_check", IF is_connected THEN "stop_deref" ELSE "out")
  /\ Unlocked
  /\ UNCHANGED <<m_stop, m_socket_mutex, exit_sent>>

\* m_websocket is dereferenced without the lock.
StopDeref(t) ==
  /\ m_websocket # "null"
  /\ ApiGoes(t, "stop_deref", IF m_websocket = "unstarted" THEN "out" ELSE "stop_frame")
  /\ UNCHANGED <<m_stop, m_socket_mutex, exit_sent>>

\* What stop() sends is no WAMP message: the LCU will answer or hang up.
StopFrame(t) ==
  /\ ApiGoes(t, "stop_frame", "out") /\ t \notin stale
  /\ exit_sent' = (exit_sent \/ link = "up")
  /\ UNCHANGED <<m_stop, m_socket_mutex>>

DerefNull(t) ==
  /\ ApiAt(t, "send_deref") \/ ApiAt(t, "stop_deref")
  /\ m_websocket = "null" /\ Dies("null_dereference")

\* sendFrame() runs on a client that the loop has destroyed meanwhile, or
\* throws from a function that is noexcept: the connection is closed, a send
\* times out, TLS fails.
FrameFails(t) ==
  /\ ApiAt(t, "send_frame") \/ ApiAt(t, "stop_frame")
  /\ \/ t \in stale /\ Dies("use_after_free")
     \/ t \notin stale /\ Dies("terminate")

\* The destructor, called by the last user of the handler: it runs stop() and
\* destroys the members, whether or not a thread is in run().
UsersOut == \A u \in Users : api[u] = "out"

CallDestroy(u) ==
  /\ ApiAt(u, "out") /\ MayCall(u, "destroy") /\ UsersOut
  /\ object' = "dying" /\ api' = [api EXCEPT ![u] = "stop_set"]
  /\ UNCHANGED <<pc, flags, m_socket_mutex, client, registered, fate, peer>>

DestroyMembers ==
  /\ fate = "alive" /\ object = "dying" /\ UsersOut
  /\ object' = "destroyed" /\ DestroyClient
  /\ UNCHANGED <<pc, api, flags, m_socket_mutex, registered, fate>>

DestroyMembersThrows ==
  /\ fate = "alive" /\ object = "dying" /\ UsersOut
  /\ ShutdownMayThrow /\ Dies("terminate")

\* Callbacks are registered while no thread is in run(): the members are
\* assigned without a lock.
Register(c) ==
  /\ fate = "alive" /\ object = "alive" /\ pc = "idle"
  /\ registered' = registered \cup {c}
  /\ UNCHANGED <<pc, api, flags, m_socket_mutex, client, object, fate, peer>>

----------------------------------------------------------------------------
(* The LCU, a process of its own, and its end of the connection.           *)

PeerStep ==
  /\ fate = "alive" /\ object # "destroyed"
  /\ UNCHANGED <<pc, api, flags, m_socket_mutex, client, registered, object, fate>>

LcuLaunch ==
  /\ PeerStep /\ lcu = "down" /\ lcu' = "starting"
  /\ UNCHANGED <<params_fresh, link, pending, exit_sent>>

LcuListen ==
  /\ PeerStep /\ lcu = "starting" /\ lcu' = "listening"
  /\ UNCHANGED <<params_fresh, link, pending, exit_sent>>

\* The next LCU has another port and another token.
LcuExit ==
  /\ PeerStep /\ lcu # "down" /\ lcu' = "down"
  /\ params_fresh' = FALSE
  /\ link' = IF link = "up" THEN "closed" ELSE link
  /\ UNCHANGED <<pending, exit_sent>>

\* The connection ends; what has not been read may be lost.
LinkDrop ==
  /\ PeerStep /\ link = "up" /\ link' = "closed"
  /\ pending' \in {0, pending}
  /\ UNCHANGED <<lcu, params_fresh, exit_sent>>

ServerSend ==
  /\ PeerStep /\ link = "up"
  /\ pending < MaxPending /\ pending' = pending + 1
  /\ UNCHANGED <<lcu, params_fresh, link, exit_sent>>

\* "any message will do" (stop()): the LCU answers "Exit", or hangs up.
AnswerExit ==
  /\ PeerStep /\ link = "up" /\ exit_sent /\ exit_sent' = FALSE
  /\ \/ pending < MaxPending /\ pending' = pending + 1 /\ UNCHANGED link
     \/ link' = "closed" /\ UNCHANGED pending
  /\ UNCHANGED <<lcu, params_fresh>>

----------------------------------------------------------------------------

\* A dead process and a destroyed handler make no further step.
Done ==
  /\ fate # "alive" \/ (object = "destroyed" /\ pc = "idle")
  /\ UNCHANGED vars

LoopStep ==
  \/ EnterLoop \/ CheckStop \/ StopReset \/ StopResetThrows \/ NotifyStopped
  \/ CheckConnected \/ ReceiveMessage \/ ReceiveNothing \/ ReceiveFails
  \/ NotifyLost \/ ReconnectLock \/ LookupFails \/ GetParams \/ Start
  \/ NotifyConnected \/ Sleep \/ CallbackReturn \/ CallbackThrowCaught \/ CallbackThrowTerminates
  \/ LoopTouchesDestroyed

\* A thread that has called a member function goes on with it.
ApiStep(t) ==
  \/ SendCheck(t) \/ SendLock(t) \/ SendDeref(t) \/ SendFrame(t)
  \/ StopSet(t) \/ StopCheck(t) \/ StopDeref(t) \/ StopFrame(t)
  \/ DerefNull(t) \/ FrameFails(t)

PeerNext == LcuLaunch \/ LcuListen \/ LcuExit \/ LinkDrop \/ ServerSend \/ AnswerExit

Next ==
  \/ Run \/ LoopStep
  \/ \E t \in Threads : CallSend(t) \/ CallStop(t) \/ ApiStep(t)
  \/ \E u \in Users : CallDestroy(u)
  \/ DestroyMembers \/ DestroyMembersThrows
  \/ \E c \in {"connected", "disconnected", "message"} : Register(c)
  \/ PeerNext
  \/ Done

Spec == Init /\ [][Next]_vars

\* Every thread inside the handler is scheduled, a mutex that is free again
\* and again is obtained, a callback returns, and "Exit" is answered.  Nobody
\* has to call anything, and nothing is assumed of the LCU otherwise.
Fairness ==
  /\ SF_vars(LoopStep)
  /\ \A t \in Threads : SF_vars(ApiStep(t))
  /\ WF_vars(DestroyMembers)
  /\ WF_vars(AnswerExit)

FairSpec == Spec /\ Fairness

----------------------------------------------------------------------------
(* Properties.                                                             *)

\* main_loop() tests is_connected() and dereferences m_websocket afterwards,
\* without the lock (l.131, l.91): the client must be there and connected.
LoopNeverReadsNull ==
  pc = "receive" /\ object # "destroyed" => m_websocket = "connected"

\* m_on_connected() is called for a client that was connected, never for one
\* that a failed start() left in m_websocket (l.47-58, l.109).
ConnectedIsReal ==
  pc \in {"notify_connected", "cb_connected"} /\ object # "destroyed"
    => m_websocket = "connected"

\* send_message() works on m_websocket under the lock (l.163-164): the loop
\* must not destroy the client before sendFrame() is done.
SendNeverUsesDestroyedClient ==
  \A t \in stale : api[t] = "send_frame" => object = "destroyed"

\* From its lock to the end of its frame a thread in send_message() is alone: no
\* other is there, whose frame would come in the middle of this one, and the
\* loop is not in reconnect().  Only stop() writes beside it, without the lock
\* (l.39, l.45, l.163-164).
SenderIsAlone ==
  \A t \in Threads :
    api[t] \in {"send_deref", "send_frame"} =>
      /\ pc \notin {"get_params", "start"}
      /\ \A u \in Threads \ {t} : api[u] \notin {"send_deref", "send_frame"}

\* While a thread holds m_socket_mutex in send_message(), the loop neither
\* replaces nor destroys the client; it may only lose its connection, as
\* receive_message() clears m_connected without the lock.
StableWhileLocked ==
  [][/\ m_socket_mutex \in Users
     /\ m_websocket' # m_websocket
     => <<m_websocket, m_websocket'>> = <<"connected", "disconnected">>]_vars

\* The thread that owns m_socket_mutex never waits for it (std::mutex is not
\* recursive): reconnect() has released it before a callback is called, and
\* callbacks may call send_message() and stop().
OwnerNeverWaits ==
  /\ m_socket_mutex = Loop => \/ pc \in {"get_params", "start"}
                              \/ api[Loop] \in {"send_deref", "send_frame"}
  /\ \A u \in Users : m_socket_mutex = u => api[u] \in {"send_deref", "send_frame"}

\* When run() returns, the application has been told of the disconnection and
\* the connection is dropped (l.121-128).
RunEndsDisconnected ==
  pc = "idle" => ~m_is_state_connected /\ m_websocket = "null"

\* The application knows of the loss of a connection before the loop works on
\* the next one (l.103-110), callbacks that throw or not: a loss that is passed
\* over would make notify_connection_state_changed(true) pass over the new
\* connection, too.
LossIsToldFirst ==
  pc \in {"reconnect", "get_params", "start", "sleep", "notify_connected", "cb_connected"}
    => ~m_is_state_connected

\* The application knows of a connection before the loop receives from it, and
\* the loss of a connection it knows of is reported: m_is_state_connected
\* follows the client (l.45-59, l.69-84, l.110).
ConnectionIsTold ==
  m_websocket = "connected" /\ object # "destroyed"
    => m_is_state_connected \/ pc \in {"notify_connected", "cb_connected"}

\* The callbacks follow the protocol of ConnectionEvents.tla.
ongoing ==
  CASE pc = "cb_connected" -> "connected"
    [] pc \in {"cb_lost", "cb_stopped"} -> "disconnected"
    [] pc = "cb_message" -> "message"
    [] OTHER -> "none"

Events == INSTANCE ConnectionEvents WITH up <- m_is_state_connected, cb <- ongoing
EventProtocol == Events!Spec

\* They are true of the connection, which is made and given up only between
\* them: it stays while on_connected or on_message runs, is gone in
\* on_disconnected, and the next one is not made before (l.45-59, l.69-84,
\* l.103-110).  That is what Lcu_wamp_handler is written against.
Reported == INSTANCE ReportedConnection WITH
  up <- m_is_state_connected, cb <- ongoing, connected <- m_websocket = "connected"
ReportsConnection == Reported!Spec

\* What the loop and its peer do to the client and its connection is what
\* HttpsWebsocketClient implements frame by frame: a client is started once,
\* asked for messages only while it is connected, and disconnected only by what
\* is read or at the end of the connection (l.51-58, l.88-98, l.131-134).
Contract == INSTANCE ClientContract WITH
  client <- IF m_websocket = "null" THEN "unstarted" ELSE m_websocket
UsesClientByContract == Contract!Spec

\* A callback is called for a connected client, and it is the loop's own thread
\* that could drop it: send_message() and stop() called from a callback find the
\* client there at every step, although both let go of the lock after
\* is_connected() (l.161-164, l.38-39).
CallbackCallsFindClient ==
  api[Loop] \in {"send_lock", "send_deref", "send_frame", "stop_deref", "stop_frame"}
    /\ object # "destroyed" => m_websocket = "connected"

\* A stop() that is seen by the loop ends run(): the loop leaves
\* receive_message() although nothing else arrives (l.35-39), and does not
\* wait for the next connection (l.121).
StopTerminates ==
  m_stop /\ pc \notin {"idle", "called"}
    ~> pc = "idle" \/ fate # "alive" \/ object = "destroyed"

\* No wake-up is lost: a loop that would block in receive_message() although
\* m_stop is set has something to read, or to come from the LCU, or the thread
\* in stop() is about to send "Exit" (l.35-39, l.121, l.131).
StopWakesLoop ==
  m_stop /\ pc = "receive" /\ object # "destroyed"
    => \/ pending > 0 \/ link = "closed" \/ exit_sent
       \/ \E t \in Threads : api[t] \in {"stop_check", "stop_deref", "stop_frame"}

\* run() keeps the connection: while the LCU listens, the loop is connected
\* again and again, whatever attempts have failed before (l.45-59, l.103-115).
Reconnects ==
  <>[](lcu = "listening") =>
    []<>(m_websocket = "connected" \/ pc = "idle" \/ fate # "alive" \/ object # "alive")

\* "registered callback will be called every time LCU is disconnected from"
\* (lcu_websocket_handler.h:104-106): a connection that ends is reported, by
\* the next reconnect_and_notify() (l.105) or at the end of run() (l.127).
DisconnectionIsReported ==
  link = "closed" /\ m_websocket = "connected" /\ "disconnected" \in registered
    ~> pc \in {"cb_lost", "cb_stopped"} \/ fate # "alive" \/ object = "destroyed"

\* send_message() and stop() return to their caller: nobody keeps the mutex.
CallsReturn ==
  \A t \in Threads :
    api[t] # "out" ~> api[t] = "out" \/ fate # "alive" \/ object = "destroyed"

\* send_message() "returns true if message is sent successfully, false
\* otherwise" (lcu_websocket_handler.h:117), and is noexcept.
SendReturnsABoolean == fate # "null_dereference"

\* "Will not return unless stop() is called" (lcu_websocket_handler.h:48-49),
\* and stop() "does nothing" only if "none of threads called run()" (63-65):
\* one that takes effect after run() has been called must end it.
StopIsNeverLost ==
  \A u \in Users :
    api[u] = "stop_set" /\ pc # "idle"
      ~> pc = "idle" \/ fate # "alive" \/ object = "destroyed"

============================================================================
