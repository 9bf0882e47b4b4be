----------------------- MODULE HttpsWebsocketClient -----------------------
(***************************************************************************)
(* Https_websocket_client: how receive_message() puts a message together   *)
(* from WebSocket frames, and what a control frame, a time-out, the limit  *)
(* on frames and the end of the connection make of it.  The caller is the  *)
(* event loop of Lcu_websocket_handler: one thread, which receives while   *)
(* is_connected() and destroys the client afterwards.  send_message() has  *)
(* no effect on the state here.                                            *)
(***************************************************************************)
EXTENDS Naturals, Sequences

CONSTANTS
  max_frames_per_message,  \* 255
  CounterValues,           \* the values of the counter i, a uint8_t: 256
  Disturbances,            \* what else happens: of {"control", "timeout", "empty", "invalid"}
  MaxMessages,             \* bound: messages the LCU sends
  MaxParts,                \* bound: frames in one of them
  MaxWire                  \* bound: frames sent and not yet read

ASSUME LimitAssumption ==
  /\ max_frames_per_message \in Nat \ {0}
  /\ CounterValues \in Nat /\ max_frames_per_message < CounterValues
ASSUME DisturbanceAssumption ==
  Disturbances \subseteq {"control", "timeout", "empty", "invalid"}
ASSUME BoundAssumption ==
  MaxMessages \in Nat \ {0} /\ MaxParts \in Nat \ {0} /\ MaxWire \in Nat \ {0}

VARIABLES
  m_websocket,     \* whether it is set
  m_connected,
  pc,              \* "out", or "receive" in the loop of receive_message()
  i,               \* its counter
  message_buffer,  \* the frames read in this or in the last call
  link,            \* "none", "up", "closed"
  wire,            \* the frames on the way
  sent,            \* the last frame of a message the LCU has sent
  returned,        \* history: what receive_message() returned last
  whole,           \* history: the messages returned whole
  damaged          \* history: the messages cut, or lost with a connection

call == <<pc, i, message_buffer>>
history == <<returned, whole>>
vars == <<m_websocket, m_connected, call, link, wire, sent, history, damaged>>

\* A frame of message `msg`: an "empty" one is a continuation without payload
\* and without FIN; "invalid" ones are too large or violate the protocol.  A
\* "control" frame is a ping, a pong or a close and belongs to no message.
Frame ==
  [kind : {"data", "empty", "invalid", "control"}, msg : Nat, part : Nat, fin : BOOLEAN]
ControlFrame == [kind |-> "control", msg |-> 0, part |-> 0, fin |-> TRUE]

\* The types; the counter never leaves the range the loop condition gives it.
TypeOK ==
  /\ m_websocket \in BOOLEAN /\ m_connected \in BOOLEAN
  /\ pc \in {"out", "receive"}
  /\ i \in 0 .. max_frames_per_message - 1
  /\ message_buffer \in Seq(Frame) /\ wire \in Seq(Frame) /\ returned \in Seq(Frame)
  /\ link \in {"none", "up", "closed"}
  /\ sent \in Frame
  /\ whole \subseteq Nat /\ damaged \subseteq Nat

Init ==
  /\ m_websocket = FALSE /\ m_connected = FALSE
  /\ pc = "out" /\ i = 0 /\ message_buffer = <<>>
  /\ link = "none" /\ wire = <<>>
  /\ sent = [ControlFrame EXCEPT !.kind = "data"]
  /\ returned = <<>> /\ whole = {} /\ damaged = {}

MessagesIn(frames) == {frames[k].msg : k \in DOMAIN frames} \ {0}

\* The messages that frames read in one call begin or continue and do not end.
CutIn(frames) ==
  {m \in MessagesIn(frames) :
     \A k \in DOMAIN frames :
       frames[k].msg = m => frames[k].kind # "data" \/ ~frames[k].fin}

\* The frames of a message: all of them, in order, and nothing else.
IsWhole(frames) ==
  /\ frames # <<>> /\ frames[Len(frames)].fin
  /\ \A k \in DOMAIN frames : frames[k].part = k /\ frames[k].msg = frames[1].msg

----------------------------------------------------------------------------
(* A definition called faulty is the definition after it with a mistake    *)
(* that the code does not make.                                            *)

Start ==
  /\ ~m_websocket /\ pc = "out"
  /\ m_websocket' = TRUE /\ m_connected' = TRUE
  /\ link' = "up"
  /\ UNCHANGED <<call, wire, sent, history, damaged>>

\* The destructor runs stop(); the next client has a new connection.
Destroy ==
  /\ m_websocket /\ pc = "out"
  /\ m_websocket' = FALSE /\ m_connected' = FALSE
  /\ link' = "none" /\ wire' = <<>>
  /\ sent' = [sent EXCEPT !.fin = TRUE]
  /\ damaged' = damaged \cup MessagesIn(wire) \cup (IF sent.fin THEN {} ELSE {sent.msg})
  /\ UNCHANGED <<call, history>>

\* Faulty: the buffer outlives the call.
KeepBuffer == UNCHANGED message_buffer
FreshBuffer == message_buffer' = <<>>

\* main_loop() calls receive_message() of a connected client.
ReceiveCall ==
  /\ pc = "out" /\ m_connected
  /\ pc' = "receive" /\ i' = 0 /\ FreshBuffer
  /\ UNCHANGED <<m_websocket, m_connected, link, wire, sent, history, damaged>>

\* What reading the frame reports: an exception, or what Poco returns for a
\* closed connection, a length and flags of 0.
Breaks(f) == f.kind \in {"empty", "invalid"}

EndsMessage(f) == f.fin

\* i < max_frames_per_message after ++i, which is modulo CounterValues.
\* Faulty: one frame more, which the counter cannot count to.
WithinLimitOrAt(n) ==
  (IF n + 1 = CounterValues THEN 0 ELSE n + 1) <= max_frames_per_message
WithinLimit(n) ==
  (IF n + 1 = CounterValues THEN 0 ELSE n + 1) < max_frames_per_message

\* The call ends without a message: what has been read of one is lost.
Abandon(frames) ==
  /\ pc' = "out"
  /\ damaged' = damaged \cup CutIn(frames)
  /\ UNCHANGED <<i, history>>

\* A control frame ends the message that is being read, too.
Return(frames) ==
  /\ pc' = "out"
  /\ returned' = frames
  /\ whole' = IF IsWhole(frames) THEN whole \cup MessagesIn(frames) ELSE whole
  /\ damaged' = damaged \cup CutIn(frames)
  /\ UNCHANGED i

ReadLoop(f) ==
  /\ pc' = pc
  /\ i' = IF i + 1 = CounterValues THEN 0 ELSE i + 1
  /\ UNCHANGED <<history, damaged>>

\* Faulty: a message of max_frames_per_message frames counts as too long.
HandleLimitFirst(f) ==
  LET frames == Append(message_buffer, f)
  IN  \/ ~WithinLimit(i) /\ Abandon(frames)
      \/ WithinLimit(i) /\ EndsMessage(f) /\ Return(frames)
      \/ WithinLimit(i) /\ ~EndsMessage(f) /\ ReadLoop(f)
\* One iteration: FIN ends the loop with a message, and the limit with
\* Message_exception.
Handle(f) ==
  LET frames == Append(message_buffer, f)
  IN  \/ EndsMessage(f) /\ Return(frames)
      \/ ~EndsMessage(f) /\ ~WithinLimit(i) /\ Abandon(frames)
      \/ ~EndsMessage(f) /\ WithinLimit(i) /\ ReadLoop(f)

ReadFrame ==
  /\ pc = "receive" /\ wire # <<>> /\ ~Breaks(Head(wire))
  /\ wire' = Tail(wire)
  /\ message_buffer' = Append(message_buffer, Head(wire))
  /\ Handle(Head(wire))
  /\ UNCHANGED <<m_websocket, m_connected, link, sent>>

ReadBroken ==
  /\ pc = "receive" /\ wire # <<>> /\ Breaks(Head(wire))
  /\ wire' = Tail(wire) /\ m_connected' = FALSE
  /\ Abandon(Append(message_buffer, Head(wire)))
  /\ UNCHANGED <<m_websocket, message_buffer, link, sent>>

NoticeLoss ==
  /\ pc = "receive" /\ wire = <<>> /\ link = "closed"
  /\ m_connected' = FALSE
  /\ Abandon(message_buffer)
  /\ UNCHANGED <<m_websocket, message_buffer, link, wire, sent>>

\* Faulty: Poco::TimeoutException is handled like every other exception.
TimeoutDisconnects == m_connected' = FALSE
TimeoutKeepsConnection == UNCHANGED m_connected

\* Poco::TimeoutException: the client stays connected, and the exception the
\* caller sees says that it is not started.
ReceiveTimeout ==
  /\ "timeout" \in Disturbances
  /\ pc = "receive" /\ wire = <<>> /\ link = "up"
  /\ TimeoutKeepsConnection
  /\ Abandon(message_buffer)
  /\ UNCHANGED <<m_websocket, message_buffer, link, wire, sent>>

----------------------------------------------------------------------------
(* The LCU and the connection.                                             *)

Peer ==
  /\ link = "up"
  /\ UNCHANGED <<m_websocket, m_connected, call, history>>

\* The next frame of the message begun, or the first of the next message.
SendData ==
  /\ Peer /\ Len(wire) < MaxWire
  /\ \E f \in [kind : {"data"} \cup (Disturbances \cap {"empty", "invalid"}),
               msg : {IF sent.fin THEN sent.msg + 1 ELSE sent.msg},
               part : {IF sent.fin THEN 1 ELSE sent.part + 1},
               fin : BOOLEAN] :
       /\ f.msg <= MaxMessages /\ f.part <= MaxParts
       /\ f.part = MaxParts => f.fin
       /\ f.kind = "empty" => f.part > 1 /\ ~f.fin
       /\ sent' = f /\ wire' = Append(wire, f)
  /\ UNCHANGED <<link, damaged>>

SendControl ==
  /\ Peer /\ Len(wire) < MaxWire
  /\ "control" \in Disturbances
  /\ wire' = Append(wire, ControlFrame)
  /\ UNCHANGED <<link, sent, damaged>>

\* What has not been read may be lost with the connection.
LinkClose ==
  /\ Peer /\ link' = "closed"
  /\ \/ UNCHANGED <<wire, damaged>>
     \/ wire' = <<>> /\ damaged' = damaged \cup MessagesIn(wire)
  /\ UNCHANGED sent

----------------------------------------------------------------------------

Receive == ReadFrame \/ ReadBroken \/ NoticeLoss \/ ReceiveTimeout

Next ==
  \/ Start \/ Destroy \/ ReceiveCall \/ Receive
  \/ SendData \/ SendControl \/ LinkClose

Spec == Init /\ [][Next]_vars

----------------------------------------------------------------------------
(* Properties.                                                             *)

\* What a call of receive_message() has read is never more than
\* max_frames_per_message frames (l.108): the counter, a uint8_t, reaches the
\* limit, and an endless message does not keep the event loop for ever.
BufferBounded == Len(message_buffer) <= max_frames_per_message

\* The data that is returned is of one message, in the order it was sent,
\* whatever has disturbed the calls before: no frame of one message is taken
\* for the rest of another (l.104-123).
OneMessageAtATime ==
  \A k, l \in DOMAIN returned :
    returned[k].kind = "data" /\ returned[l].kind = "data" =>
      /\ returned[k].msg = returned[l].msg
      /\ returned[l].part - returned[k].part = l - k

\* Only a message that a call has cut is returned in pieces: the client is in
\* step with the messages again as soon as the next one begins.
UncutIsWhole ==
  MessagesIn(returned) \subseteq damaged \/ IsWhole(returned)

\* A message that has been sent completely is on its way, being read, or has
\* been returned whole, unless a call has cut it or its connection is lost.
NothingLost ==
  \A m \in 1 .. sent.msg :
    (m < sent.msg \/ sent.fin) /\ m \notin damaged =>
      m \in MessagesIn(wire) \cup whole
        \cup (IF pc = "receive" THEN MessagesIn(message_buffer) ELSE {})

\* The calls of receive_message() that frames have ended when they have been
\* read, and the counter of the call that reads the next one.
ReadNext(after, f) ==
  IF Breaks(f) \/ EndsMessage(f) \/ ~WithinLimit(after.i)
    THEN [i |-> 0, n |-> after.n + 1]
    ELSE [i |-> after.i + 1, n |-> after.n]
Reading(start, frames) ==
  LET after[k \in 0 .. Len(frames)] ==
        IF k = 0 THEN [i |-> start, n |-> 0] ELSE ReadNext(after[k - 1], frames[k])
  IN  after
CallsEndedBy(start, frames) == Reading(start, frames)[Len(frames)].n

\* What the event loop relies on: pending things are the frames that will end
\* a call of receive_message(), each of which makes it return or throw.
Counter == IF pc = "receive" THEN i ELSE 0
Contract == INSTANCE ClientContract WITH
  client <- IF ~m_websocket THEN "unstarted"
            ELSE IF m_connected THEN "connected" ELSE "disconnected",
  pending <- CallsEndedBy(Counter, wire)
KeepsContract == Contract!Spec

\* "registered callback will be called every time message is received over
\* websocket. Message contents will be passed" (lcu_websocket_handler.h:75-77).
ReturnsMessages == returned # <<>> => IsWhole(returned)

============================================================================
