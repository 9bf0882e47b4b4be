-------------------- MODULE HttpsWebsocketClientProofs --------------------
(***************************************************************************)
(* Https_websocket_client, for every limit on the frames of a message,     *)
(* every counter that can count to it, and every combination of            *)
(* disturbances.                                                           *)
(***************************************************************************)
EXTENDS HttpsWebsocketClient, TLAPS

\* While receive_message() is in its loop, the counter tells how many frames
\* are in the buffer, and it is below the limit.
Counted ==
  /\ Len(message_buffer) <= max_frames_per_message
  /\ pc = "receive" => Len(message_buffer) = i

Inv == TypeOK /\ Counted

\* ++i of the loop does not wrap below the limit, which it reaches.
LEMMA CounterReachesLimit ==
  ASSUME NEW n \in 0 .. max_frames_per_message - 1
  PROVE  /\ n + 1 # CounterValues
         /\ WithinLimit(n) <=> n + 1 < max_frames_per_message
BY LimitAssumption DEF WithinLimit

LEMMA MessagesAreNumbers ==
  ASSUME NEW frames \in Seq(Frame)
  PROVE  MessagesIn(frames) \subseteq Nat /\ CutIn(frames) \subseteq Nat
PROOF
<1>1. ASSUME NEW k \in DOMAIN frames PROVE frames[k].msg \in Nat
  <2>1. frames[k] \in Frame BY <1>1
  <2>2. QED BY <2>1 DEF Frame
<1>2. MessagesIn(frames) \subseteq Nat
  BY <1>1, Zenon DEF MessagesIn
<1>3. CutIn(frames) \subseteq MessagesIn(frames)
  BY DEF CutIn
<1>4. QED BY <1>2, <1>3

LEMMA InitInv == Init => Inv
PROOF
<1> SUFFICES ASSUME Init PROVE Inv
  OBVIOUS
<1>1. <<>> \in Seq(Frame) /\ Len(<<>>) = 0
  OBVIOUS
<1>2. 0 \in 0 .. max_frames_per_message - 1 /\ max_frames_per_message \in Nat
  BY LimitAssumption
<1>3. sent \in Frame
  BY DEF Init, ControlFrame, Frame
<1>4. TypeOK
  <2>1. /\ message_buffer \in Seq(Frame) /\ wire \in Seq(Frame)
        /\ returned \in Seq(Frame)
    BY <1>1, Zenon DEF Init
  <2>2. /\ m_websocket \in BOOLEAN /\ m_connected \in BOOLEAN
        /\ pc \in {"out", "receive"} /\ link \in {"none", "up", "closed"}
        /\ whole \subseteq Nat /\ damaged \subseteq Nat
    BY DEF Init
  <2>3. i \in 0 .. max_frames_per_message - 1
    BY <1>2 DEF Init
  <2>4. QED BY <1>3, <2>1, <2>2, <2>3, Zenon DEF TypeOK
<1>5. Counted
  BY <1>1, <1>2 DEF Init, Counted
<1>6. QED BY <1>4, <1>5 DEF Inv

\* The outcomes of a frame: the call ends, or the next iteration begins.
LEMMA HandleInv ==
  ASSUME Inv, pc = "receive", NEW f \in Frame,
         message_buffer' = Append(message_buffer, f), Handle(f)
  PROVE  /\ pc' \in {"out", "receive"}
         /\ i' \in 0 .. max_frames_per_message - 1
         /\ returned' \in Seq(Frame)
         /\ whole' \subseteq Nat /\ damaged' \subseteq Nat
         /\ Counted'
PROOF
<1> DEFINE frames == Append(message_buffer, f)
<1>0. TypeOK /\ Counted BY DEF Inv
<1>1. frames \in Seq(Frame) /\ Len(frames) = i + 1
  BY <1>0 DEF TypeOK, Counted
<1>2. i \in 0 .. max_frames_per_message - 1 /\ max_frames_per_message \in Nat
  BY <1>0, LimitAssumption DEF TypeOK
<1>3. MessagesIn(frames) \subseteq Nat /\ CutIn(frames) \subseteq Nat
  BY <1>1, MessagesAreNumbers
<1>4. CASE Return(frames)
  <2>1. whole' \subseteq Nat
    BY <1>0, <1>3, <1>4, Zenon DEF Return, TypeOK
  <2>2. damaged' \subseteq Nat
    BY <1>0, <1>3, <1>4, Zenon DEF Return, TypeOK
  <2>3. pc' = "out" /\ returned' = frames /\ i' = i
    BY <1>4 DEF Return
  <2>4. QED BY <1>1, <1>2, <2>1, <2>2, <2>3 DEF Counted
<1>5. CASE Abandon(frames)
  <2>1. damaged' \subseteq Nat
    BY <1>0, <1>3, <1>5, Zenon DEF Abandon, TypeOK
  <2>2. pc' = "out" /\ i' = i /\ returned' = returned /\ whole' = whole
    BY <1>5 DEF Abandon, history
  <2>3. returned \in Seq(Frame) /\ whole \subseteq Nat
    BY <1>0 DEF TypeOK
  <2>4. QED BY <1>1, <1>2, <2>1, <2>2, <2>3 DEF Counted
<1>6. CASE WithinLimit(i) /\ ReadLoop(f)
  <2>1. i + 1 # CounterValues /\ i + 1 < max_frames_per_message
    BY <1>2, <1>6, CounterReachesLimit
  <2>2. i' = i + 1 /\ pc' = pc /\ UNCHANGED <<history, damaged>>
    BY <1>6, <2>1 DEF ReadLoop
  <2>3. QED BY <1>0, <1>1, <1>2, <2>1, <2>2 DEF TypeOK, Counted, history
<1>7. QED BY <1>4, <1>5, <1>6 DEF Handle

LEMMA NextInv == Inv /\ [Next]_vars => Inv'
PROOF
<1> SUFFICES ASSUME Inv, [Next]_vars PROVE Inv'
  OBVIOUS
<1>0. TypeOK /\ Counted BY DEF Inv
<1>0a. 0 \in 0 .. max_frames_per_message - 1 /\ max_frames_per_message \in Nat
  BY LimitAssumption
<1>1. CASE Start
  BY <1>0, <1>1 DEF Start, Inv, TypeOK, Counted, call, history
<1>2. CASE Destroy
  <2>1. MessagesIn(wire) \subseteq Nat /\ sent.msg \in Nat
    BY <1>0, MessagesAreNumbers DEF TypeOK, Frame
  <2>2. sent' \in Frame
    BY <1>0, <1>2 DEF Destroy, TypeOK, Frame
  <2>3. damaged' \subseteq Nat
    <3>1. {sent.msg} \subseteq Nat BY <2>1
    <3>2. damaged \subseteq Nat BY <1>0 DEF TypeOK
    <3>3. QED BY <1>2, <2>1, <3>1, <3>2, Zenon DEF Destroy
  <2>4. <<>> \in Seq(Frame)
    OBVIOUS
  <2>5. QED
    BY <1>0, <1>2, <2>2, <2>3, <2>4 DEF Destroy, Inv, TypeOK, Counted, call, history
<1>3. CASE ReceiveCall
  BY <1>0, <1>0a, <1>3 DEF ReceiveCall, FreshBuffer, Inv, TypeOK, Counted, history
<1>4. CASE ReadFrame
  <2>1. Head(wire) \in Frame /\ Tail(wire) \in Seq(Frame)
    BY <1>0, <1>4 DEF ReadFrame, TypeOK
  <2>2. Append(message_buffer, Head(wire)) \in Seq(Frame)
    BY <1>0, <2>1 DEF TypeOK
  <2>3. /\ pc' \in {"out", "receive"} /\ i' \in 0 .. max_frames_per_message - 1
        /\ returned' \in Seq(Frame) /\ whole' \subseteq Nat /\ damaged' \subseteq Nat
        /\ Counted'
    BY <1>4, <2>1, HandleInv DEF ReadFrame
  <2>4. QED BY <1>0, <1>4, <2>1, <2>2, <2>3 DEF ReadFrame, Inv, TypeOK
<1>5. CASE ReadBroken \/ NoticeLoss \/ ReceiveTimeout
  <2>1. CutIn(message_buffer) \subseteq Nat
    BY <1>0, MessagesAreNumbers DEF TypeOK
  <2>2. CASE ReadBroken
    <3>1. Append(message_buffer, Head(wire)) \in Seq(Frame) /\ Tail(wire) \in Seq(Frame)
      BY <1>0, <2>2 DEF ReadBroken, TypeOK
    <3>2. CutIn(Append(message_buffer, Head(wire))) \subseteq Nat
      BY <3>1, MessagesAreNumbers
    <3>3. QED
      BY <1>0, <2>2, <3>1, <3>2 DEF ReadBroken, Abandon, Inv, TypeOK, Counted, history
  <2>3. CASE NoticeLoss
    BY <1>0, <2>1, <2>3 DEF NoticeLoss, Abandon, Inv, TypeOK, Counted, history
  <2>4. CASE ReceiveTimeout
    BY <1>0, <2>1, <2>4
      DEF ReceiveTimeout, TimeoutKeepsConnection, Abandon, Inv, TypeOK, Counted, history
  <2>5. QED BY <1>5, <2>2, <2>3, <2>4
<1>6. CASE SendData
  <2>1. PICK f \in [kind : {"data"} \cup (Disturbances \cap {"empty", "invalid"}),
                    msg : {IF sent.fin THEN sent.msg + 1 ELSE sent.msg},
                    part : {IF sent.fin THEN 1 ELSE sent.part + 1},
                    fin : BOOLEAN] :
          sent' = f /\ wire' = Append(wire, f)
    BY <1>6 DEF SendData
  <2>2. sent.msg \in Nat /\ sent.part \in Nat
    BY <1>0 DEF TypeOK, Frame
  <2>3. f \in Frame
    BY <2>1, <2>2 DEF Frame
  <2>4. wire' \in Seq(Frame)
    BY <1>0, <2>1, <2>3 DEF TypeOK
  <2>5. QED
    BY <1>0, <1>6, <2>1, <2>3, <2>4 DEF SendData, Peer, Inv, TypeOK, Counted, call, history
<1>7. CASE SendControl
  <2>1. ControlFrame \in Frame
    BY DEF ControlFrame, Frame
  <2>2. Append(wire, ControlFrame) \in Seq(Frame)
    BY <1>0, <2>1 DEF TypeOK
  <2>3. QED
    BY <1>0, <1>7, <2>2 DEF SendControl, Peer, Inv, TypeOK, Counted, call, history
<1>8. CASE LinkClose
  <2>1. MessagesIn(wire) \subseteq Nat
    BY <1>0, MessagesAreNumbers DEF TypeOK
  <2>2. wire' \in Seq(Frame)
    <3>1. wire \in Seq(Frame) /\ <<>> \in Seq(Frame)
      BY <1>0 DEF TypeOK
    <3>2. wire' = wire \/ wire' = <<>>
      BY <1>8 DEF LinkClose
    <3>3. QED BY <3>1, <3>2, Zenon
  <2>2a. damaged' \subseteq Nat
    BY <1>0, <1>8, <2>1, Zenon DEF LinkClose, TypeOK
  <2>3. QED
    BY <1>0, <1>8, <2>2, <2>2a DEF LinkClose, Peer, Inv, TypeOK, Counted, call, history
<1>9. CASE UNCHANGED vars
  BY <1>0, <1>9 DEF vars, Inv, TypeOK, Counted, call, history
<1>10. QED
  BY <1>1, <1>2, <1>3, <1>4, <1>5, <1>6, <1>7, <1>8, <1>9 DEF Next, Receive

LEMMA InvAlways == Spec => []Inv
PROOF
<1>1. QED BY InitInv, NextInv, PTL DEF Spec

\* The variables keep their types, and the counter its range.
THEOREM TypeCorrect == Spec => []TypeOK
PROOF
<1>1. Inv => TypeOK BY DEF Inv
<1>2. QED BY InvAlways, <1>1, PTL

\* receive_message() never reads more frames in one call than
\* max_frames_per_message allows: its counter reaches the limit before it can
\* wrap around.
THEOREM ReceiveIsBounded == Spec => []BufferBounded
PROOF
<1>1. Inv => BufferBounded BY DEF Inv, Counted, BufferBounded
<1>2. QED BY InvAlways, <1>1, PTL

----------------------------------------------------------------------------
(* What a message is put together from.  The frames that no call has ended *)
(* with, read or still on the way, are those of the LCU in their order, and *)
(* a message of which one is missing is damaged.                           *)

Unread == IF pc = "receive" THEN message_buffer \o wire ELSE wire

IsControl(f) == f.kind = "control"

\* g is the frame after f: the next of its message, or the first of the next.
Follows(f, g) ==
  IF f.fin THEN g.msg = f.msg + 1 /\ g.part = 1
           ELSE g.msg = f.msg /\ g.part = f.part + 1

\* f is the frame of the same message before g.
Precedes(f, g) == ~IsControl(f) /\ ~f.fin /\ f.msg = g.msg /\ g.part = f.part + 1

Numbered(q) ==
  \A k \in 1 .. Len(q) :
    IF IsControl(q[k]) THEN q[k] = ControlFrame ELSE q[k].msg >= 1 /\ q[k].part >= 1

Linked(q) ==
  \A k \in 1 .. Len(q) - 1 :
    ~IsControl(q[k]) /\ ~IsControl(q[k + 1]) => Follows(q[k], q[k + 1])

\* No frame of a message comes after the one that ends it.
Ended(q) ==
  \A k, l \in 1 .. Len(q) :
    k < l /\ ~IsControl(q[k]) /\ q[k].msg = q[l].msg => ~q[k].fin

\* A frame that continues a message comes after the one before it, unless the
\* message is one of those in `lost`.
Continued(q, lost) ==
  \A l \in 1 .. Len(q) :
    q[l].part > 1 =>
      q[l].msg \in lost \/ \E k \in 1 .. Len(q) : k < l /\ Precedes(q[k], q[l])

OrderInv ==
  Numbered(Unread) /\ Linked(Unread) /\ Ended(Unread) /\ Continued(Unread, damaged)

\* What the next frame of the LCU will follow.
SentInv ==
  /\ ~IsControl(sent)
  /\ ~sent.fin => sent.msg >= 1 /\ sent.part >= 1
  /\ ~m_websocket => ~m_connected /\ pc = "out" /\ link = "none" /\ wire = <<>> /\ sent.fin
  /\ link = "up" =>
       /\ \A k \in 1 .. Len(Unread) :
            /\ Unread[k].msg <= sent.msg
            /\ ~IsControl(Unread[k]) /\ Unread[k].msg = sent.msg /\ ~sent.fin => ~Unread[k].fin
            /\ k = Len(Unread) /\ ~IsControl(Unread[k]) => Unread[k] = sent
       /\ ~sent.fin => sent.msg \in damaged \/ \E k \in 1 .. Len(Unread) : Unread[k] = sent

\* The frames that receive_message() has read so far are consecutive.
Consecutive(frames) ==
  \A k \in 1 .. Len(frames) :
    /\ frames[k].kind = "data" /\ ~frames[k].fin
    /\ frames[k].msg = frames[1].msg /\ frames[k].part = frames[1].part + (k - 1)

ReadingInv == pc = "receive" => Consecutive(message_buffer)

\* A message sent completely is not gone.
Accounted ==
  \A m \in 1 .. sent.msg :
    (m < sent.msg \/ sent.fin) =>
      m \in damaged \cup whole \/ \E k \in 1 .. Len(Unread) : Unread[k].msg = m

FrameInv ==
  OrderInv /\ SentInv /\ ReadingInv /\ Accounted /\ OneMessageAtATime /\ UncutIsWhole

\* Between two returns, what is said of the last one stays true.
LEMMA ReturnedKept ==
  ASSUME FrameInv, returned' = returned, damaged \subseteq damaged'
  PROVE  OneMessageAtATime' /\ UncutIsWhole'
<1>1. OneMessageAtATime'
  BY DEF FrameInv, OneMessageAtATime
<1>2. MessagesIn(returned') = MessagesIn(returned) /\ (IsWhole(returned') <=> IsWhole(returned))
  OBVIOUS
<1>3. UncutIsWhole'
  BY <1>2 DEF FrameInv, UncutIsWhole
<1> QED
  BY <1>1, <1>3

LEMMA UnreadFrames ==
  ASSUME TypeOK
  PROVE  /\ Unread \in Seq(Frame)
         /\ pc = "receive" =>
              /\ Len(Unread) = Len(message_buffer) + Len(wire)
              /\ \A k \in 1 .. Len(message_buffer) : Unread[k] = message_buffer[k]
              /\ \A k \in 1 .. Len(wire) : Unread[Len(message_buffer) + k] = wire[k]
<1>1. message_buffer \in Seq(Frame) /\ wire \in Seq(Frame)
  BY DEF TypeOK
<1>2. \A b, w \in Seq(Frame) :
        /\ b \o w \in Seq(Frame) /\ Len(b \o w) = Len(b) + Len(w)
        /\ \A k \in 1 .. Len(b) : (b \o w)[k] = b[k]
        /\ \A k \in 1 .. Len(w) : (b \o w)[Len(b) + k] = w[k]
  OBVIOUS
<1> QED
  BY <1>1, <1>2 DEF Unread

\* A message of which frames have been read is cut, or they end it.
LEMMA CutOrEnded ==
  ASSUME NEW frames \in Seq(Frame), NEW k \in 1 .. Len(frames), frames[k].msg # 0
  PROVE  \/ frames[k].msg \in CutIn(frames)
         \/ \E l \in 1 .. Len(frames) :
              frames[l].msg = frames[k].msg /\ frames[l].kind = "data" /\ frames[l].fin
<1>1. DOMAIN frames = 1 .. Len(frames)
  OBVIOUS
<1>2. frames[k].msg \in MessagesIn(frames)
  BY <1>1, Zenon DEF MessagesIn
<1> QED
  BY <1>1, <1>2, Zenon DEF CutIn

\* The order of the frames survives when the first n of them are taken away,
\* if the messages that these cut are known to be lost.
LEMMA DropOrder ==
  ASSUME NEW q \in Seq(Frame), NEW r \in Seq(Frame), NEW n \in 0 .. Len(q),
         Len(r) = Len(q) - n, \A k \in 1 .. Len(r) : r[k] = q[n + k],
         NEW lost, NEW newlost, lost \subseteq newlost,
         \A k \in 1 .. n : ~IsControl(q[k]) /\ ~q[k].fin =>
           \/ q[k].msg \in newlost
           \/ \E l \in 1 .. n : q[l].msg = q[k].msg /\ ~IsControl(q[l]) /\ q[l].fin,
         Numbered(q), Linked(q), Ended(q), Continued(q, lost)
  PROVE  Numbered(r) /\ Linked(r) /\ Ended(r) /\ Continued(r, newlost)
<1>1. Numbered(r)
  BY DEF Numbered
<1>2. Linked(r)
  <2> SUFFICES ASSUME NEW k \in 1 .. Len(r) - 1, ~IsControl(r[k]), ~IsControl(r[k + 1])
               PROVE  Follows(r[k], r[k + 1])
    BY DEF Linked
  <2>1. n + k \in 1 .. Len(q) - 1 /\ r[k] = q[n + k] /\ r[k + 1] = q[n + k + 1]
    OBVIOUS
  <2> QED
    BY <2>1 DEF Linked
<1>3. Ended(r)
  <2> SUFFICES ASSUME NEW k \in 1 .. Len(r), NEW l \in 1 .. Len(r), k < l,
                      ~IsControl(r[k]), r[k].msg = r[l].msg
               PROVE  ~r[k].fin
    BY DEF Ended
  <2>1. n + k \in 1 .. Len(q) /\ n + l \in 1 .. Len(q) /\ n + k < n + l
        /\ r[k] = q[n + k] /\ r[l] = q[n + l]
    OBVIOUS
  <2> QED
    BY <2>1 DEF Ended
<1>4. Continued(r, newlost)
  <2> SUFFICES ASSUME NEW l \in 1 .. Len(r), r[l].part > 1, r[l].msg \notin newlost
               PROVE  \E k \in 1 .. Len(r) : k < l /\ Precedes(r[k], r[l])
    BY DEF Continued
  <2>1. n + l \in 1 .. Len(q) /\ r[l] = q[n + l]
    OBVIOUS
  <2>2. PICK k \in 1 .. Len(q) : k < n + l /\ Precedes(q[k], q[n + l])
    BY <2>1 DEF Continued
  <2>3. k \notin 1 .. n
    <3> SUFFICES ASSUME k \in 1 .. n PROVE FALSE
      OBVIOUS
    <3>1. PICK j \in 1 .. n : q[j].msg = q[k].msg /\ ~IsControl(q[j]) /\ q[j].fin
      BY <2>1, <2>2 DEF Precedes
    <3>2. j < n + l /\ q[j].msg = q[n + l].msg /\ j \in 1 .. Len(q)
      BY <2>2, <3>1 DEF Precedes
    <3> QED
      BY <2>1, <3>1, <3>2 DEF Ended
  <2>4. k - n \in 1 .. Len(r) /\ k - n < l /\ n + (k - n) = k
    BY <2>2, <2>3
  <2> QED
    BY <2>1, <2>2, <2>4
<1> QED
  BY <1>1, <1>2, <1>3, <1>4

\* It survives when the last of them are taken away ...
LEMMA PrefixOrder ==
  ASSUME NEW q \in Seq(Frame), NEW r \in Seq(Frame), Len(r) <= Len(q),
         \A k \in 1 .. Len(r) : r[k] = q[k],
         NEW lost, NEW newlost, lost \subseteq newlost,
         Numbered(q), Linked(q), Ended(q), Continued(q, lost)
  PROVE  Numbered(r) /\ Linked(r) /\ Ended(r) /\ Continued(r, newlost)
<1>1. Numbered(r) /\ Ended(r)
  BY DEF Numbered, Ended
<1>2. Linked(r)
  <2> SUFFICES ASSUME NEW k \in 1 .. Len(r) - 1
               PROVE  r[k] = q[k] /\ r[k + 1] = q[k + 1] /\ k \in 1 .. Len(q) - 1
    BY DEF Linked
  <2> QED
    OBVIOUS
<1>3. Continued(r, newlost)
  <2> SUFFICES ASSUME NEW l \in 1 .. Len(r), r[l].part > 1, r[l].msg \notin newlost
               PROVE  \E k \in 1 .. Len(r) : k < l /\ Precedes(r[k], r[l])
    BY DEF Continued
  <2>1. PICK k \in 1 .. Len(q) : k < l /\ Precedes(q[k], q[l])
    BY DEF Continued
  <2> QED
    BY <2>1
<1> QED
  BY <1>1, <1>2, <1>3

\* ... and when the next frame is sent.
LEMMA AppendOrder ==
  ASSUME NEW q \in Seq(Frame), NEW f \in Frame, NEW lost,
         IF IsControl(f) THEN f = ControlFrame
           ELSE /\ f.msg >= 1 /\ f.part >= 1
                /\ \A k \in 1 .. Len(q) :
                     /\ k = Len(q) /\ ~IsControl(q[k]) => Follows(q[k], f)
                     /\ ~IsControl(q[k]) /\ q[k].msg = f.msg => ~q[k].fin
                /\ f.part > 1 => \/ f.msg \in lost
                                 \/ \E k \in 1 .. Len(q) : Precedes(q[k], f),
         Numbered(q), Linked(q), Ended(q), Continued(q, lost)
  PROVE  LET r == Append(q, f)
         IN  Numbered(r) /\ Linked(r) /\ Ended(r) /\ Continued(r, lost)
<1> DEFINE r == Append(q, f)
<1>1. /\ r \in Seq(Frame) /\ Len(r) = Len(q) + 1 /\ r[Len(q) + 1] = f
      /\ \A k \in 1 .. Len(q) : r[k] = q[k]
  OBVIOUS
<1> HIDE DEF r
<1>2. Numbered(r)
  BY <1>1 DEF Numbered
<1>3. Linked(r)
  <2> SUFFICES ASSUME NEW k \in 1 .. Len(r) - 1, ~IsControl(r[k]), ~IsControl(r[k + 1])
               PROVE  Follows(r[k], r[k + 1])
    BY DEF Linked
  <2>1. CASE k = Len(q)
    BY <1>1, <2>1
  <2>2. CASE k # Len(q)
    <3>1. k \in 1 .. Len(q) - 1 /\ k + 1 \in 1 .. Len(q)
      BY <1>1, <2>2
    <3> QED
      BY <1>1, <3>1 DEF Linked
  <2> QED
    BY <2>1, <2>2
<1>4. Ended(r)
  <2> SUFFICES ASSUME NEW k \in 1 .. Len(r), NEW l \in 1 .. Len(r), k < l,
                      ~IsControl(r[k]), r[k].msg = r[l].msg
               PROVE  ~r[k].fin
    BY DEF Ended
  <2>1. k \in 1 .. Len(q) /\ r[k] = q[k]
    BY <1>1
  <2>2. CASE l = Len(q) + 1
    <3>1. q[k].msg >= 1
      BY <1>1, <2>1 DEF Numbered
    <3>2. ~IsControl(f)
      BY <1>1, <2>1, <2>2, <3>1 DEF ControlFrame
    <3> QED
      BY <1>1, <2>1, <2>2, <3>2
  <2>3. CASE l # Len(q) + 1
    <3>1. l \in 1 .. Len(q) /\ r[l] = q[l]
      BY <1>1, <2>3
    <3> QED
      BY <2>1, <3>1 DEF Ended
  <2> QED
    BY <2>2, <2>3
<1>5. Continued(r, lost)
  <2> SUFFICES ASSUME NEW l \in 1 .. Len(r), r[l].part > 1, r[l].msg \notin lost
               PROVE  \E k \in 1 .. Len(r) : k < l /\ Precedes(r[k], r[l])
    BY DEF Continued
  <2>1. CASE l = Len(q) + 1
    <3>1. ~IsControl(f)
      BY <1>1, <2>1 DEF ControlFrame
    <3>2. PICK k \in 1 .. Len(q) : Precedes(q[k], f)
      BY <1>1, <2>1, <3>1
    <3> QED
      BY <1>1, <2>1, <3>2
  <2>2. CASE l # Len(q) + 1
    <3>1. l \in 1 .. Len(q) /\ r[l] = q[l]
      BY <1>1, <2>2
    <3>2. PICK k \in 1 .. Len(q) : k < l /\ Precedes(q[k], q[l])
      BY <3>1 DEF Continued
    <3> QED
      BY <1>1, <3>1, <3>2
  <2> QED
    BY <2>1, <2>2
<1> QED
  BY <1>2, <1>3, <1>4, <1>5 DEF r

\* The frames of a call and those still on the way are what was unread.
LEMMA NextFrame ==
  ASSUME TypeOK, pc = "receive", wire # <<>>
  PROVE  LET frames == Append(message_buffer, Head(wire))
         IN  /\ Head(wire) \in Frame /\ frames \in Seq(Frame)
             /\ Len(frames) = Len(message_buffer) + 1 /\ frames[Len(frames)] = Head(wire)
             /\ \A k \in 1 .. Len(message_buffer) : frames[k] = message_buffer[k]
             /\ Len(frames) <= Len(Unread)
             /\ \A k \in 1 .. Len(frames) : frames[k] = Unread[k]
             /\ Len(Tail(wire)) = Len(Unread) - Len(frames)
             /\ \A k \in 1 .. Len(Tail(wire)) : Tail(wire)[k] = Unread[Len(frames) + k]
<1> DEFINE frames == Append(message_buffer, Head(wire))
<1>1. message_buffer \in Seq(Frame) /\ wire \in Seq(Frame)
  BY DEF TypeOK
<1>2. /\ Head(wire) \in Frame /\ frames \in Seq(Frame)
      /\ Len(frames) = Len(message_buffer) + 1 /\ frames[Len(frames)] = Head(wire)
      /\ \A k \in 1 .. Len(message_buffer) : frames[k] = message_buffer[k]
  BY <1>1
<1>3. /\ Len(wire) >= 1 /\ Head(wire) = wire[1] /\ Len(Tail(wire)) = Len(wire) - 1
      /\ \A k \in 1 .. Len(Tail(wire)) : Tail(wire)[k] = wire[k + 1] /\ k + 1 \in 1 .. Len(wire)
  BY <1>1
<1>4. /\ Len(Unread) = Len(message_buffer) + Len(wire)
      /\ \A k \in 1 .. Len(message_buffer) : Unread[k] = message_buffer[k]
      /\ \A k \in 1 .. Len(wire) : Unread[Len(message_buffer) + k] = wire[k]
  BY UnreadFrames
<1> HIDE DEF frames
<1>5. \A k \in 1 .. Len(frames) : frames[k] = Unread[k]
  <2> SUFFICES ASSUME NEW k \in 1 .. Len(frames) PROVE frames[k] = Unread[k]
    OBVIOUS
  <2>1. CASE k = Len(frames)
    BY <1>1, <1>2, <1>3, <1>4, <2>1
  <2>2. CASE k # Len(frames)
    <3>1. k \in 1 .. Len(message_buffer)
      BY <1>1, <1>2, <2>2
    <3> QED
      BY <1>2, <1>4, <3>1
  <2> QED
    BY <2>1, <2>2
<1>6. \A k \in 1 .. Len(Tail(wire)) : Tail(wire)[k] = Unread[Len(frames) + k]
  <2> SUFFICES ASSUME NEW k \in 1 .. Len(Tail(wire))
               PROVE  Tail(wire)[k] = Unread[Len(frames) + k]
    OBVIOUS
  <2>1. Len(frames) + k = Len(message_buffer) + (k + 1)
    BY <1>1, <1>2
  <2> QED
    BY <1>3, <1>4, <2>1
<1>7. Len(frames) <= Len(Unread) /\ Len(Tail(wire)) = Len(Unread) - Len(frames)
  BY <1>1, <1>2, <1>3, <1>4
<1> QED
  BY <1>2, <1>5, <1>6, <1>7 DEF frames

\* The end of a call takes the frames it has read away.
LEMMA EndOfCall ==
  ASSUME TypeOK, TypeOK', OrderInv, SentInv, pc = "receive", pc' = "out",
         NEW frames \in Seq(Frame), Len(frames) <= Len(Unread),
         \A k \in 1 .. Len(frames) : frames[k] = Unread[k],
         Len(wire') = Len(Unread) - Len(frames),
         \A k \in 1 .. Len(wire') : wire'[k] = Unread[Len(frames) + k],
         damaged' = damaged \cup CutIn(frames),
         UNCHANGED <<sent, link, m_websocket>>
  PROVE  OrderInv' /\ SentInv'
<1> DEFINE n == Len(frames)
<1>1. Unread \in Seq(Frame) /\ Unread' = wire' /\ wire' \in Seq(Frame) /\ n \in 0 .. Len(Unread)
  BY UnreadFrames DEF Unread, TypeOK
<1>2. \A k \in 1 .. n : ~IsControl(Unread[k]) /\ ~Unread[k].fin =>
        \/ Unread[k].msg \in damaged'
        \/ \E l \in 1 .. n :
             Unread[l].msg = Unread[k].msg /\ ~IsControl(Unread[l]) /\ Unread[l].fin
  <2> SUFFICES ASSUME NEW k \in 1 .. n, ~IsControl(Unread[k]), Unread[k].msg \notin damaged'
               PROVE  \E l \in 1 .. n :
                        Unread[l].msg = Unread[k].msg /\ ~IsControl(Unread[l]) /\ Unread[l].fin
    OBVIOUS
  <2>1. frames[k] = Unread[k] /\ k \in 1 .. Len(Unread)
    BY <1>1
  <2>2. frames[k].msg >= 1 /\ frames[k].msg \notin CutIn(frames)
    BY <2>1 DEF OrderInv, Numbered
  <2>3. PICK l \in 1 .. n :
          frames[l].msg = frames[k].msg /\ frames[l].kind = "data" /\ frames[l].fin
    BY <2>2, CutOrEnded
  <2>4. frames[l] = Unread[l]
    OBVIOUS
  <2> QED
    BY <2>1, <2>3, <2>4 DEF IsControl
<1> HIDE DEF n
<1>3. OrderInv'
  <2>1. /\ Unread' \in Seq(Frame) /\ Len(Unread') = Len(Unread) - n
        /\ \A k \in 1 .. Len(Unread') : Unread'[k] = Unread[n + k]
        /\ damaged \subseteq damaged'
    BY <1>1 DEF n
  <2>2. Numbered(Unread) /\ Linked(Unread) /\ Ended(Unread) /\ Continued(Unread, damaged)
    BY DEF OrderInv
  <2>3. /\ Numbered(Unread') /\ Linked(Unread') /\ Ended(Unread')
        /\ Continued(Unread', damaged')
    <3>1. Unread \in Seq(Frame) /\ n \in 0 .. Len(Unread)
      BY <1>1
    <3> QED
      BY <1>2, <2>1, <2>2, <3>1, DropOrder
  <2> QED
    BY <2>3 DEF OrderInv
<1>4. SentInv'
  <2>1. ~IsControl(sent') /\ (~sent'.fin => sent'.msg >= 1 /\ sent'.part >= 1) /\ m_websocket'
    BY DEF SentInv, TypeOK
  <2>2. ASSUME link' = "up", NEW k \in 1 .. Len(Unread')
        PROVE  /\ Unread'[k].msg <= sent'.msg
               /\ ~IsControl(Unread'[k]) /\ Unread'[k].msg = sent'.msg /\ ~sent'.fin
                    => ~Unread'[k].fin
               /\ k = Len(Unread') /\ ~IsControl(Unread'[k]) => Unread'[k] = sent'
    <3>1. n + k \in 1 .. Len(Unread) /\ Unread'[k] = Unread[n + k]
          /\ (k = Len(Unread') => n + k = Len(Unread))
      BY <1>1, <2>2 DEF n
    <3> QED
      BY <2>2, <3>1 DEF SentInv
  <2>3. ASSUME link' = "up", ~sent'.fin, sent'.msg \notin damaged'
        PROVE  \E k \in 1 .. Len(Unread') : Unread'[k] = sent'
    <3>1. PICK k \in 1 .. Len(Unread) : Unread[k] = sent
      BY <2>3 DEF SentInv
    <3>2. k \notin 1 .. n
      <4> SUFFICES ASSUME k \in 1 .. n PROVE FALSE
        OBVIOUS
      <4>1. PICK l \in 1 .. n : Unread[l].msg = sent.msg /\ ~IsControl(Unread[l]) /\ Unread[l].fin
        BY <1>2, <2>1, <2>3, <3>1
      <4>2. l \in 1 .. Len(Unread)
        BY <1>1
      <4> QED
        BY <2>3, <4>1, <4>2 DEF SentInv
    <3>3. k - n \in 1 .. Len(Unread') /\ n + (k - n) = k
      BY <1>1, <3>2 DEF n
    <3> QED
      BY <1>1, <3>1, <3>3 DEF n
  <2> QED
    BY <2>1, <2>2, <2>3 DEF SentInv
<1> QED
  BY <1>3, <1>4

\* A call that ends without a message.
LEMMA AbandonInv ==
  ASSUME TypeOK, TypeOK', FrameInv, pc = "receive",
         NEW frames \in Seq(Frame), Len(frames) <= Len(Unread),
         \A k \in 1 .. Len(frames) : frames[k] = Unread[k],
         \A k \in 1 .. Len(frames) : frames[k].kind # "data" \/ ~frames[k].fin,
         Len(wire') = Len(Unread) - Len(frames),
         \A k \in 1 .. Len(wire') : wire'[k] = Unread[Len(frames) + k],
         Abandon(frames), UNCHANGED <<sent, link, m_websocket>>
  PROVE  FrameInv'
<1>1. /\ pc' = "out" /\ damaged' = damaged \cup CutIn(frames)
      /\ UNCHANGED <<returned, whole>>
  BY DEF Abandon, history
<1>2. OrderInv' /\ SentInv'
  BY <1>1, EndOfCall DEF FrameInv
<1>3. ReadingInv'
  BY <1>1 DEF ReadingInv
<1>4. Accounted'
  <2> SUFFICES ASSUME NEW m \in 1 .. sent.msg, m < sent.msg \/ sent.fin,
                      m \notin damaged' \cup whole'
               PROVE  \E k \in 1 .. Len(wire') : wire'[k].msg = m
    BY <1>1 DEF Accounted, Unread
  <2>1. PICK k \in 1 .. Len(Unread) : Unread[k].msg = m
    BY <1>1 DEF FrameInv, Accounted
  <2>2. k \notin 1 .. Len(frames)
    BY <1>1, <2>1, CutOrEnded
  <2>3. k - Len(frames) \in 1 .. Len(wire') /\ Len(frames) + (k - Len(frames)) = k
    BY <2>2, UnreadFrames
  <2> QED
    BY <2>1, <2>3
<1>5. OneMessageAtATime' /\ UncutIsWhole'
  BY <1>1, ReturnedKept
<1> QED
  BY <1>2, <1>3, <1>4, <1>5 DEF FrameInv

\* What a call has read when a frame that breaks nothing has come: consecutive
\* frames of one message, or these and a control frame.
LEMMA FramesRead ==
  ASSUME TypeOK, FrameInv, pc = "receive", wire # <<>>, ~Breaks(Head(wire))
  PROVE  LET f == Head(wire)
             frames == Append(message_buffer, f)
         IN  IF IsControl(f) THEN f = ControlFrame
             ELSE \A k \in 1 .. Len(frames) :
                    /\ frames[k].kind = "data"
                    /\ k # Len(frames) => ~frames[k].fin
                    /\ frames[k].msg = frames[1].msg
                    /\ frames[k].part = frames[1].part + (k - 1)
<1> DEFINE f == Head(wire)
           frames == Append(message_buffer, f)
           n == Len(message_buffer)
<1>1. /\ f \in Frame /\ frames \in Seq(Frame) /\ n \in Nat
      /\ Len(frames) = n + 1 /\ frames[n + 1] = f
      /\ \A k \in 1 .. n : frames[k] = message_buffer[k]
      /\ Len(frames) <= Len(Unread) /\ Len(Unread) \in Nat
      /\ \A k \in 1 .. Len(frames) : frames[k] = Unread[k]
  BY NextFrame, UnreadFrames DEF TypeOK
<1>2. Numbered(Unread) /\ Linked(Unread) /\ Consecutive(message_buffer)
  BY DEF FrameInv, OrderInv, ReadingInv
<1> HIDE DEF f, frames, n
<1>3. CASE IsControl(f)
  <2>1. f = Unread[n + 1] /\ n + 1 \in 1 .. Len(Unread)
    BY <1>1
  <2>2. f = ControlFrame
    BY <1>2, <1>3, <2>1 DEF Numbered
  <2> QED
    BY <1>3, <2>2 DEF f, frames
<1>4. CASE ~IsControl(f)
  <2>1. f.kind = "data"
    BY <1>1, <1>4 DEF Breaks, IsControl, Frame, f
  <2>2. \A k \in 1 .. n :
          /\ frames[k].kind = "data" /\ ~frames[k].fin
          /\ frames[k].msg = frames[1].msg /\ frames[k].part = frames[1].part + (k - 1)
    BY <1>1, <1>2 DEF Consecutive, n
  <2>3. f.msg = frames[1].msg /\ f.part = frames[1].part + n
    <3>1. CASE n = 0
      <4>1. f.part \in Nat
        BY <1>1 DEF Frame
      <4> QED
        BY <1>1, <3>1, <4>1
    <3>2. CASE n # 0
      <4>1. n \in 1 .. n /\ n \in 1 .. Len(Unread) - 1 /\ Unread[n] = frames[n]
            /\ Unread[n + 1] = f
        BY <1>1, <3>2
      <4>2. ~IsControl(frames[n]) /\ ~frames[n].fin
        BY <2>2, <4>1 DEF IsControl
      <4>3. Follows(frames[n], f)
        BY <1>2, <1>4, <4>1, <4>2 DEF Linked
      <4>4. f.msg = frames[n].msg /\ f.part = frames[n].part + 1
        BY <4>2, <4>3 DEF Follows
      <4>5. frames[1].part \in Nat
        <5>1. frames[1] \in Frame
          BY <1>1
        <5> QED
          BY <5>1 DEF Frame
      <4> QED
        BY <1>1, <2>2, <4>1, <4>4, <4>5
    <3> QED
      BY <3>1, <3>2
  <2>4. ASSUME NEW k \in 1 .. Len(frames)
        PROVE  /\ frames[k].kind = "data"
               /\ k # Len(frames) => ~frames[k].fin
               /\ frames[k].msg = frames[1].msg
               /\ frames[k].part = frames[1].part + (k - 1)
    <3>1. CASE k = n + 1
      BY <1>1, <2>1, <2>3, <3>1
    <3>2. CASE k # n + 1
      BY <1>1, <2>2, <3>2
    <3> QED
      BY <3>1, <3>2
  <2> QED
    BY <1>4, <2>4 DEF f, frames
<1> QED
  BY <1>3, <1>4

LEMMA ShiftFrame ==
  \A b, w \in Seq(Frame) : w # <<>> => Append(b, Head(w)) \o Tail(w) = b \o w
  OBVIOUS

\* A call that returns: a message, what is left of one that was damaged
\* before, or what a control frame has cut.
LEMMA ReturnInv ==
  ASSUME TypeOK, TypeOK', FrameInv, ReadFrame, EndsMessage(Head(wire)),
         Return(Append(message_buffer, Head(wire)))
  PROVE  FrameInv'
<1> DEFINE f == Head(wire)
           frames == Append(message_buffer, f)
           n == Len(message_buffer)
<1>0. /\ pc = "receive" /\ pc' = "out" /\ wire # <<>> /\ wire' = Tail(wire) /\ ~Breaks(f) /\ f.fin
      /\ returned' = frames /\ damaged' = damaged \cup CutIn(frames)
      /\ whole' = (IF IsWhole(frames) THEN whole \cup MessagesIn(frames) ELSE whole)
      /\ UNCHANGED <<sent, link, m_websocket>>
  BY DEF ReadFrame, Return, EndsMessage
<1>1. /\ f \in Frame /\ frames \in Seq(Frame) /\ n \in Nat
      /\ Len(frames) = n + 1 /\ frames[n + 1] = f
      /\ \A k \in 1 .. n : frames[k] = message_buffer[k]
      /\ Len(frames) <= Len(Unread) /\ Len(Unread) \in Nat
      /\ \A k \in 1 .. Len(frames) : frames[k] = Unread[k]
      /\ Len(wire') = Len(Unread) - Len(frames)
      /\ \A k \in 1 .. Len(wire') : wire'[k] = Unread[Len(frames) + k]
      /\ DOMAIN frames = 1 .. Len(frames)
  <2>1. message_buffer \in Seq(Frame) /\ Unread \in Seq(Frame)
    BY UnreadFrames DEF TypeOK
  <2>2. n \in Nat /\ Len(Unread) \in Nat
    BY <2>1
  <2>3. /\ f \in Frame /\ frames \in Seq(Frame)
        /\ Len(frames) = n + 1 /\ frames[n + 1] = f
        /\ \A k \in 1 .. n : frames[k] = message_buffer[k]
        /\ Len(frames) <= Len(Unread)
        /\ \A k \in 1 .. Len(frames) : frames[k] = Unread[k]
    BY <1>0, NextFrame
  <2>4. /\ Len(wire') = Len(Unread) - Len(frames)
        /\ \A k \in 1 .. Len(wire') : wire'[k] = Unread[Len(frames) + k]
    BY <1>0, NextFrame
  <2>5. DOMAIN frames = 1 .. Len(frames)
    BY <2>3
  <2> QED
    BY <2>2, <2>3, <2>4, <2>5
<1>2. OrderInv' /\ SentInv'
  <2> HIDE DEF frames
  <2> QED
    BY <1>0, <1>1, EndOfCall DEF FrameInv
<1>3. IF IsControl(f) THEN f = ControlFrame
      ELSE \A k \in 1 .. Len(frames) :
             /\ frames[k].kind = "data" /\ (k # Len(frames) => ~frames[k].fin)
             /\ frames[k].msg = frames[1].msg /\ frames[k].part = frames[1].part + (k - 1)
  BY <1>0, FramesRead
<1>4. \A k \in 1 .. n : /\ frames[k].kind = "data" /\ ~frames[k].fin
                        /\ frames[k].msg = frames[1].msg
                        /\ frames[k].part = frames[1].part + (k - 1)
  BY <1>0, <1>1 DEF FrameInv, ReadingInv, Consecutive
<1>5. frames[1] \in Frame
  BY <1>1
<1> HIDE DEF f, frames, n
\* The messages of the frames are damaged, or they are one message and whole.
<1>6. \/ \A k \in 1 .. Len(frames) : frames[k].msg # 0 => frames[k].msg \in damaged'
      \/ IsWhole(frames)
  <2>1. CASE IsControl(f)
    <3>1. \A l \in 1 .. Len(frames) : ~(frames[l].kind = "data" /\ frames[l].fin)
      BY <1>1, <1>4, <2>1 DEF IsControl
    <3> QED
      BY <1>0, <1>1, <3>1, CutOrEnded
  <2>2. CASE ~IsControl(f) /\ frames[1].part = 1
    <3>1. frames # <<>> /\ frames[Len(frames)].fin
      BY <1>0, <1>1
    <3>2. \A k \in DOMAIN frames : frames[k].part = k /\ frames[k].msg = frames[1].msg
      BY <1>1, <1>3, <2>2
    <3> QED
      BY <3>1, <3>2 DEF IsWhole
  <2>3. CASE ~IsControl(f) /\ frames[1].part # 1
    <3>1. 1 \in 1 .. Len(Unread) /\ Unread[1] = frames[1] /\ ~IsControl(frames[1])
      BY <1>1, <1>3, <2>3 DEF IsControl
    <3>2. frames[1].part > 1
      BY <1>5, <2>3, <3>1 DEF FrameInv, OrderInv, Numbered, Frame
    <3>3. frames[1].msg \in damaged
      BY <3>1, <3>2 DEF FrameInv, OrderInv, Continued
    <3> QED
      BY <1>0, <1>3, <2>3, <3>3
  <2> QED
    BY <2>1, <2>2, <2>3
<1>7. Accounted'
  <2> SUFFICES ASSUME NEW m \in 1 .. sent.msg, m < sent.msg \/ sent.fin,
                      m \notin damaged' \cup whole'
               PROVE  \E k \in 1 .. Len(wire') : wire'[k].msg = m
    BY <1>0 DEF Accounted, Unread
  <2>1. m \notin damaged \cup whole /\ m # 0
    BY <1>0
  <2>2. PICK k \in 1 .. Len(Unread) : Unread[k].msg = m
    BY <2>1 DEF FrameInv, Accounted
  <2>3. k \notin 1 .. Len(frames)
    <3> SUFFICES ASSUME k \in 1 .. Len(frames) PROVE FALSE
      OBVIOUS
    <3>1. frames[k].msg = m /\ m \in MessagesIn(frames)
      BY <1>1, <2>1, <2>2 DEF MessagesIn
    <3> QED
      BY <1>0, <1>6, <2>1, <3>1
  <2>4. k - Len(frames) \in 1 .. Len(wire') /\ Len(frames) + (k - Len(frames)) = k
    BY <1>1, <2>3
  <2> QED
    BY <1>1, <2>2, <2>4
<1>8. OneMessageAtATime'
  <2> SUFFICES ASSUME NEW k \in 1 .. Len(frames), NEW l \in 1 .. Len(frames),
                      frames[k].kind = "data", frames[l].kind = "data"
               PROVE  /\ frames[k].msg = frames[l].msg
                      /\ frames[l].part - frames[k].part = l - k
    BY <1>0, <1>1 DEF OneMessageAtATime
  <2>1. frames[1].part \in Nat
    BY <1>5 DEF Frame
  <2>2. CASE IsControl(f)
    <3>1. k \in 1 .. n /\ l \in 1 .. n
      BY <1>1, <2>2 DEF IsControl
    <3> QED
      BY <1>4, <2>1, <3>1
  <2>3. CASE ~IsControl(f)
    BY <1>3, <2>1, <2>3
  <2> QED
    BY <2>2, <2>3
<1>9. UncutIsWhole'
  <2>1. (\A k \in 1 .. Len(frames) : frames[k].msg # 0 => frames[k].msg \in damaged')
          => MessagesIn(frames) \subseteq damaged'
    BY <1>1 DEF MessagesIn
  <2> QED
    BY <1>0, <1>6, <2>1 DEF UncutIsWhole
<1>10. ReadingInv'
  BY <1>0 DEF ReadingInv
<1> QED
  BY <1>2, <1>7, <1>8, <1>9, <1>10 DEF FrameInv

\* A call that goes on: what is unread is what it was.
LEMMA ReadOnInv ==
  ASSUME TypeOK, TypeOK', FrameInv, ReadFrame, ~EndsMessage(Head(wire)), ReadLoop(Head(wire))
  PROVE  FrameInv'
<1> DEFINE f == Head(wire)
           frames == Append(message_buffer, f)
<1>0. /\ pc = "receive" /\ pc' = "receive" /\ wire # <<>> /\ wire' = Tail(wire) /\ ~Breaks(f)
      /\ message_buffer' = frames /\ ~f.fin
      /\ UNCHANGED <<sent, link, m_websocket, returned, whole, damaged>>
  BY DEF ReadFrame, ReadLoop, EndsMessage, history
<1>1. Unread' = Unread
  BY <1>0, ShiftFrame DEF Unread, TypeOK
<1>2. ReadingInv'
  <2>1. ~IsControl(f)
    BY <1>0, FramesRead DEF ControlFrame
  <2>2. frames[Len(frames)] = f
    BY <1>0, NextFrame
  <2>3. Consecutive(frames)
    BY <1>0, <2>1, <2>2, FramesRead DEF Consecutive
  <2> QED
    BY <1>0, <2>3 DEF ReadingInv
<1>3. OrderInv' /\ SentInv' /\ Accounted'
  BY <1>0, <1>1 DEF FrameInv, OrderInv, SentInv, Accounted
<1>4. OneMessageAtATime' /\ UncutIsWhole'
  BY <1>0, ReturnedKept
<1> QED
  BY <1>2, <1>3, <1>4 DEF FrameInv

\* The other outcomes of receive_message().
LEMMA ReceiveInv ==
  ASSUME TypeOK, TypeOK', FrameInv, Receive
  PROVE  FrameInv'
<1>1. CASE ReadFrame /\ EndsMessage(Head(wire))
  <2>1. Return(Append(message_buffer, Head(wire)))
    BY <1>1 DEF ReadFrame, Handle
  <2> QED
    BY <1>1, <2>1, ReturnInv
<1>2. CASE /\ ReadFrame /\ ~EndsMessage(Head(wire))
           /\ ReadLoop(Head(wire))
  BY <1>2, ReadOnInv
<1>3. CASE /\ ReadFrame /\ ~EndsMessage(Head(wire))
           /\ Abandon(Append(message_buffer, Head(wire)))
  <2> DEFINE frames == Append(message_buffer, Head(wire))
  <2>1. /\ pc = "receive" /\ wire # <<>> /\ wire' = Tail(wire) /\ ~Head(wire).fin
        /\ UNCHANGED <<sent, link, m_websocket>> /\ Abandon(frames)
    BY <1>3 DEF ReadFrame, EndsMessage
  <2>2. /\ frames \in Seq(Frame) /\ Len(frames) <= Len(Unread)
        /\ \A k \in 1 .. Len(frames) : frames[k] = Unread[k]
        /\ Len(wire') = Len(Unread) - Len(frames)
        /\ \A k \in 1 .. Len(wire') : wire'[k] = Unread[Len(frames) + k]
    BY <2>1, NextFrame
  <2>3. \A k \in 1 .. Len(frames) : ~frames[k].fin
    <3>1. /\ Len(frames) = Len(message_buffer) + 1 /\ frames[Len(frames)] = Head(wire)
          /\ \A k \in 1 .. Len(message_buffer) : frames[k] = message_buffer[k]
      BY <2>1, NextFrame
    <3>2. \A k \in 1 .. Len(message_buffer) : ~message_buffer[k].fin
      BY <2>1 DEF FrameInv, ReadingInv, Consecutive
    <3>3. Len(message_buffer) \in Nat
      BY DEF TypeOK
    <3> HIDE DEF frames
    <3> QED
      BY <2>1, <3>1, <3>2, <3>3
  <2> HIDE DEF frames
  <2> QED
    BY <2>1, <2>2, <2>3, AbandonInv
<1>4. CASE ReadBroken
  <2> DEFINE frames == Append(message_buffer, Head(wire))
  <2>1. /\ pc = "receive" /\ wire # <<>> /\ wire' = Tail(wire) /\ Head(wire).kind # "data"
        /\ UNCHANGED <<sent, link, m_websocket>> /\ Abandon(frames)
    BY <1>4 DEF ReadBroken, Breaks
  <2>2. /\ frames \in Seq(Frame) /\ Len(frames) <= Len(Unread)
        /\ \A k \in 1 .. Len(frames) : frames[k] = Unread[k]
        /\ Len(wire') = Len(Unread) - Len(frames)
        /\ \A k \in 1 .. Len(wire') : wire'[k] = Unread[Len(frames) + k]
    BY <2>1, NextFrame
  <2>3. \A k \in 1 .. Len(frames) : frames[k].kind # "data" \/ ~frames[k].fin
    <3>1. /\ Len(frames) = Len(message_buffer) + 1 /\ frames[Len(frames)] = Head(wire)
          /\ \A k \in 1 .. Len(message_buffer) : frames[k] = message_buffer[k]
      BY <2>1, NextFrame
    <3>2. \A k \in 1 .. Len(message_buffer) : ~message_buffer[k].fin
      BY <2>1 DEF FrameInv, ReadingInv, Consecutive
    <3>3. Len(message_buffer) \in Nat
      BY DEF TypeOK
    <3> HIDE DEF frames
    <3> QED
      BY <2>1, <3>1, <3>2, <3>3
  <2> HIDE DEF frames
  <2> QED
    BY <2>1, <2>2, <2>3, AbandonInv
<1>5. CASE NoticeLoss \/ ReceiveTimeout
  <2>1. /\ pc = "receive" /\ wire = <<>> /\ Abandon(message_buffer)
        /\ UNCHANGED <<sent, link, m_websocket, wire>>
    BY <1>5 DEF NoticeLoss, ReceiveTimeout
  <2>2. /\ message_buffer \in Seq(Frame) /\ Len(wire) = 0
        /\ Len(Unread) = Len(message_buffer)
        /\ \A k \in 1 .. Len(message_buffer) : message_buffer[k] = Unread[k]
    BY <2>1, UnreadFrames DEF TypeOK
  <2>3. /\ Len(wire') = Len(Unread) - Len(message_buffer)
        /\ \A k \in 1 .. Len(wire') : wire'[k] = Unread[Len(message_buffer) + k]
    BY <2>1, <2>2
  <2>4. \A k \in 1 .. Len(message_buffer) : ~message_buffer[k].fin
    BY <2>1 DEF FrameInv, ReadingInv, Consecutive
  <2> QED
    BY <2>1, <2>2, <2>3, <2>4, AbandonInv
<1> QED
  BY <1>1, <1>2, <1>3, <1>4, <1>5 DEF Receive, ReadFrame, Handle

\* A step after which the same frames are unread, or the first of them.
LEMMA KeptInv ==
  ASSUME TypeOK, TypeOK', FrameInv, Len(Unread') <= Len(Unread),
         \A k \in 1 .. Len(Unread') : Unread'[k] = Unread[k],
         damaged \subseteq damaged',
         \A k \in 1 .. Len(Unread) : k > Len(Unread') /\ Unread[k].msg # 0
                                       => Unread[k].msg \in damaged',
         link' # "up", sent'.msg = sent.msg, ~IsControl(sent'),
         ~sent'.fin => ~sent.fin /\ sent' = sent,
         sent'.fin => sent.fin \/ sent.msg \in damaged',
         ~m_websocket' => /\ ~m_connected' /\ pc' = "out"
                          /\ link' = "none" /\ wire' = <<>> /\ sent'.fin,
         pc' = "receive" => pc = "receive" /\ message_buffer' = message_buffer,
         UNCHANGED <<returned, whole>>,
         Unread' \in Seq(Frame)
  PROVE  FrameInv'
<1>0. Unread \in Seq(Frame) /\ sent.msg \in Nat
  BY UnreadFrames DEF TypeOK, Frame
<1>1. OrderInv'
  <2>1. Numbered(Unread) /\ Linked(Unread) /\ Ended(Unread) /\ Continued(Unread, damaged)
    BY DEF FrameInv, OrderInv
  <2>2. /\ Numbered(Unread') /\ Linked(Unread') /\ Ended(Unread')
        /\ Continued(Unread', damaged')
    BY <1>0, <2>1, PrefixOrder
  <2> QED
    BY <2>2 DEF OrderInv
<1>2. SentInv'
  BY DEF FrameInv, SentInv
<1>3. ReadingInv'
  BY DEF FrameInv, ReadingInv
<1>4. Accounted'
  <2> SUFFICES ASSUME NEW m \in 1 .. sent'.msg, m < sent'.msg \/ sent'.fin,
                      m \notin damaged' \cup whole'
               PROVE  \E k \in 1 .. Len(Unread') : Unread'[k].msg = m
    BY DEF Accounted
  <2>1. m \in 1 .. sent.msg /\ (m < sent.msg \/ sent.fin) /\ m # 0
    BY <1>0
  <2>2. PICK k \in 1 .. Len(Unread) : Unread[k].msg = m
    BY <2>1 DEF FrameInv, Accounted
  <2>3. k \in 1 .. Len(Unread')
    BY <1>0, <2>1, <2>2
  <2> QED
    BY <2>2, <2>3
<1>5. OneMessageAtATime' /\ UncutIsWhole'
  BY ReturnedKept
<1> QED
  BY <1>1, <1>2, <1>3, <1>4, <1>5 DEF FrameInv

\* The life of the connection.
LEMMA ConnectionInv ==
  ASSUME TypeOK, TypeOK', FrameInv, Start \/ Destroy \/ ReceiveCall \/ LinkClose
  PROVE  FrameInv'
<1>0. Unread \in Seq(Frame) /\ wire \in Seq(Frame) /\ message_buffer \in Seq(Frame)
  BY UnreadFrames DEF TypeOK
<1>1. CASE Start
  <2>1. /\ pc = "out" /\ pc' = "out" /\ wire = <<>> /\ wire' = <<>> /\ sent.fin
        /\ m_websocket' /\ UNCHANGED <<sent, returned, whole, damaged>>
    BY <1>1 DEF Start, FrameInv, SentInv, call, history
  <2>2. Unread = <<>> /\ Unread' = <<>>
    BY <2>1 DEF Unread
  <2>3. OrderInv' /\ Accounted'
    BY <2>1, <2>2 DEF FrameInv, OrderInv, Accounted
  <2>4. SentInv' /\ ReadingInv'
    BY <2>1, <2>2 DEF FrameInv, SentInv, ReadingInv
  <2>5. OneMessageAtATime' /\ UncutIsWhole'
    BY <2>1, ReturnedKept
  <2> QED
    BY <2>3, <2>4, <2>5 DEF FrameInv
<1>2. CASE Destroy
  <2>1. /\ pc = "out" /\ pc' = "out" /\ wire' = <<>> /\ link' = "none"
        /\ ~m_websocket' /\ ~m_connected'
        /\ sent' = [sent EXCEPT !.fin = TRUE]
        /\ damaged' = damaged \cup MessagesIn(wire) \cup (IF sent.fin THEN {} ELSE {sent.msg})
        /\ UNCHANGED <<returned, whole>>
    BY <1>2 DEF Destroy, call, history
  <2>2. Unread = wire /\ Unread' = <<>> /\ Len(<<>>) = 0 /\ <<>> \in Seq(Frame)
    BY <2>1 DEF Unread
  <2>3. sent'.msg = sent.msg /\ sent'.fin /\ ~IsControl(sent')
    BY <2>1 DEF TypeOK, Frame, FrameInv, SentInv, IsControl
  <2>4. \A k \in 1 .. Len(wire) : wire[k].msg # 0 => wire[k].msg \in damaged'
    BY <1>0, <2>1 DEF MessagesIn
  <2> QED
    BY <1>0, <2>1, <2>2, <2>3, <2>4, KeptInv
<1>3. CASE ReceiveCall
  <2>1. /\ pc = "out" /\ pc' = "receive" /\ message_buffer' = <<>> /\ m_connected
        /\ UNCHANGED <<m_websocket, link, wire, sent, returned, whole, damaged>>
    BY <1>3 DEF ReceiveCall, FreshBuffer, history
  <2>2. Unread' = Unread
    <3>1. <<>> \o wire = wire
      BY <1>0
    <3> QED
      BY <2>1, <3>1 DEF Unread
  <2>3. OrderInv' /\ Accounted'
    BY <2>1, <2>2 DEF FrameInv, OrderInv, Accounted
  <2>4. ReadingInv'
    BY <2>1 DEF ReadingInv, Consecutive
  <2>5. m_websocket
    BY <2>1 DEF FrameInv, SentInv
  <2>6. SentInv'
    BY <2>1, <2>2, <2>5 DEF FrameInv, SentInv
  <2>7. OneMessageAtATime' /\ UncutIsWhole'
    BY <2>1, ReturnedKept
  <2> QED
    BY <2>3, <2>4, <2>6, <2>7 DEF FrameInv
<1>4. CASE LinkClose
  <2>1. /\ link = "up" /\ link' = "closed"
        /\ UNCHANGED <<m_websocket, pc, message_buffer, sent, returned, whole>>
        /\ \/ UNCHANGED <<wire, damaged>>
           \/ wire' = <<>> /\ damaged' = damaged \cup MessagesIn(wire)
    BY <1>4 DEF LinkClose, Peer, call, history
  <2>2. m_websocket' /\ damaged \subseteq damaged' /\ ~IsControl(sent')
    BY <2>1 DEF FrameInv, SentInv, TypeOK
  <2>3. CASE UNCHANGED <<wire, damaged>>
    <3>1. Unread' = Unread
      BY <2>1, <2>3 DEF Unread
    <3> QED
      BY <1>0, <2>1, <2>2, <3>1, KeptInv
  <2>4. CASE wire' = <<>> /\ damaged' = damaged \cup MessagesIn(wire)
    <3>1. \A k \in 1 .. Len(wire) : wire[k].msg # 0 => wire[k].msg \in damaged'
      BY <1>0, <2>4 DEF MessagesIn
    <3>2. CASE pc = "receive"
      <4>1. Unread' = message_buffer
        BY <1>0, <2>1, <2>4, <3>2 DEF Unread
      <4>2. /\ Len(Unread) = Len(message_buffer) + Len(wire)
            /\ \A k \in 1 .. Len(message_buffer) : Unread[k] = message_buffer[k]
            /\ \A k \in 1 .. Len(wire) : Unread[Len(message_buffer) + k] = wire[k]
        BY <3>2, UnreadFrames
      <4>3. ASSUME NEW k \in 1 .. Len(Unread), k > Len(message_buffer), Unread[k].msg # 0
            PROVE  Unread[k].msg \in damaged'
        <5>1. k - Len(message_buffer) \in 1 .. Len(wire)
              /\ Len(message_buffer) + (k - Len(message_buffer)) = k
          BY <1>0, <4>2, <4>3
        <5>2. Unread[k] = wire[k - Len(message_buffer)]
          BY <4>2, <5>1
        <5> QED
          BY <3>1, <4>3, <5>1, <5>2
      <4> QED
        BY <1>0, <2>1, <2>2, <4>1, <4>2, <4>3, KeptInv
    <3>3. CASE pc # "receive"
      <4>1. Unread = wire /\ Unread' = <<>> /\ Len(<<>>) = 0 /\ <<>> \in Seq(Frame)
        BY <2>1, <2>4, <3>3 DEF Unread
      <4> QED
        BY <1>0, <2>1, <2>2, <3>1, <3>3, <4>1, KeptInv
    <3> QED
      BY <3>2, <3>3
  <2> QED
    BY <2>1, <2>3, <2>4
<1> QED
  BY <1>1, <1>2, <1>3, <1>4

\* The LCU sends the next frame, of a message or a control frame.
LEMMA SendFrameInv ==
  ASSUME TypeOK, TypeOK', FrameInv, SendData \/ SendControl
  PROVE  FrameInv'
<1>0. /\ link = "up"
      /\ UNCHANGED <<m_websocket, m_connected, pc, message_buffer, link, returned, whole, damaged>>
  BY DEF SendData, SendControl, Peer, call, history
<1>1. PICK f \in Frame :
        /\ wire' = Append(wire, f)
        /\ IF IsControl(f) THEN f = ControlFrame /\ sent' = sent
           ELSE /\ sent' = f
                /\ f.msg = (IF sent.fin THEN sent.msg + 1 ELSE sent.msg)
                /\ f.part = (IF sent.fin THEN 1 ELSE sent.part + 1)
  <2>1. CASE SendControl
    <3>1. ControlFrame \in Frame /\ IsControl(ControlFrame)
      BY DEF ControlFrame, Frame, IsControl
    <3> QED
      BY <2>1, <3>1 DEF SendControl
  <2>2. CASE SendData
    <3>1. PICK f \in [kind : {"data"} \cup (Disturbances \cap {"empty", "invalid"}),
                      msg : {IF sent.fin THEN sent.msg + 1 ELSE sent.msg},
                      part : {IF sent.fin THEN 1 ELSE sent.part + 1},
                      fin : BOOLEAN] :
            sent' = f /\ wire' = Append(wire, f)
      BY <2>2 DEF SendData
    <3>2. sent' \in Frame /\ ~IsControl(f)
      BY <3>1 DEF TypeOK, IsControl
    <3> QED
      BY <3>1, <3>2
  <2> QED
    BY <2>1, <2>2
<1>2. Unread' = Append(Unread, f) /\ Unread \in Seq(Frame)
  <2>1. message_buffer \in Seq(Frame) /\ wire \in Seq(Frame)
    BY DEF TypeOK
  <2>2. \A b, w \in Seq(Frame) : b \o Append(w, f) = Append(b \o w, f)
    OBVIOUS
  <2> QED
    BY <1>0, <1>1, <2>1, <2>2, UnreadFrames DEF Unread
<1>3. /\ Len(Unread') = Len(Unread) + 1 /\ Unread'[Len(Unread) + 1] = f
      /\ \A k \in 1 .. Len(Unread) : Unread'[k] = Unread[k]
      /\ Len(Unread) \in Nat
  BY <1>2
<1>4. sent.msg \in Nat /\ sent.part \in Nat /\ ~IsControl(sent)
      /\ (~sent.fin => sent.msg >= 1 /\ sent.part >= 1)
  BY DEF TypeOK, Frame, FrameInv, SentInv
<1>5. \A k \in 1 .. Len(Unread) :
        /\ Unread[k].msg <= sent.msg
        /\ ~IsControl(Unread[k]) /\ Unread[k].msg = sent.msg /\ ~sent.fin => ~Unread[k].fin
        /\ k = Len(Unread) /\ ~IsControl(Unread[k]) => Unread[k] = sent
  BY <1>0 DEF FrameInv, SentInv
<1>6. ~sent.fin => sent.msg \in damaged \/ \E k \in 1 .. Len(Unread) : Unread[k] = sent
  BY <1>0 DEF FrameInv, SentInv
<1>7. OrderInv'
  <2>1. IF IsControl(f) THEN f = ControlFrame
        ELSE /\ f.msg >= 1 /\ f.part >= 1
             /\ \A k \in 1 .. Len(Unread) :
                  /\ k = Len(Unread) /\ ~IsControl(Unread[k]) => Follows(Unread[k], f)
                  /\ ~IsControl(Unread[k]) /\ Unread[k].msg = f.msg => ~Unread[k].fin
             /\ f.part > 1 => \/ f.msg \in damaged
                              \/ \E k \in 1 .. Len(Unread) : Precedes(Unread[k], f)
    <3>1. CASE IsControl(f)
      BY <1>1, <3>1
    <3>2. CASE ~IsControl(f) /\ sent.fin
      <4>1. f.msg = sent.msg + 1 /\ f.part = 1
        BY <1>1, <3>2
      <4>2. ASSUME NEW k \in 1 .. Len(Unread)
            PROVE  /\ k = Len(Unread) /\ ~IsControl(Unread[k]) => Follows(Unread[k], f)
                   /\ Unread[k].msg # f.msg
        <5>1. Unread[k] \in Frame
          BY <1>2
        <5>2. Unread[k].msg \in Nat
          BY <5>1 DEF Frame
        <5> QED
          BY <1>4, <1>5, <3>2, <4>1, <5>2 DEF Follows
      <4> QED
        BY <1>4, <3>2, <4>1, <4>2
    <3>3. CASE ~IsControl(f) /\ ~sent.fin
      <4>1. f.msg = sent.msg /\ f.part = sent.part + 1
        BY <1>1, <3>3
      <4>2. \A k \in 1 .. Len(Unread) :
              /\ k = Len(Unread) /\ ~IsControl(Unread[k]) => Follows(Unread[k], f)
              /\ ~IsControl(Unread[k]) /\ Unread[k].msg = f.msg => ~Unread[k].fin
        BY <1>5, <3>3, <4>1 DEF Follows
      <4>3. Precedes(sent, f)
        BY <1>4, <3>3, <4>1 DEF Precedes
      <4> QED
        BY <1>4, <1>6, <3>3, <4>1, <4>2, <4>3
    <3> QED
      BY <3>1, <3>2, <3>3
  <2>2. Numbered(Unread) /\ Linked(Unread) /\ Ended(Unread) /\ Continued(Unread, damaged)
    BY DEF FrameInv, OrderInv
  <2>3. LET r == Append(Unread, f)
        IN  Numbered(r) /\ Linked(r) /\ Ended(r) /\ Continued(r, damaged)
    BY <1>2, <2>1, <2>2, AppendOrder
  <2> QED
    BY <1>0, <1>2, <2>3 DEF OrderInv
<1>8. SentInv'
  <2>1. m_websocket'
    BY <1>0 DEF FrameInv, SentInv, TypeOK
  <2>2. CASE IsControl(f)
    <3>1. f.msg = 0 /\ sent' = sent
      BY <1>1, <2>2 DEF ControlFrame
    <3>2. ASSUME NEW k \in 1 .. Len(Unread')
          PROVE  /\ Unread'[k].msg <= sent'.msg
                 /\ ~IsControl(Unread'[k]) /\ Unread'[k].msg = sent'.msg /\ ~sent'.fin
                      => ~Unread'[k].fin
                 /\ k = Len(Unread') /\ ~IsControl(Unread'[k]) => Unread'[k] = sent'
      BY <1>3, <1>4, <1>5, <2>2, <3>1
    <3>3. ~sent'.fin => sent'.msg \in damaged' \/ \E k \in 1 .. Len(Unread') : Unread'[k] = sent'
      BY <1>0, <1>3, <1>6, <3>1
    <3> QED
      BY <1>4, <2>1, <3>1, <3>2, <3>3 DEF SentInv
  <2>3. CASE ~IsControl(f)
    <3>1. /\ sent' = f /\ f.msg >= sent.msg /\ f.msg >= 1 /\ f.part >= 1
          /\ sent.fin => f.msg > sent.msg
      BY <1>1, <1>4, <2>3
    <3>2. ASSUME NEW k \in 1 .. Len(Unread')
          PROVE  /\ Unread'[k].msg <= sent'.msg
                 /\ ~IsControl(Unread'[k]) /\ Unread'[k].msg = sent'.msg /\ ~sent'.fin
                      => ~Unread'[k].fin
                 /\ k = Len(Unread') /\ ~IsControl(Unread'[k]) => Unread'[k] = sent'
      <4>1. CASE k = Len(Unread')
        BY <1>1, <1>3, <3>1, <4>1 DEF Frame
      <4>2. CASE k # Len(Unread')
        <5>1. k \in 1 .. Len(Unread) /\ Unread'[k] = Unread[k] /\ Unread[k] \in Frame
          BY <1>2, <1>3, <4>2
        <5>2. Unread[k].msg \in Nat
          BY <5>1 DEF Frame
        <5> QED
          BY <1>1, <1>4, <1>5, <2>3, <3>1, <4>2, <5>1, <5>2
      <4> QED
        BY <4>1, <4>2
    <3>3. \E k \in 1 .. Len(Unread') : Unread'[k] = sent'
      BY <1>3, <3>1
    <3> QED
      BY <2>1, <2>3, <3>1, <3>2, <3>3 DEF SentInv
  <2> QED
    BY <2>2, <2>3
<1>9. Accounted'
  <2> SUFFICES ASSUME NEW m \in 1 .. sent'.msg, m < sent'.msg \/ sent'.fin,
                      m \notin damaged \cup whole
               PROVE  \E k \in 1 .. Len(Unread') : Unread'[k].msg = m
    BY <1>0 DEF Accounted
  <2>1. CASE ~IsControl(f) /\ m = f.msg
    BY <1>3, <2>1
  <2>2. CASE IsControl(f) \/ m # f.msg
    <3>1. m \in 1 .. sent.msg /\ (m < sent.msg \/ sent.fin)
      BY <1>1, <1>4, <2>2
    <3>2. PICK k \in 1 .. Len(Unread) : Unread[k].msg = m
      BY <3>1 DEF FrameInv, Accounted
    <3> QED
      BY <1>3, <3>2
  <2> QED
    BY <2>1, <2>2
<1>10. ReadingInv'
  BY <1>0 DEF FrameInv, ReadingInv
<1>11. OneMessageAtATime' /\ UncutIsWhole'
  BY <1>0, ReturnedKept
<1> QED
  BY <1>7, <1>8, <1>9, <1>10, <1>11 DEF FrameInv

LEMMA FrameInvAlways == Spec => []FrameInv
<1>1. Init => FrameInv
  <2> SUFFICES ASSUME Init PROVE FrameInv
    OBVIOUS
  <2>1. Unread = <<>> /\ Len(<<>>) = 0 /\ DOMAIN <<>> = {}
    BY DEF Init, Unread
  <2>2. sent.msg = 0 /\ sent.fin /\ ~IsControl(sent)
    BY DEF Init, ControlFrame, IsControl
  <2>3. OrderInv /\ Accounted
    BY <2>1, <2>2 DEF OrderInv, Numbered, Linked, Ended, Continued, Accounted
  <2>4. SentInv /\ ReadingInv
    BY <2>2 DEF Init, SentInv, ReadingInv
  <2>5. OneMessageAtATime /\ UncutIsWhole
    BY <2>1 DEF Init, OneMessageAtATime, UncutIsWhole, MessagesIn
  <2> QED
    BY <2>3, <2>4, <2>5 DEF FrameInv
<1>2. TypeOK /\ TypeOK' /\ FrameInv /\ [Next]_vars => FrameInv'
  <2> SUFFICES ASSUME TypeOK, TypeOK', FrameInv, [Next]_vars PROVE FrameInv'
    OBVIOUS
  <2>1. CASE UNCHANGED vars
    <3>1. UNCHANGED <<m_websocket, m_connected, pc, message_buffer, link, wire, sent, returned,
                     whole, damaged>>
      BY <2>1 DEF vars, call, history
    <3>2. Unread' = Unread
      BY <3>1 DEF Unread
    <3>3. OrderInv' /\ SentInv' /\ ReadingInv' /\ Accounted'
      BY <3>1, <3>2 DEF FrameInv, OrderInv, SentInv, ReadingInv, Accounted
    <3>4. OneMessageAtATime' /\ UncutIsWhole'
      BY <3>1, ReturnedKept
    <3> QED
      BY <3>3, <3>4 DEF FrameInv
  <2> QED
    BY <2>1, ConnectionInv, ReceiveInv, SendFrameInv DEF Next
<1> QED
  BY <1>1, <1>2, TypeCorrect, PTL DEF Spec

\* The frames returned by a call are consecutive frames of one message, but for
\* a control frame at their end.
THEOREM OneMessageAlways == Spec => []OneMessageAtATime
<1>1. FrameInv => OneMessageAtATime
  BY DEF FrameInv
<1> QED
  BY <1>1, FrameInvAlways, PTL

\* What is returned is whole, or its message was cut by a call.
THEOREM UncutAlwaysWhole == Spec => []UncutIsWhole
<1>1. FrameInv => UncutIsWhole
  BY DEF FrameInv
<1> QED
  BY <1>1, FrameInvAlways, PTL

\* A complete message is unread, returned whole, or known to be damaged.
THEOREM NothingEverLost == Spec => []NothingLost
<1>1. TypeOK /\ FrameInv => NothingLost
  <2> SUFFICES ASSUME TypeOK, FrameInv, NEW m \in 1 .. sent.msg, m < sent.msg \/ sent.fin,
                      m \notin damaged, m \notin whole
               PROVE  m \in MessagesIn(wire)
                        \cup (IF pc = "receive" THEN MessagesIn(message_buffer) ELSE {})
    BY DEF NothingLost
  <2>1. PICK k \in 1 .. Len(Unread) : Unread[k].msg = m
    BY DEF FrameInv, Accounted
  <2>2. /\ wire \in Seq(Frame) /\ message_buffer \in Seq(Frame) /\ m # 0
        /\ DOMAIN wire = 1 .. Len(wire)
        /\ DOMAIN message_buffer = 1 .. Len(message_buffer)
    BY DEF TypeOK
  <2>3. CASE pc # "receive"
    BY <2>1, <2>2, <2>3 DEF Unread, MessagesIn
  <2>4. CASE pc = "receive"
    <3>1. /\ Len(Unread) = Len(message_buffer) + Len(wire)
          /\ \A j \in 1 .. Len(message_buffer) : Unread[j] = message_buffer[j]
          /\ \A j \in 1 .. Len(wire) : Unread[Len(message_buffer) + j] = wire[j]
      BY <2>4, UnreadFrames
    <3>2. CASE k \in 1 .. Len(message_buffer)
      BY <2>1, <2>2, <2>4, <3>1, <3>2 DEF MessagesIn
    <3>3. CASE k \notin 1 .. Len(message_buffer)
      <4>1. k - Len(message_buffer) \in 1 .. Len(wire)
            /\ Len(message_buffer) + (k - Len(message_buffer)) = k
        BY <2>2, <3>1, <3>3
      <4>2. wire[k - Len(message_buffer)].msg = m
        BY <2>1, <3>1, <4>1
      <4> QED
        BY <2>2, <4>1, <4>2 DEF MessagesIn
    <3> QED
      BY <3>2, <3>3
  <2> QED
    BY <2>3, <2>4
<1> QED
  BY <1>1, TypeCorrect, FrameInvAlways, PTL

----------------------------------------------------------------------------
(* Messages that nothing disturbs.                                         *)

\* receive_message() runs on a connected client; m_connected is only set
\* with m_websocket.
ClientInv ==
  /\ pc = "receive" => m_connected
  /\ m_connected => m_websocket

LEMMA ClientCorrect == Spec => []ClientInv
<1>1. Init => ClientInv
  BY DEF Init, ClientInv
<1>2. ClientInv /\ [Next]_vars => ClientInv'
  <2> SUFFICES ASSUME ClientInv, [Next]_vars PROVE ClientInv'
    OBVIOUS
  <2> USE DEF ClientInv
  <2>1. CASE Start
    BY <2>1 DEF Start, call
  <2>2. CASE Destroy
    BY <2>2 DEF Destroy, call
  <2>3. CASE ReceiveCall
    BY <2>3 DEF ReceiveCall
  <2>4. CASE ReadFrame
    BY <2>4 DEF ReadFrame
  <2>5. CASE ReadBroken
    BY <2>5 DEF ReadBroken, Abandon
  <2>6. CASE NoticeLoss
    BY <2>6 DEF NoticeLoss, Abandon
  <2>7. CASE ReceiveTimeout
    BY <2>7 DEF ReceiveTimeout, TimeoutKeepsConnection, Abandon
  <2>8. CASE SendData
    BY <2>8 DEF SendData, Peer, call
  <2>9. CASE SendControl
    BY <2>9 DEF SendControl, Peer, call
  <2>10. CASE LinkClose
    BY <2>10 DEF LinkClose, Peer, call
  <2>11. CASE UNCHANGED vars
    BY <2>11 DEF vars, call
  <2> QED
    BY <2>1, <2>2, <2>3, <2>4, <2>5, <2>6, <2>7, <2>8, <2>9, <2>10, <2>11
       DEF Next, Receive
<1> QED
  BY <1>1, <1>2, PTL DEF Spec

\* While a client is connected, what has not been read begins with the first
\* frame of a message, and so does what was returned.
AlignedInv ==
  /\ \A k \in 1 .. Len(wire) :
       ~IsControl(wire[k]) /\ (wire[k].fin \/ wire[k].part < MaxParts)
  /\ m_connected => IF Unread = <<>> THEN link = "up" => sent.fin ELSE Unread[1].part = 1
  /\ ReturnsMessages

\* The frames that end a message which was begun at its first frame.
LEMMA ReturnsWhole ==
  ASSUME TypeOK, FrameInv, ClientInv, AlignedInv,
         pc = "receive", wire # <<>>, ~Breaks(Head(wire))
  PROVE  LET frames == Append(message_buffer, Head(wire))
         IN  /\ Head(wire).part = Len(frames)
             /\ Head(wire).fin => IsWhole(frames)
<1> DEFINE f == Head(wire)
           frames == Append(message_buffer, f)
<1>1. /\ frames \in Seq(Frame) /\ frames # <<>>
      /\ Len(frames) \in Nat /\ Len(frames) >= 1 /\ frames[Len(frames)] = f
      /\ Len(frames) <= Len(Unread) /\ \A k \in 1 .. Len(frames) : frames[k] = Unread[k]
  <2>1. /\ frames \in Seq(Frame) /\ Len(frames) = Len(message_buffer) + 1
        /\ frames[Len(frames)] = f
        /\ Len(frames) <= Len(Unread) /\ \A k \in 1 .. Len(frames) : frames[k] = Unread[k]
    BY NextFrame
  <2>2. Len(message_buffer) \in Nat
    BY DEF TypeOK
  <2> HIDE DEF frames, f
  <2> QED
    BY <2>1, <2>2
<1>2. ~IsControl(f)
  BY DEF AlignedInv, TypeOK
<1>3. \A k \in 1 .. Len(frames) :
        frames[k].msg = frames[1].msg /\ frames[k].part = frames[1].part + (k - 1)
  BY <1>2, FramesRead
<1>4. frames[1].part = 1
  <2>1. Unread # <<>>
    BY <1>1
  <2> QED BY <1>1, <2>1 DEF AlignedInv, ClientInv
<1> HIDE DEF frames, f
<1>5. \A k \in 1 .. Len(frames) : frames[k].part = k
  BY <1>1, <1>3, <1>4
<1>6. f.part = Len(frames)
  BY <1>1, <1>5
<1>7. ASSUME f.fin PROVE IsWhole(frames)
  <2>1. DOMAIN frames = 1 .. Len(frames)
    BY <1>1
  <2> QED BY <1>1, <1>3, <1>5, <1>7, <2>1 DEF IsWhole
<1> QED BY <1>6, <1>7 DEF frames, f

\* What comes after the last frame of a message begins one.
LEMMA NextIsAligned ==
  ASSUME TypeOK, TypeOK', FrameInv, AlignedInv, ReadFrame, Head(wire).fin, pc' = "out"
  PROVE  IF Unread' = <<>> THEN link' = "up" => sent'.fin ELSE Unread'[1].part = 1
<1> DEFINE f == Head(wire)
           n == Len(message_buffer)
<1>1. /\ pc = "receive" /\ wire # <<>> /\ wire' = Tail(wire)
      /\ UNCHANGED <<link, sent>> /\ Unread' = wire'
  BY DEF ReadFrame, Unread
<1>2. /\ n \in Nat /\ n + 1 <= Len(Unread) /\ Unread \in Seq(Frame)
      /\ Unread[n + 1] = f /\ wire' \in Seq(Frame)
      /\ Len(wire') = Len(Unread) - (n + 1)
      /\ \A k \in 1 .. Len(wire') : wire'[k] = Unread[n + 1 + k]
  <2> DEFINE frames == Append(message_buffer, f)
  <2>1. /\ Len(frames) = n + 1 /\ frames[Len(frames)] = f
        /\ Len(frames) <= Len(Unread)
        /\ \A k \in 1 .. Len(frames) : frames[k] = Unread[k]
        /\ Len(Tail(wire)) = Len(Unread) - Len(frames)
        /\ \A k \in 1 .. Len(Tail(wire)) : Tail(wire)[k] = Unread[Len(frames) + k]
    BY <1>1, NextFrame
  <2>2. n \in Nat /\ Unread \in Seq(Frame) /\ wire' \in Seq(Frame)
    <3>1. message_buffer \in Seq(Frame) /\ wire' \in Seq(Frame)
      BY DEF TypeOK
    <3> QED BY <3>1, UnreadFrames
  <2> HIDE DEF frames, f, n
  <2>3. n + 1 \in 1 .. n + 1
    BY <2>2
  <2> QED BY <1>1, <2>1, <2>2, <2>3
<1>3. ~IsControl(f) /\ \A k \in 1 .. Len(wire') : ~IsControl(wire'[k])
  BY <1>1 DEF AlignedInv, TypeOK
<1> HIDE DEF n, f
<1>4. CASE wire' = <<>>
  <2>1. n + 1 = Len(Unread) /\ n + 1 \in 1 .. Len(Unread)
    BY <1>2, <1>4
  <2>2. link = "up" => f = sent
    BY <1>2, <1>3, <2>1 DEF FrameInv, SentInv
  <2> QED BY <1>1, <1>4, <2>2 DEF f
<1>5. CASE wire' # <<>>
  <2>1. /\ n + 1 \in 1 .. Len(Unread) - 1 /\ 1 \in 1 .. Len(wire')
        /\ wire'[1] = Unread[n + 1 + 1]
    BY <1>2, <1>5
  <2>2. Follows(f, wire'[1])
    BY <1>2, <1>3, <2>1 DEF FrameInv, OrderInv, Linked
  <2>3. wire'[1].part = 1
    BY <2>2 DEF Follows, f
  <2> QED BY <1>1, <1>5, <2>3
<1> QED BY <1>4, <1>5

\* A connection on which the LCU sends whole messages within the limit, without
\* pings, and in time, is never out of step with them.
LEMMA ReadFrameAligned ==
  ASSUME MaxParts <= max_frames_per_message,
         TypeOK, TypeOK', Counted, FrameInv, ClientInv, AlignedInv, ReadFrame
  PROVE  AlignedInv'
<1> DEFINE f == Head(wire)
           frames == Append(message_buffer, f)
<1>1. /\ pc = "receive" /\ wire # <<>> /\ wire' = Tail(wire) /\ ~Breaks(f)
      /\ message_buffer' = frames /\ UNCHANGED <<m_connected, link, sent>>
      /\ wire \in Seq(Frame) /\ f = wire[1] /\ 1 \in 1 .. Len(wire)
  BY DEF ReadFrame, TypeOK
<1>2. /\ f.part = Len(frames) /\ (f.fin => IsWhole(frames))
      /\ f.fin \/ f.part < MaxParts
  BY <1>1, ReturnsWhole DEF AlignedInv
<1>3. \A k \in 1 .. Len(wire') :
        ~IsControl(wire'[k]) /\ (wire'[k].fin \/ wire'[k].part < MaxParts)
  BY <1>1 DEF AlignedInv
<1>4. CASE f.fin
  <2>1. pc' = "out" /\ returned' = frames
    BY <1>4 DEF ReadFrame, Handle, EndsMessage, Return
  <2>2. ReturnsMessages'
    BY <1>2, <1>4, <2>1 DEF ReturnsMessages
  <2> QED BY <1>3, <1>4, <2>1, <2>2, NextIsAligned DEF AlignedInv
<1>5. CASE ~f.fin
  <2>1. WithinLimit(i)
    <3>1. /\ i \in 0 .. max_frames_per_message - 1 /\ i \in Nat
          /\ Len(frames) = i + 1
      BY <1>1, NextFrame, LimitAssumption DEF Counted, TypeOK
    <3>2. i + 1 < MaxParts /\ MaxParts \in Nat /\ max_frames_per_message \in Nat
      BY <1>2, <1>5, <3>1, BoundAssumption, LimitAssumption
    <3> QED BY <3>1, <3>2, CounterReachesLimit
  <2>2. ReadLoop(f)
    BY <1>5, <2>1 DEF ReadFrame, Handle, EndsMessage
  <2>3. pc' = "receive" /\ returned' = returned
    BY <1>1, <2>2 DEF ReadLoop, history
  <2>4. Unread' = Unread
    BY <1>1, <2>3, ShiftFrame DEF Unread, TypeOK
  <2> QED BY <1>1, <1>3, <2>3, <2>4 DEF AlignedInv, ReturnsMessages
<1> QED BY <1>4, <1>5

\* The next frame of the LCU is in step, too.
LEMMA SendAligned ==
  ASSUME TypeOK, TypeOK', FrameInv, ClientInv, AlignedInv, SendData
  PROVE  AlignedInv'
<1>1. /\ link = "up"
      /\ UNCHANGED <<m_websocket, m_connected, pc, message_buffer, link, returned>>
  BY DEF SendData, Peer, call, history
<1>2. PICK f \in [kind : {"data"} \cup (Disturbances \cap {"empty", "invalid"}),
                  msg : {IF sent.fin THEN sent.msg + 1 ELSE sent.msg},
                  part : {IF sent.fin THEN 1 ELSE sent.part + 1},
                  fin : BOOLEAN] :
        /\ f.part <= MaxParts /\ (f.part = MaxParts => f.fin)
        /\ sent' = f /\ wire' = Append(wire, f)
  BY DEF SendData
<1>3. /\ f \in Frame /\ ~IsControl(f) /\ f.part \in Nat
      /\ f.fin \/ f.part < MaxParts
      /\ sent.fin => f.part = 1
  <2>1. f \in Frame
    BY <1>2 DEF TypeOK
  <2>2. f.part \in Nat /\ f.kind \in {"data", "empty", "invalid"}
    BY <1>2, <2>1 DEF Frame
  <2> QED BY <1>2, <2>1, <2>2, BoundAssumption DEF IsControl
<1>4. /\ wire \in Seq(Frame) /\ Unread \in Seq(Frame) /\ Unread' = Append(Unread, f)
  <2>1. message_buffer \in Seq(Frame) /\ wire \in Seq(Frame)
    BY DEF TypeOK
  <2>2. \A b, w \in Seq(Frame) : b \o Append(w, f) = Append(b \o w, f)
    BY <1>3
  <2> QED BY <1>1, <1>2, <2>1, <2>2, UnreadFrames DEF Unread
<1>5. \A k \in 1 .. Len(wire') :
        ~IsControl(wire'[k]) /\ (wire'[k].fin \/ wire'[k].part < MaxParts)
  BY <1>2, <1>3, <1>4 DEF AlignedInv
<1>6. m_connected' => Unread' # <<>> /\ Unread'[1].part = 1
  <2>1. CASE Unread = <<>>
    BY <1>1, <1>3, <1>4, <2>1 DEF AlignedInv
  <2>2. CASE Unread # <<>>
    BY <1>1, <1>3, <1>4, <2>2 DEF AlignedInv
  <2> QED BY <2>1, <2>2
<1> QED BY <1>1, <1>5, <1>6 DEF AlignedInv, ReturnsMessages

\* receive_message() returns whole messages and nothing else if the LCU sends
\* no control frames, receives do not time out, and messages keep to the limit:
\* frames that break the connection and its loss do no harm.  Without any one
\* of the three TLC finds ReturnsMessages violated.
THEOREM UndisturbedIsWhole ==
  ASSUME Disturbances \cap {"control", "timeout"} = {},
         MaxParts <= max_frames_per_message
  PROVE  Spec => []ReturnsMessages
<1>1. Init => AlignedInv
  BY DEF Init, AlignedInv, ReturnsMessages
<1>2. TypeOK /\ TypeOK' /\ Counted /\ FrameInv /\ ClientInv /\ AlignedInv /\ [Next]_vars
        => AlignedInv'
  <2> SUFFICES ASSUME TypeOK, TypeOK', Counted, FrameInv, ClientInv, AlignedInv,
                      [Next]_vars
               PROVE  AlignedInv'
    OBVIOUS
  <2>0. wire \in Seq(Frame) /\ wire' \in Seq(Frame)
    BY DEF TypeOK
  <2>1. CASE Start
    <3>1. wire = <<>> /\ sent.fin /\ pc = "out"
      BY <2>1 DEF Start, FrameInv, SentInv
    <3> QED
      BY <2>1, <3>1 DEF Start, AlignedInv, Unread, call, history, ReturnsMessages
  <2>2. CASE Destroy
    BY <2>2 DEF Destroy, AlignedInv, history, ReturnsMessages
  <2>3. CASE ReceiveCall
    <3>1. Unread' = Unread
      <4>1. <<>> \o wire = wire
        BY <2>0
      <4> QED BY <2>3, <4>1 DEF ReceiveCall, FreshBuffer, Unread
    <3> QED BY <2>3, <3>1 DEF ReceiveCall, AlignedInv, history, ReturnsMessages
  <2>4. CASE ReadFrame
    BY <2>4, ReadFrameAligned
  <2>5. CASE ReadBroken
    BY <2>0, <2>5 DEF ReadBroken, Abandon, AlignedInv, history, ReturnsMessages
  <2>6. CASE NoticeLoss
    BY <2>6 DEF NoticeLoss, Abandon, AlignedInv, history, ReturnsMessages
  <2>7. ~ReceiveTimeout /\ ~SendControl
    BY DEF ReceiveTimeout, SendControl
  <2>8. CASE SendData
    BY <2>8, SendAligned
  <2>9. CASE LinkClose
    <3>1. /\ wire' \in {wire, <<>>} /\ link' = "closed"
          /\ UNCHANGED <<m_connected, pc, message_buffer, returned>>
      BY <2>9 DEF LinkClose, Peer, call, history
    <3>2. message_buffer \in Seq(Frame)
      BY DEF TypeOK
    <3>3. Unread' = <<>> \/ (Unread # <<>> /\ Unread'[1] = Unread[1])
      BY <2>0, <3>1, <3>2 DEF Unread
    <3> QED BY <3>1, <3>3 DEF AlignedInv, ReturnsMessages
  <2>10. CASE UNCHANGED vars
    <3>1. Unread' = Unread
      BY <2>10 DEF vars, call, Unread
    <3> QED BY <2>10, <3>1 DEF vars, history, AlignedInv, ReturnsMessages
  <2> QED
    BY <2>1, <2>2, <2>3, <2>4, <2>5, <2>6, <2>7, <2>8, <2>9, <2>10 DEF Next, Receive
<1>3. AlignedInv => ReturnsMessages
  BY DEF AlignedInv
<1> QED
  BY <1>1, <1>2, <1>3, InvAlways, FrameInvAlways, ClientCorrect, PTL DEF Spec, Inv

============================================================================
