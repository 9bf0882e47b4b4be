------------------------ MODULE ClientContractProofs ------------------------
(***************************************************************************)
(* Https_websocket_client implements ClientContract, for every limit on    *)
(* the frames of a message and every combination of disturbances.  What is *)
(* pending is counted along the frames on the way, by induction.           *)
(***************************************************************************)
EXTENDS HttpsWebsocketClientProofs, WellFoundedInduction

----------------------------------------------------------------------------
(* Induction over natural numbers, for a set in place of a predicate.      *)

LEMMA LeastElement ==
  ASSUME NEW T \in SUBSET Nat, T # {}
  PROVE  \E x \in T : \A y \in T : x <= y
<1> DEFINE Less == {p \in Nat \X Nat : p[1] < p[2]}
<1>1. IsWellFoundedOn(Less, Nat)
  BY NatLessThanWellFounded DEF OpToRel
<1>2. PICK x \in T : \A y \in T : <<y, x>> \notin Less
  <2> HIDE DEF Less
  <2> QED BY <1>1, WFMin
<1>3. ASSUME NEW y \in T PROVE x <= y
  <2>1. ~(y < x)
    BY <1>2
  <2> QED BY <2>1
<1> QED BY <1>2, <1>3

LEMMA Induction ==
  ASSUME NEW S, 0 \in S, \A n \in Nat : n \in S => n + 1 \in S
  PROVE  Nat \subseteq S
<1> SUFFICES ASSUME Nat \ S # {} PROVE FALSE
  OBVIOUS
<1>1. PICK x \in Nat \ S : \A y \in Nat \ S : x <= y
  BY LeastElement
<1>2. x # 0 /\ x - 1 \in Nat
  BY <1>1
<1>3. x - 1 \in S
  BY <1>1, <1>2
<1> QED BY <1>1, <1>2, <1>3

----------------------------------------------------------------------------
(* How the calls are counted.                                              *)

Counts == [i : Nat, n : Nat]
First(start) == [i |-> start, n |-> 0]

\* c counts along frames, from the counter `start`, up to the frame n.
CountsTo(c, start, frames, n) ==
  /\ c[0] = First(start)
  /\ \A k \in 1 .. n : c[k] = ReadNext(c[k - 1], frames[k])

LEMMA ReadNextTyped ==
  ASSUME NEW after \in Counts, NEW f
  PROVE  /\ ReadNext(after, f) \in Counts
         /\ ReadNext(after, f).n \in {after.n, after.n + 1}
BY DEF ReadNext, Counts

\* There is such a c ...
LEMMA CountsExist ==
  ASSUME NEW start \in Nat, NEW frames, NEW n \in Nat
  PROVE  \E c \in [0 .. n -> Counts] : CountsTo(c, start, frames, n)
<1> DEFINE S == {m \in Nat : \E c \in [0 .. m -> Counts] : CountsTo(c, start, frames, m)}
<1>1. 0 \in S
  <2> DEFINE c == [k \in 0 .. 0 |-> First(start)]
  <2>1. c \in [0 .. 0 -> Counts] /\ CountsTo(c, start, frames, 0)
    BY DEF CountsTo, First, Counts
  <2> QED BY <2>1
<1>2. ASSUME NEW m \in Nat, m \in S PROVE m + 1 \in S
  <2>1. PICK c \in [0 .. m -> Counts] : CountsTo(c, start, frames, m)
    BY <1>2
  <2> DEFINE d == [k \in 0 .. m + 1 |->
                     IF k = m + 1 THEN ReadNext(c[m], frames[m + 1]) ELSE c[k]]
  <2>2. c[m] \in Counts
    BY <2>1
  <2>3. ReadNext(c[m], frames[m + 1]) \in Counts
    BY <2>2, ReadNextTyped
  <2>4. d \in [0 .. m + 1 -> Counts]
    BY <2>1, <2>3
  <2>5. d[0] = First(start)
    BY <2>1 DEF CountsTo
  <2>6. ASSUME NEW k \in 1 .. m + 1 PROVE d[k] = ReadNext(d[k - 1], frames[k])
    <3>1. CASE k = m + 1
      <4>1. d[k] = ReadNext(c[m], frames[m + 1]) /\ d[k - 1] = c[m]
        BY <3>1
      <4> QED BY <3>1, <4>1
    <3>2. CASE k \in 1 .. m
      <4>1. d[k] = c[k] /\ d[k - 1] = c[k - 1]
        BY <3>2
      <4> QED BY <2>1, <3>2, <4>1 DEF CountsTo
    <3> QED BY <3>1, <3>2
  <2>7. CountsTo(d, start, frames, m + 1)
    BY <2>5, <2>6 DEF CountsTo
  <2> QED BY <2>4, <2>7
<1>3. Nat \subseteq S
  <2> HIDE DEF S
  <2> QED BY <1>1, <1>2, Induction
<1> QED BY <1>3

\* ... and only one.
LEMMA CountsUnique ==
  ASSUME NEW start, NEW frames, NEW n \in Nat, NEW c, NEW d,
         CountsTo(c, start, frames, n), CountsTo(d, start, frames, n)
  PROVE  \A k \in 0 .. n : c[k] = d[k]
<1> DEFINE S == {k \in Nat : k <= n => c[k] = d[k]}
<1>1. 0 \in S
  BY DEF CountsTo
<1>2. ASSUME NEW k \in Nat, k \in S PROVE k + 1 \in S
  <2> SUFFICES ASSUME k + 1 <= n PROVE c[k + 1] = d[k + 1]
    OBVIOUS
  <2>1. c[k] = d[k]
    BY <1>2
  <2>2. k + 1 \in 1 .. n /\ (k + 1) - 1 = k
    OBVIOUS
  <2> QED BY <2>1, <2>2 DEF CountsTo
<1>3. Nat \subseteq S
  <2> HIDE DEF S
  <2> QED BY <1>1, <1>2, Induction
<1> QED BY <1>3

\* The recursive function of the specification is that c.
LEMMA ReadingCounts ==
  ASSUME NEW start \in Nat, NEW frames \in Seq(Frame)
  PROVE  /\ Reading(start, frames) \in [0 .. Len(frames) -> Counts]
         /\ CountsTo(Reading(start, frames), start, frames, Len(frames))
<1> DEFINE n == Len(frames)
           IsIt(c) == c = [k \in 0 .. n |-> IF k = 0 THEN First(start)
                                            ELSE ReadNext(c[k - 1], frames[k])]
<1>1. n \in Nat
  OBVIOUS
<1>2. PICK c \in [0 .. n -> Counts] : CountsTo(c, start, frames, n)
  BY <1>1, CountsExist
<1>3. IsIt(c)
  BY <1>1, <1>2 DEF CountsTo
<1>4. Reading(start, frames) = CHOOSE d : IsIt(d)
  BY DEF Reading, First
<1>5. IsIt(Reading(start, frames))
  <2> HIDE DEF IsIt
  <2> QED BY <1>3, <1>4
<1> DEFINE d == Reading(start, frames)
<1>6. CountsTo(d, start, frames, n)
  <2> HIDE DEF d
  <2>1. IsIt(d)
    BY <1>5 DEF d
  <2>2. d[0] = First(start)
    BY <1>1, <2>1
  <2>3. ASSUME NEW k \in 1 .. n PROVE d[k] = ReadNext(d[k - 1], frames[k])
    BY <1>1, <2>1
  <2> QED BY <2>2, <2>3 DEF CountsTo
<1>7. \A k \in 0 .. n : d[k] = c[k]
  BY <1>1, <1>2, <1>6, CountsUnique
<1>8. d \in [0 .. n -> Counts]
  <2> HIDE DEF d
  <2>1. IsIt(d)
    BY <1>5 DEF d
  <2>2. d = [k \in 0 .. n |-> d[k]]
    BY <2>1
  <2> QED BY <1>2, <1>7, <2>2
<1> QED BY <1>6, <1>8

\* Counts that go up to the last frame give the number of calls.
LEMMA CallsAre ==
  ASSUME NEW start \in Nat, NEW frames \in Seq(Frame), NEW c,
         CountsTo(c, start, frames, Len(frames))
  PROVE  /\ CallsEndedBy(start, frames) = c[Len(frames)].n
         /\ CallsEndedBy(start, frames) \in Nat
<1>1. Len(frames) \in Nat
  OBVIOUS
<1>2. Reading(start, frames)[Len(frames)] = c[Len(frames)]
  BY <1>1, ReadingCounts, CountsUnique
<1>3. Reading(start, frames)[Len(frames)] \in Counts
  BY <1>1, ReadingCounts
<1> QED BY <1>2, <1>3 DEF CallsEndedBy, Counts

\* Without frames no call ends.
LEMMA NoneEnded ==
  ASSUME NEW start \in Nat
  PROVE  CallsEndedBy(start, <<>>) = 0
<1>1. <<>> \in Seq(Frame) /\ Len(<<>>) = 0
  OBVIOUS
<1>2. CountsTo([k \in {0} |-> First(start)], start, <<>>, 0)
  BY DEF CountsTo
<1> QED BY <1>1, <1>2, CallsAre DEF First

\* One frame more ends at most one call more.
LEMMA CallsAppend ==
  ASSUME NEW start \in Nat, NEW frames \in Seq(Frame), NEW f \in Frame
  PROVE  CallsEndedBy(start, Append(frames, f))
           \in {CallsEndedBy(start, frames), CallsEndedBy(start, frames) + 1}
<1> DEFINE n == Len(frames)
           all == Append(frames, f)
<1>1. n \in Nat /\ n + 1 \in Nat /\ all \in Seq(Frame) /\ Len(all) = n + 1
      /\ all[n + 1] = f /\ \A k \in 1 .. n : all[k] = frames[k]
  OBVIOUS
<1>2. PICK c \in [0 .. n + 1 -> Counts] : CountsTo(c, start, all, n + 1)
  <2> HIDE DEF n, all
  <2> QED BY <1>1, CountsExist
<1>3. CountsTo(c, start, frames, n)
  BY <1>1, <1>2 DEF CountsTo
<1>4. CallsEndedBy(start, frames) = c[n].n
  BY <1>3, CallsAre
<1>5. CallsEndedBy(start, all) = c[n + 1].n
  BY <1>1, <1>2, CallsAre
<1>6. c[n + 1] = ReadNext(c[n], f)
  <2>1. n + 1 \in 1 .. n + 1 /\ (n + 1) - 1 = n
    BY <1>1
  <2> QED BY <1>1, <1>2, <2>1 DEF CountsTo
<1>7. c[n] \in Counts
  BY <1>1, <1>2
<1> QED BY <1>4, <1>5, <1>6, <1>7, ReadNextTyped

\* The first frame ends a call or not, and the others are read after it.
LEMMA CallsTail ==
  ASSUME NEW start \in Nat, NEW frames \in Seq(Frame), frames # <<>>
  PROVE  LET after == ReadNext(First(start), Head(frames))
         IN  /\ after \in Counts
             /\ CallsEndedBy(start, frames) = after.n + CallsEndedBy(after.i, Tail(frames))
             /\ CallsEndedBy(after.i, Tail(frames)) \in Nat
<1> DEFINE after == ReadNext(First(start), Head(frames))
           rest == Tail(frames)
           n == Len(rest)
<1>1. n \in Nat /\ rest \in Seq(Frame) /\ Len(frames) = n + 1
      /\ Head(frames) = frames[1] /\ \A k \in 1 .. n : rest[k] = frames[k + 1]
  OBVIOUS
<1>2. after \in Counts
  BY ReadNextTyped DEF First, Counts
<1> HIDE DEF after
<1>3. after.i \in Nat /\ after.n \in Nat
  BY <1>2 DEF Counts
<1>4. PICK c \in [0 .. n -> Counts] : CountsTo(c, after.i, rest, n)
  BY <1>1, <1>3, CountsExist
<1> DEFINE d == [k \in 0 .. n + 1 |->
                   IF k = 0 THEN First(start)
                   ELSE [i |-> c[k - 1].i, n |-> c[k - 1].n + after.n]]
<1>5. CountsTo(d, start, frames, n + 1)
  <2>1. d[0] = First(start)
    BY <1>1
  <2>2. d[1] = ReadNext(d[0], frames[1])
    <3>1. d[1] = [i |-> c[0].i, n |-> c[0].n + after.n]
      BY <1>1
    <3>2. c[0] = [i |-> after.i, n |-> 0]
      BY <1>4 DEF CountsTo, First
    <3>3. d[1] = after
      BY <1>2, <1>3, <3>1, <3>2 DEF Counts
    <3> QED BY <1>1, <2>1, <3>3 DEF after
  <2>3. ASSUME NEW k \in 1 .. n PROVE d[k + 1] = ReadNext(d[k], frames[k + 1])
    <3>1. c[k] = ReadNext(c[k - 1], frames[k + 1])
      BY <1>1, <1>4 DEF CountsTo
    <3>2. d[k] = [i |-> c[k - 1].i, n |-> c[k - 1].n + after.n]
      BY <1>1
    <3>3. d[k + 1] = [i |-> c[k].i, n |-> c[k].n + after.n]
      BY <1>1
    <3>4. c[k - 1].n \in Nat
      BY <1>1, <1>4 DEF Counts
    <3> HIDE DEF d
    <3> DEFINE x == c[k - 1]
               ends == \/ Breaks(frames[k + 1]) \/ EndsMessage(frames[k + 1])
                       \/ ~WithinLimit(x.i)
    <3>5. d[k].i = x.i /\ d[k].n = x.n + after.n
      BY <3>2
    <3>6. CASE ends
      <4>1. c[k] = [i |-> 0, n |-> x.n + 1]
        BY <3>1, <3>6 DEF ReadNext
      <4>2. ReadNext(d[k], frames[k + 1]) = [i |-> 0, n |-> x.n + after.n + 1]
        BY <3>5, <3>6 DEF ReadNext
      <4>3. d[k + 1] = [i |-> 0, n |-> x.n + 1 + after.n]
        BY <3>3, <4>1
      <4>4. x.n + 1 + after.n = x.n + after.n + 1
        BY <1>3, <3>4
      <4> QED BY <4>2, <4>3, <4>4
    <3>7. CASE ~ends
      <4>1. c[k] = [i |-> x.i + 1, n |-> x.n]
        BY <3>1, <3>7 DEF ReadNext
      <4> QED BY <3>3, <3>5, <3>7, <4>1 DEF ReadNext
    <3> QED BY <3>6, <3>7
  <2>4. ASSUME NEW k \in 1 .. n + 1 PROVE d[k] = ReadNext(d[k - 1], frames[k])
    <3> HIDE DEF d
    <3>1. CASE k = 1
      BY <2>2, <3>1
    <3>2. CASE k # 1
      <4>1. k - 1 \in 1 .. n /\ (k - 1) + 1 = k
        BY <1>1, <3>2
      <4> QED BY <2>3, <4>1
    <3> QED BY <3>1, <3>2
  <2> HIDE DEF d
  <2> QED BY <2>1, <2>4 DEF CountsTo
<1>6. d[n + 1].n = c[n].n + after.n
  BY <1>1
<1>7. CallsEndedBy(start, frames) = d[n + 1].n
  <2> HIDE DEF d
  <2> QED BY <1>1, <1>5, CallsAre
<1>8. CallsEndedBy(after.i, rest) = c[n].n /\ c[n].n \in Nat
  BY <1>1, <1>3, <1>4, CallsAre DEF Counts
<1> QED BY <1>2, <1>3, <1>6, <1>7, <1>8 DEF after

----------------------------------------------------------------------------
(* The refinement.                                                         *)

pending == CallsEndedBy(Counter, wire)

LEMMA CounterTyped == TypeOK => Counter \in Nat
<1> SUFFICES ASSUME TypeOK PROVE Counter \in Nat
  OBVIOUS
<1>1. i \in 0 .. max_frames_per_message - 1
  BY DEF TypeOK
<1>2. i \in Nat
  BY <1>1, LimitAssumption
<1> QED BY <1>2 DEF Counter

\* With nothing on the way nothing is pending.
LEMMA EmptyWire == TypeOK /\ wire = <<>> => pending = 0
BY CounterTyped, NoneEnded DEF pending

\* Reading a frame takes one pending thing away if it ends the call, and none
\* otherwise.
LEMMA ReadFramePending ==
  ASSUME TypeOK, TypeOK', ReadFrame
  PROVE  /\ pending \in Nat /\ pending' \in Nat
         /\ pending' = pending \/ pending' = pending - 1
<1> DEFINE f == Head(wire)
           after == ReadNext(First(i), f)
<1>1. /\ wire \in Seq(Frame) /\ wire # <<>> /\ f \in Frame /\ wire' = Tail(wire)
      /\ Counter = i /\ i \in Nat
  BY CounterTyped DEF ReadFrame, TypeOK, Counter
<1>2. /\ after \in Counts
      /\ pending = after.n + CallsEndedBy(after.i, wire')
      /\ CallsEndedBy(after.i, wire') \in Nat
  BY <1>1, CallsTail DEF pending
<1>3. Counter' = after.i /\ after.n \in {0, 1}
  <2>1. i \in 0 .. max_frames_per_message - 1
    BY DEF TypeOK
  <2>2. ~Breaks(f) /\ pc = "receive"
    BY DEF ReadFrame
  <2>3. CASE EndsMessage(f)
    <3>1. pc' = "out"
      BY <2>3 DEF ReadFrame, Handle, Return
    <3> QED BY <2>3, <3>1 DEF Counter, ReadNext, First
  <2>4. CASE ~EndsMessage(f) /\ ~WithinLimit(i)
    <3>1. pc' = "out"
      BY <2>4 DEF ReadFrame, Handle, Abandon
    <3> QED BY <2>4, <3>1 DEF Counter, ReadNext, First
  <2>5. CASE ~EndsMessage(f) /\ WithinLimit(i)
    <3>1. pc' = "receive" /\ i' = i + 1
      BY <2>1, <2>2, <2>5, CounterReachesLimit DEF ReadFrame, Handle, ReadLoop
    <3> QED BY <2>2, <2>5, <3>1 DEF Counter, ReadNext, First
  <2> QED BY <2>3, <2>4, <2>5
<1>4. pending' = CallsEndedBy(after.i, wire')
  BY <1>3 DEF pending
<1> HIDE DEF after
<1> QED BY <1>2, <1>3, <1>4

\* A frame sent is at most one thing more.
LEMMA SendPending ==
  ASSUME TypeOK, UNCHANGED call, NEW f \in Frame, wire' = Append(wire, f)
  PROVE  pending' \in {pending, pending + 1}
<1>1. Counter' = Counter /\ Counter \in Nat
  BY CounterTyped DEF Counter, call
<1>2. wire \in Seq(Frame)
  BY DEF TypeOK
<1> QED BY <1>1, <1>2, CallsAppend DEF pending

\* A frame that breaks the connection ends the call.
LEMMA ReadBrokenPending ==
  ASSUME TypeOK, ReadBroken
  PROVE  pending \in Nat /\ pending > 0 /\ pending' = pending - 1
<1> DEFINE f == Head(wire)
           after == ReadNext(First(i), f)
<1>1. /\ wire \in Seq(Frame) /\ wire # <<>> /\ wire' = Tail(wire)
      /\ Counter = i /\ i \in Nat
  BY CounterTyped DEF ReadBroken, TypeOK, Counter
<1>2. /\ pending = after.n + CallsEndedBy(after.i, wire')
      /\ CallsEndedBy(after.i, wire') \in Nat
  BY <1>1, CallsTail DEF pending
<1>3. after.n = 1 /\ after.i = 0 /\ Counter' = 0
  BY DEF ReadBroken, Abandon, ReadNext, First, Counter
<1>4. pending' = CallsEndedBy(after.i, wire')
  BY <1>3 DEF pending
<1> HIDE DEF after
<1> QED BY <1>2, <1>3, <1>4

client == IF ~m_websocket THEN "unstarted"
          ELSE IF m_connected THEN "connected" ELSE "disconnected"
contract == <<client, link, pending>>

\* For every limit and all disturbances, the event loop can rely on
\* ClientContract: receive_message() works off what is pending one by one,
\* fails without anything read only at the end of a connection, and never
\* disconnects otherwise.
THEOREM ContractKept == Spec => KeepsContract
<1> USE DEF Contract!Init, Contract!Next, Contract!vars
<1>1. Init => Contract!Init
  <2> SUFFICES ASSUME Init PROVE Contract!Init
    OBVIOUS
  <2>1. CallsEndedBy(Counter, wire) = 0
    BY NoneEnded DEF Init, Counter
  <2> QED BY <2>1 DEF Init
<1>2. TypeOK /\ TypeOK' /\ FrameInv /\ ClientInv /\ [Next]_vars
        => [Contract!Next]_(Contract!vars)
  <2> SUFFICES ASSUME TypeOK, TypeOK', FrameInv, ClientInv, [Next]_vars
               PROVE  Contract!Next \/ UNCHANGED contract
    BY DEF contract, client, pending
  <2>0. /\ wire = <<>> => pending = 0
        /\ wire' = <<>> => pending' = 0
    <3>1. (TypeOK /\ wire = <<>> => pending = 0)'
      BY EmptyWire, PTL
    <3> QED BY EmptyWire, <3>1
  <2>1. CASE Start
    <3>1. wire = <<>> /\ wire' = <<>>
      BY <2>1 DEF Start, FrameInv, SentInv
    <3>2. pending = 0 /\ pending' = 0
      BY <2>0, <3>1
    <3>3. Contract!Start
      BY <2>1, <3>2 DEF Start, Contract!Start, pending
    <3> QED BY <3>3
  <2>2. CASE Destroy
    <3>1. pending' = 0
      BY <2>0, <2>2 DEF Destroy
    <3>2. Contract!Destroy
      BY <2>2, <3>1 DEF Destroy, Contract!Destroy, pending
    <3> QED BY <3>2
  <2>3. CASE ReceiveCall
    <3>1. Counter' = Counter /\ wire' = wire
      BY <2>3 DEF ReceiveCall, Counter
    <3> QED BY <2>3, <3>1 DEF ReceiveCall, contract, client, pending
  <2>4. CASE ReadFrame
    <3>1. /\ pending \in Nat /\ pending' \in Nat
          /\ pending' = pending \/ pending' = pending - 1
      BY <2>4, ReadFramePending
    <3>2. /\ client = "connected" /\ client' = client /\ link' = link
      BY <2>4 DEF ReadFrame, ClientInv, client
    <3>3. CASE pending' = pending
      BY <3>2, <3>3 DEF contract
    <3>4. CASE pending' = pending - 1
      <4>1. pending > 0
        BY <3>1, <3>4
      <4>2. Contract!Receive
        BY <3>2, <3>4, <4>1 DEF Contract!Receive, client, pending
      <4> QED BY <4>2
    <3> QED BY <3>1, <3>3, <3>4
  <2>5. CASE ReadBroken
    <3>1. pending > 0 /\ pending' = pending - 1
      BY <2>5, ReadBrokenPending
    <3>2. /\ client = "connected" /\ client' = "disconnected" /\ link' = link
      BY <2>5 DEF ReadBroken, ClientInv, client
    <3>3. Contract!Receive
      BY <3>1, <3>2 DEF Contract!Receive, client, pending
    <3> QED BY <3>3
  <2>6. CASE NoticeLoss
    <3>1. pending = 0 /\ pending' = 0
      BY <2>0, <2>6 DEF NoticeLoss
    <3>2. /\ client = "connected" /\ client' = "disconnected"
          /\ link = "closed" /\ link' = link
      BY <2>6 DEF NoticeLoss, ClientInv, client
    <3>3. Contract!NoticeLoss
      BY <3>1, <3>2 DEF Contract!NoticeLoss, client, pending
    <3> QED BY <3>3
  <2>7. CASE ReceiveTimeout
    <3>1. pending = 0 /\ pending' = 0
      BY <2>0, <2>7 DEF ReceiveTimeout
    <3> QED
      BY <2>7, <3>1 DEF ReceiveTimeout, TimeoutKeepsConnection, contract, client
  <2>8. CASE SendData \/ SendControl
    <3>1. PICK f \in Frame : wire' = Append(wire, f)
      <4>1. CASE SendData
        BY <4>1 DEF SendData, TypeOK
      <4>2. CASE SendControl
        BY <4>2 DEF SendControl, ControlFrame, Frame
      <4> QED BY <2>8, <4>1, <4>2
    <3>2. Peer /\ link' = link
      BY <2>8 DEF SendData, SendControl
    <3>3. pending' \in {pending, pending + 1}
      BY <3>1, <3>2, SendPending DEF Peer
    <3>4. client' = client /\ link = "up"
      BY <3>2 DEF Peer, client
    <3>5. CASE pending' = pending
      BY <3>2, <3>4, <3>5 DEF contract
    <3>6. CASE pending' = pending + 1
      <4>1. Contract!Arrive
        BY <3>2, <3>4, <3>6 DEF Contract!Arrive, client, pending
      <4> QED BY <4>1
    <3> QED BY <3>3, <3>5, <3>6
  <2>9. CASE LinkClose
    <3>1. pending' \in {0, pending}
      <4>1. Counter' = Counter
        BY <2>9 DEF LinkClose, Peer, call, Counter
      <4>2. CASE wire' = wire
        BY <4>1, <4>2 DEF pending
      <4>3. CASE wire' = <<>>
        BY <2>0, <4>3
      <4> QED BY <2>9, <4>2, <4>3 DEF LinkClose
    <3>2. Contract!Close
      BY <2>9, <3>1 DEF LinkClose, Peer, Contract!Close, pending
    <3> QED BY <3>2
  <2>10. CASE UNCHANGED vars
    BY <2>10 DEF vars, call, contract, client, pending, Counter
  <2> QED
    BY <2>1, <2>2, <2>3, <2>4, <2>5, <2>6, <2>7, <2>8, <2>9, <2>10 DEF Next, Receive
<1> QED
  BY <1>1, <1>2, TypeCorrect, FrameInvAlways, ClientCorrect, PTL
     DEF Spec, KeepsContract, Contract!Spec

=============================================================================
