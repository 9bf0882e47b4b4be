----------------------- MODULE LcuWampHandlerProofs -----------------------
(***************************************************************************)
(* What LcuWampHandler.tla satisfies for any IDs, any names of events and  *)
(* any number of messages on the way: what the callbacks are called with   *)
(* belongs to this connection, and they keep the protocol of the handler   *)
(* underneath.                                                             *)
(***************************************************************************)
EXTENDS LcuWampHandler, TLAPS

\* The application's callback is that of the handler underneath, or there is
\* none for it.
CallbackInv ==
  /\ cb = "none" => user_cb = None
  /\ cb \in ConnectionCallbacks =>
       user_cb.callback = IF cb \in registered THEN cb ELSE "none"
  /\ cb = "message" => user_cb.callback \in MessageCallbacks \cup {"none"}
  /\ cb = "connected" => ~up
  /\ cb \in {"disconnected", "message"} => up

\* What can be on the way to the LCU, and what on the way back, in this
\* connection.
Sent ==
  {m \in Message : /\ <<m.type, m.arg>> \in asked
                   /\ m.arg \in Ids \cup Topics
                   /\ m.type = "call" => m.arg \in Ids}
Returned ==
  {m \in Message :
     /\ m.type \in {"call_result", "call_error"} =>
          <<"call", m.arg>> \in asked /\ <<m.type, m.arg>> \in answered
     /\ m.type = "event" => <<"subscribe", m.arg>> \in asked}

\* The LCU knows nothing but what it was asked in this connection.
SessionInv ==
  /\ to_lcu \in Seq(Sent)
  /\ from_lcu \in Seq(Returned)
  /\ \A id \in executing : <<"call", id>> \in asked
  /\ \A name \in subscriptions : <<"subscribe", name>> \in asked

Inv == TypeOK /\ CallbackInv /\ SessionInv /\ AnswersAreForCalls /\ EventsAreSubscribed

\* A queue of messages is one of a larger set of messages too.
LEMMA SeqMonotone ==
  ASSUME NEW S, NEW T, S \subseteq T, NEW s \in Seq(S)
  PROVE  s \in Seq(T)
  OBVIOUS

\* The queues hold messages, and an empty one holds none.
LEMMA Empty == ASSUME NEW S PROVE <<>> \in Seq(S)
  OBVIOUS

LEMMA QueueSteps ==
  ASSUME NEW S, NEW s \in Seq(S)
  PROVE  /\ s # <<>> => Head(s) \in S /\ Tail(s) \in Seq(S)
         /\ \A m \in S : Append(s, m) \in Seq(S)
  OBVIOUS

LEMMA InitInv == Init => Inv
<1> SUFFICES ASSUME Init PROVE Inv
  OBVIOUS
<1> USE DEF Init
<1>1. TypeOK
  <2>1. to_lcu \in Seq(Message) /\ from_lcu \in Seq(Message)
    BY Empty
  <2> QED
    BY <2>1, Zenon DEF TypeOK, Base!TypeOK, Base!Callbacks, None, Names
<1>2. CallbackInv /\ AnswersAreForCalls /\ EventsAreSubscribed
  BY DEF CallbackInv, ConnectionCallbacks, AnswersAreForCalls, EventsAreSubscribed, None
<1>3. SessionInv
  BY Empty DEF SessionInv
<1> QED
  BY <1>1, <1>2, <1>3 DEF Inv

\* A message that the application sends: what is on the way back stays what it
\* was, and more has been asked.
LEMMA SendInv ==
  ASSUME Inv, NEW m \in Message, send_message(m),
         m.arg \in Ids \cup Topics, m.type = "call" => m.arg \in Ids
  PROVE  Inv'
<1> USE DEF send_message
<1>1. asked \subseteq asked' /\ m \in Sent'
  BY DEF Sent
<1>2. Sent \subseteq Sent' /\ Returned \subseteq Returned'
  BY <1>1 DEF Sent, Returned
<1>3. to_lcu' \in Seq(Sent') /\ from_lcu' \in Seq(Returned')
  <2>1. to_lcu \in Seq(Sent') /\ from_lcu \in Seq(Returned')
    BY <1>2, SeqMonotone DEF Inv, SessionInv
  <2>2. Append(to_lcu, m) \in Seq(Sent')
    BY <1>1, <2>1, QueueSteps
  <2> QED
    BY <2>1, <2>2
<1>4. TypeOK'
  <2>1. to_lcu' \in Seq(Message) /\ from_lcu' \in Seq(Message)
    BY QueueSteps DEF Inv, TypeOK
  <2>2. asked' \subseteq Types \X Names
    BY DEF Inv, TypeOK, Message
  <2> QED
    BY <2>1, <2>2, Zenon DEF Inv, TypeOK, base, Base!TypeOK
<1>5. SessionInv'
  BY <1>1, <1>3 DEF Inv, SessionInv
<1>6. CallbackInv' /\ AnswersAreForCalls' /\ EventsAreSubscribed'
  BY <1>1 DEF Inv, CallbackInv, AnswersAreForCalls, EventsAreSubscribed, base
<1> QED
  BY <1>4, <1>5, <1>6 DEF Inv

\* A thread in run() starts, loses or reports a connection.
LEMMA ConnectionInv ==
  ASSUME Inv, Reconnect \/ Lose \/ on_connected \/ on_disconnected \/ CallbackReturns
  PROVE  Inv'
<1>1. CASE Reconnect
  <2>1. /\ to_lcu' = <<>> /\ from_lcu' = <<>> /\ user_cb = None
        /\ UNCHANGED <<base, registered, user_cb>>
    BY <1>1 DEF Reconnect, Inv, CallbackInv
  <2>2. to_lcu' \in Seq(Message) /\ from_lcu' \in Seq(Message)
    BY <2>1, Empty
  <2>3. TypeOK'
    BY <1>1, <2>2, Zenon DEF Reconnect, Inv, TypeOK, base, Base!TypeOK
  <2>4. SessionInv'
    BY <1>1, <2>1, Empty DEF Reconnect, SessionInv
  <2>5. CallbackInv' /\ AnswersAreForCalls' /\ EventsAreSubscribed'
    BY <2>1 DEF Inv, CallbackInv, AnswersAreForCalls, EventsAreSubscribed, base, None
  <2> QED
    BY <2>3, <2>4, <2>5 DEF Inv
<1>2. CASE Lose
  <2>1. /\ from_lcu' = <<>>
        /\ UNCHANGED <<base, registered, user_cb, to_lcu, subscriptions, executing, asked,
                       answered>>
    BY <1>2 DEF Lose
  <2>2. from_lcu' \in Seq(Message) /\ from_lcu' \in Seq(Returned')
    BY <2>1, Empty
  <2>3. TypeOK'
    BY <1>2, <2>2, Zenon DEF Lose, Inv, TypeOK, base, Base!TypeOK
  <2>4. Sent' = Sent
    BY <2>1 DEF Sent
  <2>5. SessionInv'
    BY <2>1, <2>2, <2>4 DEF Inv, SessionInv
  <2>6. CallbackInv' /\ AnswersAreForCalls' /\ EventsAreSubscribed'
    BY <2>1 DEF Inv, CallbackInv, AnswersAreForCalls, EventsAreSubscribed, base
  <2> QED
    BY <2>3, <2>5, <2>6 DEF Inv
<1>3. CASE on_connected \/ on_disconnected \/ CallbackReturns
  <2>1. UNCHANGED <<registered, link, peer, asked>>
    BY <1>3 DEF on_connected, on_disconnected, CallbackReturns
  <2>2. \/ user_cb' = None
        \/ \E c \in registered \cap ConnectionCallbacks :
             user_cb' = [callback |-> c, arg |-> "none"]
    BY <1>3 DEF on_connected, on_disconnected, CallbackReturns, Invoke, ConnectionCallbacks
  <2>3. Base!TypeOK'
    BY <1>3 DEF on_connected, on_disconnected, CallbackReturns, Base!Report, Base!Return,
       Base!TypeOK, Base!Callbacks, Inv, TypeOK
  <2>4. TypeOK'
    BY <2>1, <2>2, <2>3 DEF Inv, TypeOK, peer, None, Names
  <2>5. Sent' = Sent /\ Returned' = Returned
    BY <2>1 DEF Sent, Returned, peer
  <2>6. SessionInv'
    BY <2>1, <2>5 DEF Inv, SessionInv, peer
  <2>7. CallbackInv'
    <3> USE DEF Invoke, CallbackInv, ConnectionCallbacks, None
    <3>1. CASE on_connected
      BY <3>1 DEF on_connected, Base!Report, Inv
    <3>2. CASE on_disconnected
      BY <3>2 DEF on_disconnected, Base!Report, Inv, TypeOK, Base!TypeOK
    <3>3. CASE CallbackReturns
      BY <3>3 DEF CallbackReturns, Base!Return
    <3> QED
      BY <1>3, <3>1, <3>2, <3>3
  <2>8. AnswersAreForCalls' /\ EventsAreSubscribed'
    BY <2>2 DEF AnswersAreForCalls, EventsAreSubscribed, None, ConnectionCallbacks
  <2> QED
    BY <2>4, <2>6, <2>7, <2>8 DEF Inv
<1> QED
  BY <1>1, <1>2, <1>3

\* A message of the LCU is handed to its callback, or dropped.
LEMMA ReceiveInv ==
  ASSUME Inv, on_message \/ Drop
  PROVE  Inv'
<1> DEFINE m == Head(from_lcu)
<1>1. /\ from_lcu # <<>> /\ from_lcu' = Tail(from_lcu)
      /\ UNCHANGED <<registered, link, to_lcu, subscriptions, executing, asked, answered>>
  BY DEF on_message, Drop
<1>2. m \in Returned /\ from_lcu' \in Seq(Returned) /\ from_lcu' \in Seq(Message)
  BY <1>1, QueueSteps DEF Inv, SessionInv, TypeOK
<1>3. Sent' = Sent /\ Returned' = Returned
  BY <1>1 DEF Sent, Returned
<1>4. SessionInv'
  BY <1>1, <1>2, <1>3 DEF Inv, SessionInv
<1>5. CASE Drop
  <2>1. UNCHANGED <<base, user_cb>>
    BY <1>5 DEF Drop
  <2>2. TypeOK'
    BY <1>1, <1>2, <2>1, Zenon DEF Inv, TypeOK, base, Base!TypeOK
  <2>3. CallbackInv' /\ AnswersAreForCalls' /\ EventsAreSubscribed'
    BY <1>1, <2>1 DEF Inv, CallbackInv, AnswersAreForCalls, EventsAreSubscribed, base
  <2> QED
    BY <1>4, <2>2, <2>3 DEF Inv
<1>6. CASE on_message
  <2>1. Base!Deliver /\ Invoke(Dispatch(m), m.arg)
    BY <1>6 DEF on_message
  <2>2. \/ user_cb' = None
        \/ /\ user_cb' = [callback |-> m.type, arg |-> m.arg]
           /\ m.type \in registered \cap MessageCallbacks
    BY <2>1 DEF Invoke, Dispatch, None, Inv, TypeOK, ConnectionCallbacks, MessageCallbacks
  <2>3. m.arg \in Names
    BY <1>2 DEF Returned, Message
  <2>4. Base!TypeOK'
    BY <2>1 DEF Base!Deliver, Base!TypeOK, Base!Callbacks, Inv, TypeOK
  <2>5. user_cb' \in [callback : {"none"} \cup ConnectionCallbacks \cup MessageCallbacks,
                      arg : Names]
        /\ user_cb'.callback \in registered \cup {"none"}
    BY <2>2, <2>3 DEF None, Names
  <2>6. TypeOK'
    BY <1>1, <1>2, <2>4, <2>5 DEF Inv, TypeOK
  <2>7. CallbackInv'
    BY <2>1, <2>2 DEF Base!Deliver, Inv, CallbackInv, ConnectionCallbacks, MessageCallbacks,
       None
  <2>8. AnswersAreForCalls' /\ EventsAreSubscribed'
    BY <1>1, <1>2, <2>2 DEF Returned, AnswersAreForCalls, EventsAreSubscribed, None
  <2> QED
    BY <1>4, <2>6, <2>7, <2>8 DEF Inv
<1> QED
  BY <1>5, <1>6

\* The LCU carries out a message, or not.
LEMMA LcuReceivesInv ==
  ASSUME Inv, LcuReceives
  PROVE  Inv'
<1> DEFINE m == Head(to_lcu)
<1>1. /\ to_lcu # <<>> /\ to_lcu' = Tail(to_lcu)
      /\ UNCHANGED <<base, registered, user_cb, asked, from_lcu, answered>>
  BY DEF LcuReceives, Lcu
<1>2. m \in Sent /\ to_lcu' \in Seq(Sent) /\ to_lcu' \in Seq(Message)
  BY <1>1, QueueSteps DEF Inv, SessionInv, TypeOK
<1>3. Sent' = Sent /\ Returned' = Returned
  BY <1>1 DEF Sent, Returned
<1>4. /\ subscriptions' \subseteq subscriptions \cup {m.arg}
      /\ m.type # "subscribe" => subscriptions' \subseteq subscriptions
      /\ executing' \subseteq executing \cup {m.arg}
      /\ m.type # "call" => executing' = executing
      /\ link' \in {"up", "closed"}
  BY DEF LcuReceives, Lcu
<1>5. TypeOK'
  <2>1. subscriptions' \subseteq Ids \cup Topics /\ executing' \subseteq Ids
    BY <1>2, <1>4 DEF Sent, Inv, TypeOK
  <2>2. link' \in {"none", "up", "closed", "lost"} /\ Base!TypeOK'
    BY <1>1, <1>4 DEF Inv, TypeOK, base, Base!TypeOK
  <2> QED
    BY <1>1, <1>2, <2>1, <2>2, Zenon DEF Inv, TypeOK
<1>6. SessionInv'
  <2>1. \A id \in executing' : <<"call", id>> \in asked
    BY <1>2, <1>4 DEF Sent, Inv, SessionInv
  <2>2. \A name \in subscriptions' : <<"subscribe", name>> \in asked
    BY <1>2, <1>4 DEF Sent, Inv, SessionInv
  <2> QED
    BY <1>1, <1>2, <1>3, <2>1, <2>2 DEF Inv, SessionInv
<1>7. CallbackInv' /\ AnswersAreForCalls' /\ EventsAreSubscribed'
  BY <1>1 DEF Inv, CallbackInv, AnswersAreForCalls, EventsAreSubscribed, base
<1> QED
  BY <1>5, <1>6, <1>7 DEF Inv

\* The LCU answers a call, or sends an event or something else.
LEMMA LcuSendsInv ==
  ASSUME Inv, Lcu, NEW m \in Message, LcuSends(m), m \in Returned',
         executing' \subseteq executing,
         answered \subseteq answered', answered' \subseteq Types \X Names
  PROVE  Inv'
<1>1. UNCHANGED <<base, registered, user_cb, asked, link, to_lcu, subscriptions>>
  BY DEF Lcu, LcuSends
<1>2. Sent' = Sent /\ Returned \subseteq Returned'
  BY <1>1 DEF Sent, Returned
<1>3. from_lcu' \in Seq(Returned') /\ from_lcu' \in Seq(Message)
  <2>1. from_lcu \in Seq(Returned')
    BY <1>2, SeqMonotone DEF Inv, SessionInv
  <2> QED
    BY <2>1, QueueSteps DEF LcuSends, Inv, TypeOK
<1>4. TypeOK'
  <2>1. executing' \subseteq Ids
    BY DEF Inv, TypeOK
  <2> QED
    BY <1>1, <1>3, <2>1, Zenon DEF Inv, TypeOK, base, Base!TypeOK
<1>5. SessionInv'
  BY <1>1, <1>2, <1>3 DEF Inv, SessionInv
<1>6. CallbackInv' /\ AnswersAreForCalls' /\ EventsAreSubscribed'
  BY <1>1 DEF Inv, CallbackInv, AnswersAreForCalls, EventsAreSubscribed, base
<1> QED
  BY <1>4, <1>5, <1>6 DEF Inv

LEMMA LcuInv ==
  ASSUME Inv, LcuAnswers \/ LcuSendsEvent \/ LcuSendsOther \/ LcuHangsUp
  PROVE  Inv'
<1>1. executing \subseteq Ids /\ subscriptions \subseteq Ids \cup Topics
      /\ answered \subseteq Types \X Names
  BY DEF Inv, TypeOK
<1>2. CASE LcuAnswers
  <2>1. PICK id \in executing, type \in {"call_result", "call_error"}, complete \in BOOLEAN :
          /\ LcuSends([type |-> type, arg |-> id, complete |-> complete, closed |-> TRUE])
          /\ executing' = executing \ {id}
          /\ answered' = answered \cup {<<type, id>>}
    BY <1>2 DEF LcuAnswers
  <2> DEFINE m == [type |-> type, arg |-> id, complete |-> complete, closed |-> TRUE]
  <2>2. m \in Message /\ <<type, id>> \in Types \X Names
    BY <1>1, <2>1 DEF Message, Types, Names
  <2>3. <<"call", id>> \in asked' /\ <<type, id>> \in answered'
    BY <1>2, <2>1 DEF LcuAnswers, Lcu, Inv, SessionInv
  <2>4. m \in Returned'
    BY <2>1, <2>2, <2>3 DEF Returned
  <2> QED
    BY <1>1, <1>2, <2>1, <2>2, <2>4, LcuSendsInv DEF LcuAnswers
<1>3. CASE LcuSendsEvent
  <2>1. PICK topic \in subscriptions \cap Topics, complete \in BOOLEAN :
          LcuSends([type |-> "event", arg |-> topic, complete |-> complete, closed |-> TRUE])
    BY <1>3 DEF LcuSendsEvent
  <2> DEFINE m == [type |-> "event", arg |-> topic, complete |-> complete, closed |-> TRUE]
  <2>2. m \in Message
    BY <1>1, <2>1 DEF Message, Types, Names
  <2>3. <<"subscribe", topic>> \in asked'
    BY <1>3, <2>1 DEF LcuSendsEvent, Lcu, Inv, SessionInv
  <2>4. m \in Returned'
    BY <2>2, <2>3 DEF Returned
  <2> QED
    BY <1>1, <1>3, <2>1, <2>2, <2>4, LcuSendsInv DEF LcuSendsEvent
<1>4. CASE LcuSendsOther
  <2> DEFINE m == [type |-> "other", arg |-> "none", complete |-> TRUE, closed |-> TRUE]
  <2>1. m \in Message
    BY DEF Message, Types, Names
  <2>2. m \in Returned'
    BY <2>1 DEF Returned
  <2> QED
    BY <1>1, <1>4, <2>1, <2>2, LcuSendsInv DEF LcuSendsOther
<1>5. CASE LcuHangsUp
  <2>1. UNCHANGED <<base, registered, user_cb, asked, peer>> /\ link' = "closed"
    BY <1>5 DEF LcuHangsUp, Lcu
  <2>2. Sent' = Sent /\ Returned' = Returned
    BY <2>1 DEF Sent, Returned, peer
  <2>3. TypeOK'
    BY <2>1 DEF Inv, TypeOK, base, peer, Base!TypeOK
  <2>4. SessionInv'
    BY <2>1, <2>2 DEF Inv, SessionInv, peer
  <2>5. CallbackInv' /\ AnswersAreForCalls' /\ EventsAreSubscribed'
    BY <2>1 DEF Inv, CallbackInv, AnswersAreForCalls, EventsAreSubscribed, base, peer
  <2> QED
    BY <2>3, <2>4, <2>5 DEF Inv
<1> QED
  BY <1>2, <1>3, <1>4, <1>5

LEMMA NextInv == Inv /\ [Next]_vars => Inv'
<1> SUFFICES ASSUME Inv, [Next]_vars PROVE Inv'
  OBVIOUS
<1>1. ASSUME NEW c \in ConnectionCallbacks \cup MessageCallbacks, Register(c)
      PROVE  Inv'
  <2>1. /\ cb = "none" /\ registered' = registered \cup {c}
        /\ UNCHANGED <<base, user_cb, link, peer, asked>>
    BY <1>1 DEF Register
  <2>2. Sent' = Sent /\ Returned' = Returned
    BY <2>1 DEF Sent, Returned, peer
  <2>3. TypeOK'
    BY <2>1 DEF Inv, TypeOK, base, peer, Base!TypeOK
  <2>4. SessionInv'
    BY <2>1, <2>2 DEF Inv, SessionInv, peer
  <2>5. CallbackInv' /\ AnswersAreForCalls' /\ EventsAreSubscribed'
    BY <2>1 DEF Inv, CallbackInv, ConnectionCallbacks, AnswersAreForCalls,
       EventsAreSubscribed, base, peer
  <2> QED
    BY <2>3, <2>4, <2>5 DEF Inv
<1>2. ASSUME NEW id \in Ids, CallWithArguments(id) \/ Call(id)
      PROVE  Inv'
  <2> DEFINE m(type) == [type |-> type, arg |-> id, complete |-> TRUE, closed |-> TRUE]
  <2>1. m("call") \in Message /\ m("subscribe") \in Message
    BY DEF Message, Types, Names
  <2>2. send_message(m("call")) \/ send_message(m("subscribe"))
    BY <1>2 DEF CallWithArguments, Call
  <2> QED
    BY <2>1, <2>2, SendInv
<1>3. ASSUME NEW topic \in Topics, Subscribe(topic) \/ Unsubscribe(topic)
      PROVE  Inv'
  <2> DEFINE m(type) == [type |-> type, arg |-> topic, complete |-> TRUE, closed |-> FALSE]
  <2>1. m("subscribe") \in Message /\ m("unsubscribe") \in Message
    BY DEF Message, Types, Names
  <2>2. send_message(m("subscribe")) \/ send_message(m("unsubscribe"))
    BY <1>3 DEF Subscribe, Unsubscribe
  <2> QED
    BY <2>1, <2>2, SendInv
<1>4. CASE UNCHANGED vars
  <2>1. Sent' = Sent /\ Returned' = Returned
    BY <1>4 DEF vars, Sent, Returned, peer
  <2>2. TypeOK'
    BY <1>4 DEF vars, Inv, TypeOK, base, peer, Base!TypeOK
  <2>3. SessionInv'
    BY <1>4, <2>1 DEF vars, Inv, SessionInv, peer
  <2>4. CallbackInv' /\ AnswersAreForCalls' /\ EventsAreSubscribed'
    BY <1>4 DEF vars, Inv, CallbackInv, AnswersAreForCalls, EventsAreSubscribed, base, peer
  <2> QED
    BY <2>2, <2>3, <2>4 DEF Inv
<1> QED
  BY <1>1, <1>2, <1>3, <1>4, ConnectionInv, ReceiveInv, LcuReceivesInv, LcuInv DEF Next

LEMMA InvAlways == Spec => []Inv
  BY InitInv, NextInv, PTL DEF Spec

----------------------------------------------------------------------------

\* The types of the variables; only a callback that is registered is executed.
THEOREM TypeCorrect == Spec => []TypeOK
<1>1. Inv => TypeOK
  BY DEF Inv
<1> QED
  BY <1>1, InvAlways, PTL

\* An answer is reported for a call of this connection, as the LCU gave it.
THEOREM AnswersBelongToCalls == Spec => []AnswersAreForCalls
<1>1. Inv => AnswersAreForCalls
  BY DEF Inv
<1> QED
  BY <1>1, InvAlways, PTL

\* An event is reported when it has been subscribed for in this connection.
THEOREM EventsBelongToSubscriptions == Spec => []EventsAreSubscribed
<1>1. Inv => EventsAreSubscribed
  BY DEF Inv
<1> QED
  BY <1>1, InvAlways, PTL

\* The application's callbacks follow ConnectionEvents.tla as those of the
\* handler underneath do, whichever of them are registered.
THEOREM UserEventsImplemented == Spec => UserEventProtocol
<1> DEFINE user == IF user_cb.callback \in MessageCallbacks THEN "message" ELSE user_cb.callback
           shown == (registered \cap ConnectionCallbacks)
                    \cup (IF registered \cap MessageCallbacks # {} THEN {"message"} ELSE {})
<1>1. Init => UserEvents!Init
  BY DEF Init, UserEvents!Init, None, MessageCallbacks
<1>2. Inv /\ [Next]_vars => [UserEvents!Next]_(UserEvents!vars)
  <2> SUFFICES ASSUME Inv, [Next]_vars
               PROVE  UserEvents!Next \/ UNCHANGED UserEvents!vars
    OBVIOUS
  <2>0. TypeOK /\ CallbackInv
    BY DEF Inv
  <2> USE DEF UserEvents!vars
  <2>1. ASSUME NEW c \in ConnectionCallbacks \cup MessageCallbacks, Register(c)
        PROVE  \E d \in UserEvents!Callbacks : UserEvents!Register(d)
    <3> DEFINE d == IF c \in MessageCallbacks THEN "message" ELSE c
    <3>1. shown' = shown \cup {d}
      BY <2>1 DEF Register, ConnectionCallbacks, MessageCallbacks
    <3>2. user = "none" /\ ~up /\ UNCHANGED <<up, user>>
      BY <2>0, <2>1 DEF Register, base, CallbackInv, None, MessageCallbacks
    <3>3. UserEvents!Register(d)
      BY <3>1, <3>2 DEF UserEvents!Register
    <3> QED
      BY <3>3 DEF UserEvents!Callbacks, ConnectionCallbacks, MessageCallbacks
  <2>2. CASE on_connected
    <3>1. up = FALSE /\ cb = "none" /\ up' = up /\ registered' = registered
      BY <2>0, <2>2 DEF on_connected, Base!Report, TypeOK, Base!TypeOK
    <3>2. user = "none"
      BY <2>0, <3>1 DEF CallbackInv, None, MessageCallbacks
    <3>3. CASE "connected" \in registered
      <4>1. user' = "connected" /\ "connected" \in shown
        BY <2>2, <3>3 DEF on_connected, Invoke, MessageCallbacks, ConnectionCallbacks
      <4>2. UserEvents!Report("connected", TRUE)
        BY <3>1, <3>2, <4>1 DEF UserEvents!Report
      <4> QED
        BY <4>2 DEF UserEvents!Next
    <3>4. CASE "connected" \notin registered
      BY <2>2, <3>1, <3>2, <3>4 DEF on_connected, Invoke, None, MessageCallbacks
    <3> QED
      BY <3>3, <3>4
  <2>3. CASE on_disconnected
    <3>1. up = TRUE /\ cb = "none" /\ up' = up /\ registered' = registered
      BY <2>0, <2>3 DEF on_disconnected, Base!Report, TypeOK, Base!TypeOK
    <3>2. user = "none"
      BY <2>0, <3>1 DEF CallbackInv, None, MessageCallbacks
    <3>3. CASE "disconnected" \in registered
      <4>1. user' = "disconnected" /\ "disconnected" \in shown
        BY <2>3, <3>3 DEF on_disconnected, Invoke, MessageCallbacks, ConnectionCallbacks
      <4>2. UserEvents!Report("disconnected", FALSE)
        BY <3>1, <3>2, <4>1 DEF UserEvents!Report
      <4> QED
        BY <4>2 DEF UserEvents!Next
    <3>4. CASE "disconnected" \notin registered
      BY <2>3, <3>1, <3>2, <3>4 DEF on_disconnected, Invoke, None, MessageCallbacks
    <3> QED
      BY <3>3, <3>4
  <2>4. CASE on_message
    <3>1. up /\ cb = "none" /\ up' = up /\ registered' = registered
      BY <2>4 DEF on_message, Base!Deliver
    <3>2. user = "none"
      BY <2>0, <3>1 DEF CallbackInv, None, MessageCallbacks
    <3> DEFINE c == Dispatch(Head(from_lcu))
    <3>3. c \in MessageCallbacks \cup {"none"}
      BY DEF Dispatch
    <3>4. CASE c \in registered
      <4>1. c \in MessageCallbacks
        BY <2>0, <3>3, <3>4 DEF TypeOK, ConnectionCallbacks, MessageCallbacks
      <4>2. user' = "message" /\ "message" \in shown
        BY <2>4, <3>4, <4>1 DEF on_message, Invoke
      <4>3. UserEvents!Deliver
        BY <3>1, <3>2, <4>2 DEF UserEvents!Deliver
      <4> QED
        BY <4>3 DEF UserEvents!Next
    <3>5. CASE c \notin registered
      BY <2>4, <3>1, <3>2, <3>5 DEF on_message, Invoke, None, MessageCallbacks
    <3> QED
      BY <3>4, <3>5
  <2>5. CASE CallbackReturns
    <3>1. /\ cb # "none" /\ up' = (cb # "disconnected") /\ registered' = registered
          /\ user' = "none"
      BY <2>5 DEF CallbackReturns, Base!Return, None, MessageCallbacks
    <3>2. cb \in {"connected", "disconnected", "message"}
      BY <2>0, <3>1 DEF TypeOK, Base!TypeOK, Base!Callbacks
    <3>3. CASE user = cb
      BY <3>1, <3>3 DEF UserEvents!Next, UserEvents!Return
    <3>4. CASE user # cb /\ cb = "message"
      <4>1. user = "none" /\ up
        BY <2>0, <3>4 DEF CallbackInv, MessageCallbacks
      <4> QED
        BY <2>0, <3>1, <3>4, <4>1 DEF TypeOK, Base!TypeOK
    <3>5. CASE user # cb /\ cb # "message"
      <4>1. user = "none" /\ cb \notin registered /\ up # up'
        BY <2>0, <3>1, <3>2, <3>5 DEF CallbackInv, ConnectionCallbacks, MessageCallbacks
      <4>2. cb \notin shown
        BY <3>2, <3>5, <4>1
      <4>3. UserEvents!Report("connected", TRUE) \/ UserEvents!Report("disconnected", FALSE)
        BY <3>1, <3>2, <3>5, <4>1, <4>2 DEF UserEvents!Report
      <4> QED
        BY <4>3 DEF UserEvents!Next
    <3> QED
      BY <3>3, <3>4, <3>5
  <2>6. CASE \/ Reconnect \/ Lose \/ Drop
             \/ LcuReceives \/ LcuAnswers \/ LcuSendsEvent \/ LcuSendsOther \/ LcuHangsUp
    BY <2>6 DEF Reconnect, Lose, Drop, LcuReceives, LcuAnswers, LcuSendsEvent,
       LcuSendsOther, LcuHangsUp, Lcu, base
  <2>7. CASE \/ \E id \in Ids : CallWithArguments(id) \/ Call(id)
             \/ \E topic \in Topics : Subscribe(topic) \/ Unsubscribe(topic)
    BY <2>7 DEF CallWithArguments, Call, Subscribe, Unsubscribe, send_message, base
  <2>8. CASE UNCHANGED vars
    BY <2>8 DEF vars, base
  <2> QED
    BY <2>1, <2>2, <2>3, <2>4, <2>5, <2>6, <2>7, <2>8 DEF Next, UserEvents!Next
<1> QED
  BY <1>1, <1>2, InvAlways, PTL DEF Spec, UserEventProtocol, UserEvents!Spec

----------------------------------------------------------------------------
(* What is relied on of the handler underneath.                            *)

\* A message of the LCU waits only on a connection that has not been given up.
LinkInv == from_lcu # <<>> => link \in {"up", "closed"}

LEMMA LinkCorrect == Spec => []LinkInv
<1>1. Init => LinkInv
  BY DEF Init, LinkInv
<1>2. TypeOK /\ LinkInv /\ [Next]_vars => LinkInv'
  <2> SUFFICES ASSUME TypeOK, LinkInv, [Next]_vars PROVE LinkInv'
    OBVIOUS
  <2> USE DEF LinkInv, peer
  <2>1. ASSUME NEW c \in ConnectionCallbacks \cup MessageCallbacks, Register(c)
        PROVE  LinkInv'
    BY <2>1 DEF Register
  <2>2. CASE \/ \E id \in Ids : CallWithArguments(id) \/ Call(id)
             \/ \E topic \in Topics : Subscribe(topic) \/ Unsubscribe(topic)
    BY <2>2 DEF CallWithArguments, Call, Subscribe, Unsubscribe, send_message
  <2>3. CASE Reconnect \/ Lose
    BY <2>3 DEF Reconnect, Lose
  <2>4. CASE on_connected \/ on_disconnected \/ CallbackReturns
    BY <2>4 DEF on_connected, on_disconnected, CallbackReturns
  <2>5. CASE on_message \/ Drop
    BY <2>5 DEF on_message, Drop
  <2>6. CASE LcuReceives \/ LcuAnswers \/ LcuSendsEvent \/ LcuSendsOther \/ LcuHangsUp
    BY <2>6 DEF LcuReceives, LcuAnswers, LcuSendsEvent, LcuSendsOther, LcuHangsUp, LcuSends,
       Lcu
  <2>7. CASE UNCHANGED vars
    BY <2>7 DEF vars
  <2> QED
    BY <2>1, <2>2, <2>3, <2>4, <2>5, <2>6, <2>7 DEF Next
<1> QED
  BY <1>1, <1>2, TypeCorrect, PTL DEF Spec

\* The handler underneath takes only steps that ReportedConnection.tla allows it:
\* those that HandlerClientProofs.tla shows Lcu_websocket_handler to take.
THEOREM ReliesOnReportsOnly == Spec => ReliesOnReports
<1>1. Init => Underneath!Init
  BY DEF Init, Underneath!Init, Underneath!Events!Callbacks
<1>2. ASSUME TypeOK, LinkInv, [Next]_vars
      PROVE  [Underneath!Next]_(Underneath!vars)
  <2> USE <1>2 DEF Underneath!vars, Underneath!Events!vars, base, peer
  <2>1. ASSUME NEW c \in ConnectionCallbacks \cup MessageCallbacks, Register(c)
        PROVE  UNCHANGED Underneath!vars
    BY <2>1 DEF Register
  <2>2. CASE \/ \E id \in Ids : CallWithArguments(id) \/ Call(id)
             \/ \E topic \in Topics : Subscribe(topic) \/ Unsubscribe(topic)
    BY <2>2 DEF CallWithArguments, Call, Subscribe, Unsubscribe, send_message
  <2>3. CASE Reconnect
    BY <2>3 DEF Reconnect, Underneath!Next, Underneath!Connect
  <2>4. CASE Lose
    BY <2>4 DEF Lose, Underneath!Next, Underneath!Lose
  <2>5. CASE on_connected
    BY <2>5 DEF on_connected, Base!Report, Underneath!Next, Underneath!Report,
       Underneath!Events!Report
  <2>6. CASE on_disconnected
    BY <2>6 DEF on_disconnected, Base!Report, Underneath!Next, Underneath!Report,
       Underneath!Events!Report
  <2>7. CASE on_message
    BY <2>7 DEF on_message, LinkInv, Base!Deliver, Underneath!Next, Underneath!Report,
       Underneath!Events!Deliver
  <2>8. CASE Drop
    BY <2>8 DEF Drop
  <2>9. CASE CallbackReturns
    BY <2>9 DEF CallbackReturns, Base!Return, Underneath!Next, Underneath!Return,
       Underneath!Events!Return
  <2>10. CASE LcuReceives \/ LcuAnswers \/ LcuSendsEvent \/ LcuSendsOther \/ LcuHangsUp
    <3>1. link = "up" /\ UNCHANGED <<up, cb>>
      BY <2>10 DEF LcuReceives, LcuAnswers, LcuSendsEvent, LcuSendsOther, LcuHangsUp, Lcu
    <3>2. link' \in {"up", "closed"}
      BY <2>10, <3>1 DEF LcuReceives, LcuAnswers, LcuSendsEvent, LcuSendsOther, LcuHangsUp,
         LcuSends
    <3> QED
      BY <3>1, <3>2
  <2>11. CASE UNCHANGED vars
    BY <2>11 DEF vars
  <2> QED
    BY <2>1, <2>2, <2>3, <2>4, <2>5, <2>6, <2>7, <2>8, <2>9, <2>10, <2>11 DEF Next
<1> QED
  BY <1>1, <1>2, TypeCorrect, LinkCorrect, PTL DEF Spec, ReliesOnReports, Underneath!Spec

----------------------------------------------------------------------------
(* Which calls the LCU takes for subscriptions.                            *)

\* The application never uses the overload of call() without arguments.
CallsHaveArguments == [][\A id \in Ids : ~Call(id)]_vars

\* Then nothing on the way to the LCU subscribes to the ID of a call.
Plain == {m \in Message : m.type = "subscribe" => m.arg \notin Ids}
PlainInv == to_lcu \in Seq(Plain) /\ CallsAreNotSubscriptions

\* That the LCU subscribes to the ID of a call (CallsAreNotSubscriptions,
\* violated without the hypothesis) takes that overload, l.82-86: the call() with
\* arguments, subscribe() and unsubscribe() never bring it about.
THEOREM CallsWithArgumentsAreCalls ==
  Spec /\ CallsHaveArguments => []CallsAreNotSubscriptions
<1> DEFINE NoCall == \A id \in Ids : ~Call(id)
<1>1. Init => PlainInv
  BY Empty DEF Init, PlainInv, CallsAreNotSubscriptions
<1>2. PlainInv /\ [Next]_vars /\ [NoCall]_vars => PlainInv'
  <2> SUFFICES ASSUME PlainInv, [Next]_vars, [NoCall]_vars PROVE PlainInv'
    OBVIOUS
  <2>0. to_lcu \in Seq(Plain) /\ subscriptions \cap Ids = {}
    BY DEF PlainInv, CallsAreNotSubscriptions
  <2> USE DEF PlainInv, CallsAreNotSubscriptions
  <2>1. CASE UNCHANGED <<to_lcu, subscriptions>>
    BY <2>0, <2>1
  <2>2. ASSUME NEW m \in Plain, send_message(m)
        PROVE  PlainInv'
    BY <2>0, <2>2, QueueSteps DEF send_message
  <2>3. ASSUME NEW id \in Ids, CallWithArguments(id)
        PROVE  PlainInv'
    <3>1. [type |-> "call", arg |-> id, complete |-> TRUE, closed |-> TRUE] \in Plain
      BY DEF Plain, Message, Types, Names
    <3> QED
      BY <2>2, <2>3, <3>1 DEF CallWithArguments
  <2>4. ASSUME NEW topic \in Topics, Subscribe(topic) \/ Unsubscribe(topic)
        PROVE  PlainInv'
    <3> DEFINE m(type) == [type |-> type, arg |-> topic, complete |-> TRUE, closed |-> FALSE]
    <3>1. m("subscribe") \in Plain /\ m("unsubscribe") \in Plain
      BY NameAssumption DEF Plain, Message, Types, Names
    <3> QED
      BY <2>2, <2>4, <3>1 DEF Subscribe, Unsubscribe
  <2>5. ASSUME NEW id \in Ids, Call(id)
        PROVE  PlainInv'
    BY <2>1, <2>5 DEF vars, peer
  <2>6. CASE Reconnect
    BY <2>6, Empty DEF Reconnect
  <2>7. CASE LcuReceives
    <3> DEFINE m == Head(to_lcu)
    <3>1. m \in Plain /\ to_lcu' = Tail(to_lcu) /\ to_lcu' \in Seq(Plain)
      BY <2>0, <2>7, QueueSteps DEF LcuReceives
    <3>2. \/ subscriptions' \subseteq subscriptions
          \/ m.type = "subscribe" /\ subscriptions' = subscriptions \cup {m.arg}
      BY <2>7 DEF LcuReceives
    <3> QED
      BY <2>0, <3>1, <3>2 DEF Plain
  <2>8. CASE \/ \E c \in ConnectionCallbacks \cup MessageCallbacks : Register(c)
             \/ Lose \/ on_connected \/ on_disconnected \/ on_message \/ Drop
             \/ CallbackReturns \/ LcuAnswers \/ LcuSendsEvent \/ LcuSendsOther \/ LcuHangsUp
    BY <2>1, <2>8 DEF Register, Lose, on_connected, on_disconnected, on_message, Drop,
       CallbackReturns, LcuAnswers, LcuSendsEvent, LcuSendsOther, LcuHangsUp, LcuSends, peer
  <2>9. CASE UNCHANGED vars
    BY <2>1, <2>9 DEF vars, peer
  <2> QED
    BY <2>3, <2>4, <2>5, <2>6, <2>7, <2>8, <2>9 DEF Next
<1>3. PlainInv => CallsAreNotSubscriptions
  BY DEF PlainInv
<1> QED
  BY <1>1, <1>2, <1>3, PTL DEF Spec, CallsHaveArguments

=============================================================================
