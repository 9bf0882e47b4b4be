-------------------------- MODULE LcuWampHandler --------------------------
(***************************************************************************)
(* Lcu_wamp_handler: the messages it sends for call(), subscribe() and     *)
(* unsubscribe(), what it makes of the messages it receives, and the LCU   *)
(* as the router at the other end.  The Lcu_websocket_handler underneath   *)
(* is what ConnectionEvents.tla says of it, with all three callbacks       *)
(* registered by the constructor; send_message() is one step, as           *)
(* m_socket_mutex makes it.                                                *)
(***************************************************************************)
EXTENDS Naturals, Sequences

CONSTANTS
  Ids,         \* of calls
  Topics,      \* names of events
  MaxSent,     \* bound: messages on the way to the LCU
  MaxReceived  \* bound: messages of the LCU not yet received

ASSUME NameAssumption == Ids \cap Topics = {}
ASSUME QueueAssumption == MaxSent \in Nat \ {0} /\ MaxReceived \in Nat \ {0}

VARIABLES
  up, cb,         \* m_lcu_websocket_handler, as in ConnectionEvents
  registered,     \* the callbacks the application has registered
  user_cb,        \* the application's callback being executed, and its argument
  link,           \* "none", "up", "closed" by the LCU, or "lost": is_connected() is false
  to_lcu,         \* messages sent and not yet handled by the LCU
  from_lcu,       \* messages of the LCU not yet received
  subscriptions,  \* what the LCU sends events of
  executing,      \* calls the LCU has not answered
  asked,          \* history: what has been sent since the connection was made
  answered        \* history: what the LCU has answered since

base == <<up, cb>>
peer == <<to_lcu, from_lcu, subscriptions, executing, answered>>
vars == <<base, registered, user_cb, link, peer, asked>>

Base == INSTANCE ConnectionEvents WITH
  registered <- {"connected", "disconnected", "message"}

ConnectionCallbacks == {"connected", "disconnected"}
MessageCallbacks == {"call_result", "call_error", "event"}
None == [callback |-> "none", arg |-> "none"]

\* Wamp_message_type; "other" is a message that is no JSON array, an empty
\* one, or one of another type.
Types == {"call", "call_result", "call_error", "subscribe", "unsubscribe", "event", "other"}
Names == Ids \cup Topics \cup {"none"}

\* A message: its second element, whether the elements after it are there and
\* not null, and whether the array is closed by a bracket.
Message == [type : Types, arg : Names, complete : BOOLEAN, closed : BOOLEAN]

\* The types; only a callback that is registered is ever executed.
TypeOK ==
  /\ Base!TypeOK
  /\ registered \subseteq ConnectionCallbacks \cup MessageCallbacks
  /\ user_cb \in [callback : {"none"} \cup ConnectionCallbacks \cup MessageCallbacks, arg : Names]
  /\ user_cb.callback \in registered \cup {"none"}
  /\ link \in {"none", "up", "closed", "lost"}
  /\ to_lcu \in Seq(Message) /\ from_lcu \in Seq(Message)
  /\ subscriptions \subseteq Ids \cup Topics /\ executing \subseteq Ids
  /\ asked \subseteq Types \X Names /\ answered \subseteq Types \X Names

Init ==
  /\ up = FALSE /\ cb = "none"
  /\ registered = {} /\ user_cb = None /\ link = "none"
  /\ to_lcu = <<>> /\ from_lcu = <<>>
  /\ subscriptions = {} /\ executing = {} /\ asked = {} /\ answered = {}

----------------------------------------------------------------------------
(* The application's calls.  A definition called faulty is the definition  *)
(* after it with a mistake that the code does not make.                    *)

Register(c) ==
  /\ ~up /\ cb = "none" /\ link \in {"none", "lost"}
  /\ registered' = registered \cup {c}
  /\ UNCHANGED <<base, user_cb, link, peer, asked>>

\* m_lcu_websocket_handler.send_message(): false while not connected; a
\* message on a connection that the LCU has closed is lost.
send_message(m) ==
  /\ link \in {"up", "closed"} /\ Len(to_lcu) < MaxSent
  /\ to_lcu' = IF link = "up" THEN Append(to_lcu, m) ELSE to_lcu
  /\ asked' = asked \cup {<<m.type, m.arg>>}
  /\ UNCHANGED <<base, registered, user_cb, link, from_lcu, subscriptions, executing, answered>>

CallWithArguments(id) ==
  send_message([type |-> "call", arg |-> id, complete |-> TRUE, closed |-> TRUE])

\* The overload without arguments sends Wamp_message_type::subscribe.
Call(id) ==
  send_message([type |-> "subscribe", arg |-> id, complete |-> TRUE, closed |-> TRUE])

\* The array is not closed.
Subscribe(topic) ==
  send_message([type |-> "subscribe", arg |-> topic, complete |-> TRUE, closed |-> FALSE])

Unsubscribe(topic) ==
  send_message([type |-> "unsubscribe", arg |-> topic, complete |-> TRUE, closed |-> FALSE])

----------------------------------------------------------------------------
(* The thread in run().                                                    *)

\* A new connection of the handler: nothing of the last one is left.
Reconnect ==
  /\ link \in {"none", "lost"} /\ ~up /\ cb = "none"
  /\ link' = "up"
  /\ to_lcu' = <<>> /\ from_lcu' = <<>>
  /\ subscriptions' = {} /\ executing' = {} /\ asked' = {} /\ answered' = {}
  /\ UNCHANGED <<base, registered, user_cb>>

\* Faulty: what has been received of the last connection is reported after it.
LoseKeepsMessages ==
  /\ link \in {"up", "closed"} /\ up /\ cb = "none"
  /\ link' = "lost"
  /\ UNCHANGED <<base, registered, user_cb, peer, asked>>
\* The connection is found to be closed or of no more use, or stop() ends it.
Lose ==
  /\ link \in {"up", "closed"} /\ up /\ cb = "none"
  /\ link' = "lost" /\ from_lcu' = <<>>
  /\ UNCHANGED <<base, registered, user_cb, to_lcu, subscriptions, executing, asked, answered>>

\* Faulty: an empty std::function is called.
InvokeUnchecked(c, arg) == user_cb' = [callback |-> c, arg |-> arg]
\* An application's callback, if it is registered.
Invoke(c, arg) ==
  user_cb' = IF c \in registered THEN [callback |-> c, arg |-> arg] ELSE None

on_connected ==
  /\ link \in {"up", "closed"} /\ Base!Report("connected", TRUE)
  /\ Invoke("connected", "none")
  /\ UNCHANGED <<registered, link, peer, asked>>

\* Faulty: the other callback.
on_disconnected_calls_connected ==
  /\ link = "lost" /\ Base!Report("disconnected", FALSE)
  /\ Invoke("connected", "none")
  /\ UNCHANGED <<registered, link, peer, asked>>
on_disconnected ==
  /\ link = "lost" /\ Base!Report("disconnected", FALSE)
  /\ Invoke("disconnected", "none")
  /\ UNCHANGED <<registered, link, peer, asked>>

\* Faulty: the case of a result falls through to that of an error.
DispatchFallsThrough(m) ==
  IF m.complete /\ m.type \in MessageCallbacks
    THEN IF m.type = "call_result" THEN "call_error" ELSE m.type
    ELSE "none"
\* Faulty: an event and a result have each other's number.
DispatchSwapped(m) ==
  IF m.complete /\ m.type \in MessageCallbacks
    THEN CASE m.type = "call_result" -> "event"
           [] m.type = "event" -> "call_result"
           [] OTHER -> m.type
    ELSE "none"
\* dispatch_message(): toString() of an element that is missing or null
\* throws, and the message is dropped, as is one of another type.
Dispatch(m) ==
  IF m.complete /\ m.type \in MessageCallbacks THEN m.type ELSE "none"

on_message ==
  /\ Base!Deliver /\ from_lcu # <<>>
  /\ from_lcu' = Tail(from_lcu)
  /\ Invoke(Dispatch(Head(from_lcu)), Head(from_lcu).arg)
  /\ UNCHANGED <<registered, link, to_lcu, subscriptions, executing, asked, answered>>

\* The client drops a message with an exception.
Drop ==
  /\ up /\ cb = "none" /\ from_lcu # <<>>
  /\ from_lcu' = Tail(from_lcu)
  /\ UNCHANGED <<base, registered, user_cb, link, to_lcu, subscriptions, executing, asked, answered>>

CallbackReturns ==
  /\ Base!Return /\ user_cb' = None
  /\ UNCHANGED <<registered, link, peer, asked>>

----------------------------------------------------------------------------
(* The LCU.                                                                *)

Lcu == link = "up" /\ UNCHANGED <<base, registered, user_cb, asked>>

\* The next message is carried out, or, if it is no JSON array or subscribes
\* to what there is not, ignored or a reason to hang up.
LcuReceives ==
  /\ Lcu /\ to_lcu # <<>> /\ to_lcu' = Tail(to_lcu)
  /\ LET m == Head(to_lcu)
     IN  \/ /\ subscriptions' = CASE m.type = "subscribe" -> subscriptions \cup {m.arg}
                                  [] m.type = "unsubscribe" -> subscriptions \ {m.arg}
                                  [] OTHER -> subscriptions
            /\ executing' = IF m.type = "call" THEN executing \cup {m.arg} ELSE executing
            /\ UNCHANGED link
         \/ /\ m.closed => m.type = "subscribe" /\ m.arg \in Ids
            /\ link' \in {"up", "closed"}
            /\ UNCHANGED <<subscriptions, executing>>
  /\ UNCHANGED <<from_lcu, answered>>

LcuSends(m) ==
  /\ Len(from_lcu) < MaxReceived
  /\ from_lcu' = Append(from_lcu, m)
  /\ UNCHANGED <<link, to_lcu, subscriptions>>

LcuAnswers ==
  /\ Lcu
  /\ \E id \in executing, type \in {"call_result", "call_error"}, complete \in BOOLEAN :
       /\ LcuSends([type |-> type, arg |-> id, complete |-> complete, closed |-> TRUE])
       /\ executing' = executing \ {id}
       /\ answered' = answered \cup {<<type, id>>}

LcuSendsEvent ==
  /\ Lcu
  /\ \E topic \in subscriptions \cap Topics, complete \in BOOLEAN :
       LcuSends([type |-> "event", arg |-> topic, complete |-> complete, closed |-> TRUE])
  /\ UNCHANGED <<executing, answered>>

LcuSendsOther ==
  /\ Lcu
  /\ LcuSends([type |-> "other", arg |-> "none", complete |-> TRUE, closed |-> TRUE])
  /\ UNCHANGED <<executing, answered>>

LcuHangsUp ==
  /\ Lcu /\ link' = "closed"
  /\ UNCHANGED peer

----------------------------------------------------------------------------

Next ==
  \/ \E c \in ConnectionCallbacks \cup MessageCallbacks : Register(c)
  \/ \E id \in Ids : CallWithArguments(id) \/ Call(id)
  \/ \E topic \in Topics : Subscribe(topic) \/ Unsubscribe(topic)
  \/ Reconnect \/ Lose \/ on_connected \/ on_disconnected
  \/ on_message \/ Drop \/ CallbackReturns
  \/ LcuReceives \/ LcuAnswers \/ LcuSendsEvent \/ LcuSendsOther \/ LcuHangsUp

Spec == Init /\ [][Next]_vars

----------------------------------------------------------------------------
(* Properties.                                                             *)

\* The callbacks of this handler follow the protocol of the handler it wraps
\* (l.44-57, 110-124): an application that registers only some of them sees
\* connections and disconnections in turn, and messages only in between.
UserEvents == INSTANCE ConnectionEvents WITH
  cb <- IF user_cb.callback \in MessageCallbacks THEN "message" ELSE user_cb.callback,
  registered <- (registered \cap ConnectionCallbacks)
                \cup (IF registered \cap MessageCallbacks # {} THEN {"message"} ELSE {})
UserEventProtocol == UserEvents!Spec

\* The Lcu_websocket_handler underneath makes no step here that it does not
\* make in LcuWebsocketHandler.tla: it connects after the last loss has been
\* reported, and hands over no message of a connection it has given up
\* (l.44-57, l.110-134).
Underneath == INSTANCE ReportedConnection WITH
  registered <- {"connected", "disconnected", "message"},
  connected <- link \in {"up", "closed"}
ReliesOnReports == Underneath!Spec

\* "If response is received, it will have the same ID" (header l.168): an
\* answer is for a call made on this connection, never on an earlier one, and
\* it is a result or an error as the LCU has said.
AnswersAreForCalls ==
  user_cb.callback \in {"call_result", "call_error"} =>
    /\ <<"call", user_cb.arg>> \in asked
    /\ <<user_cb.callback, user_cb.arg>> \in answered

\* "Subscription information is lost between sessions" (header l.219): an
\* event is reported only when it has been subscribed for since the
\* connection was made.
EventsAreSubscribed ==
  user_cb.callback = "event" => <<"subscribe", user_cb.arg>> \in asked

\* call() without arguments "Sends message of WAMP type CALL" (header l.187):
\* the LCU executes it, and never takes the ID for the name of an event.
CallsAreNotSubscriptions == subscriptions \cap Ids = {}

============================================================================
