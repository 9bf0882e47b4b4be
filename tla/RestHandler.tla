---------------------------- MODULE RestHandler ----------------------------
(***************************************************************************)
(* Lcu_rest_handler and Riot_rest_handler: request() around an             *)
(* Https_rest_client that is kept between the calls, with one more attempt *)
(* by a new client when the first one fails.  The two differ in what a new *)
(* client connects to: the League client that is running now, or the       *)
(* server of the region that has been set.  One thread uses a handler; a   *)
(* League client that runs can be found with its parameters.               *)
(***************************************************************************)
EXTENDS Naturals, Sequences, SequencesExt

CONSTANTS
  Servers,  \* the Riot servers of the regions, or the LCU processes in time
  None      \* no region, or no LCU

ASSUME ServerAssumption == None \notin Servers

Kinds == {"lcu", "riot"}
Exceptions ==
  {"Message_exception", "Poco::Exception", "Wrong_enum_value_exception",
   "Lcu_not_running_exception", "No_region_selected_exception", "Unknown_exception"}

VARIABLES
  kind,       \* which of the two handlers
  target,     \* m_region, or the LCU that is running
  listening,  \* the servers that accept connections
  m_client,   \* what the client connects to, or None
  session,    \* of the client: "new", "open", or "idle_closed" by the server
  pc,         \* "out", or in request(): "first", "reconnect", "second"
  valid_type, \* the argument is a value of Request_type
  executed,   \* history: the servers that executed the request of this call
  outcome,    \* of the last call
  disturbed   \* history: in this call the network failed or the target was
              \* away or changed

environment == <<target, listening>>
client == <<m_client, session>>
vars == <<kind, environment, client, pc, valid_type, executed, outcome, disturbed>>

TypeOK ==
  /\ kind \in Kinds
  /\ target \in Servers \cup {None} /\ listening \subseteq Servers
  /\ m_client \in Servers \cup {None} /\ session \in {"new", "open", "idle_closed"}
  /\ pc \in {"out", "first", "reconnect", "second"}
  /\ valid_type \in BOOLEAN /\ disturbed \in BOOLEAN
  /\ executed \in Seq(Servers) /\ Len(executed) <= 2
  /\ outcome \in {"none", "response"} \cup Exceptions

Init ==
  /\ kind \in Kinds
  /\ target = None /\ listening = (IF kind = "riot" THEN Servers ELSE {})
  /\ m_client = None /\ session = "new"
  /\ pc = "out" /\ valid_type = TRUE
  /\ executed = <<>> /\ outcome = "none" /\ disturbed = FALSE

----------------------------------------------------------------------------
(* The handler.  A definition called faulty is the definition after it     *)
(* with a mistake that the code does not make.                             *)

\* The caller decides which region later clients connect to.
set_region(region) ==
  /\ kind = "riot" /\ pc = "out"
  /\ target' = region
  /\ UNCHANGED <<kind, listening, client, pc, valid_type, executed, outcome, disturbed>>

CallRequest ==
  /\ pc = "out"
  /\ pc' = IF m_client # None THEN "first" ELSE "reconnect"
  /\ valid_type' \in BOOLEAN
  /\ executed' = <<>> /\ outcome' = "none"
  /\ disturbed' = (target \notin listening)
  /\ UNCHANGED <<kind, environment, client>>

End(result) == pc' = "out" /\ outcome' = result

\* Faulty: the client is kept.
FirstFailedKeepsClient == End("Unknown_exception") /\ UNCHANGED client
\* The exception of the first attempt is swallowed, whatever it is.
FirstFailed == pc' = "reconnect" /\ m_client' = None /\ session' = "new" /\ UNCHANGED outcome

\* Faulty: the request is sent until there is a response.
FailsUntilResponse(exception) == FirstFailed
Fails(exception) ==
  \/ pc = "first" /\ FirstFailed
  \/ pc = "second" /\ End(exception) /\ UNCHANGED client

Attempt == pc \in {"first", "second"} /\ UNCHANGED <<kind, environment, valid_type>>

WrongType ==
  /\ Attempt /\ ~valid_type
  /\ Fails("Wrong_enum_value_exception")
  /\ UNCHANGED <<executed, disturbed>>

\* Faulty: a response with the status of an error counts as a failure.
RespondOrFail ==
  /\ Attempt /\ valid_type
  /\ m_client \in listening
  /\ executed' = Append(executed, m_client)
  /\ session' = "open"
  /\ IF pc = "first" THEN pc' = "reconnect" /\ UNCHANGED outcome ELSE End("response")
  /\ UNCHANGED <<m_client, disturbed>>
Respond ==
  /\ Attempt /\ valid_type
  /\ m_client \in listening
  /\ executed' = Append(executed, m_client)
  /\ session' = "open"
  /\ End("response")
  /\ UNCHANGED <<m_client, disturbed>>

\* Nobody listens: sendRequest() throws an exception of Poco.
SendFails ==
  /\ Attempt /\ valid_type
  /\ m_client \notin listening
  /\ Fails("Poco::Exception")
  /\ UNCHANGED <<executed, disturbed>>

\* The server has closed the idle session: receiveResponse() finds no message,
\* unless Poco thinks it time to connect again.
SessionWasClosed ==
  /\ Attempt /\ valid_type
  /\ session = "idle_closed"
  /\ Fails("Message_exception")
  /\ UNCHANGED <<executed, disturbed>>

\* The network fails, before or after the server has executed the request.
NetworkFails ==
  /\ Attempt /\ valid_type
  /\ disturbed' = TRUE
  /\ \/ UNCHANGED executed
     \/ m_client \in listening /\ executed' = Append(executed, m_client)
  /\ \E exception \in {"Message_exception", "Poco::Exception"} : Fails(exception)

attempt_reconnect ==
  /\ pc = "reconnect"
  /\ IF target = None
       THEN /\ End(IF kind = "lcu" THEN "Lcu_not_running_exception"
                                   ELSE "No_region_selected_exception")
            /\ UNCHANGED client
       ELSE pc' = "second" /\ m_client' = target /\ session' = "new" /\ UNCHANGED outcome
  /\ UNCHANGED <<kind, environment, valid_type, executed, disturbed>>

----------------------------------------------------------------------------
(* The League client and the servers.                                      *)

\* Each League client has a port and a token of its own, and none returns.
LcuStep ==
  /\ kind = "lcu"
  /\ disturbed' = (disturbed \/ pc # "out")
  /\ UNCHANGED <<kind, client, pc, valid_type, executed, outcome>>

LcuLaunch ==
  /\ LcuStep /\ target = None
  /\ target' \in Servers \ {m_client}
  /\ UNCHANGED listening

LcuListen ==
  /\ LcuStep /\ target # None /\ target \notin listening
  /\ listening' = {target} /\ UNCHANGED target

LcuExit ==
  /\ LcuStep /\ target # None
  /\ target' = None /\ listening' = {}

CloseIdleSession ==
  /\ pc = "out" /\ session = "open" /\ session' = "idle_closed"
  /\ UNCHANGED <<kind, environment, m_client, pc, valid_type, executed, outcome, disturbed>>

----------------------------------------------------------------------------

Next ==
  \/ \E region \in Servers \cup {None} : set_region(region)
  \/ CallRequest \/ attempt_reconnect
  \/ WrongType \/ Respond \/ SendFails \/ SessionWasClosed \/ NetworkFails
  \/ LcuLaunch \/ LcuListen \/ LcuExit \/ CloseIdleSession

Spec == Init /\ [][Next]_vars

----------------------------------------------------------------------------
(* Properties.                                                             *)

\* What earlier calls have left behind never makes a request fail: not a
\* client of a League client that has gone, not a session the server has
\* closed, not a client whose second attempt failed (lcu l.18-34, riot
\* l.22-38).  A call fails because of its argument or of what happens in it.
NoNeedlessFailure ==
  outcome \in Exceptions => disturbed \/ ~valid_type

\* Sending a request again does not repeat what it did (lcu l.24-34): unless the
\* network fails in the call or its target goes, the request is executed once,
\* by the server that answers, and a call that fails has executed nothing.
ExecutedOnce ==
  ~disturbed => executed = IF outcome = "response" THEN <<m_client>> ELSE <<>>

\* The region "to be set" is that of the next requests
\* (riot_rest_handler.h:57-59): a response comes from its server.
RegionIsHonoured ==
  [][kind = "riot" /\ pc # "out" /\ outcome' = "response" => Last(executed') = target]_vars

============================================================================
