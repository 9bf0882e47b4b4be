------------------------- MODULE RestHandlerProofs -------------------------
(***************************************************************************)
(* request() of the two REST handlers, for any number of servers and of    *)
(* League clients one after the other.                                     *)
(***************************************************************************)
EXTENDS RestHandler, TLAPS

\* The request of a call has been executed once per attempt at most.
ExecutedInv ==
  /\ pc \in {"first", "reconnect", "second"} => Len(executed) <= 1
  /\ pc = "first" => executed = <<>>
  /\ pc \in {"first", "second"} => m_client \in Servers

\* Unless something has gone wrong in this call, the server it is for
\* listens, the client of the second attempt is a new one for that server,
\* and no exception has been thrown but for the type of the request.
CleanInv ==
  ~disturbed =>
    /\ pc # "out" => target \in listening /\ outcome = "none"
    /\ pc = "second" => m_client = target /\ session = "new"
    /\ pc = "out" => outcome \notin Exceptions \/ ~valid_type

Inv == TypeOK /\ ExecutedInv /\ CleanInv

LEMMA InitInv == Init => Inv
PROOF
<1> SUFFICES ASSUME Init PROVE Inv
  OBVIOUS
<1>1. <<>> \in Seq(Servers) /\ Len(<<>>) = 0
  OBVIOUS
<1>2. TypeOK
  <2>1. executed \in Seq(Servers) /\ Len(executed) <= 2
    BY <1>1 DEF Init
  <2>2. listening \subseteq Servers
    BY DEF Init
  <2>3. QED BY <2>1, <2>2, Zenon DEF Init, TypeOK
<1>3. ExecutedInv /\ CleanInv
  BY DEF Init, ExecutedInv, CleanInv, Exceptions
<1>4. QED BY <1>2, <1>3 DEF Inv

\* The two ways an attempt fails: the first one is forgotten, the second one
\* ends the call with an exception.
LEMMA FailsInv ==
  ASSUME Inv, Attempt, NEW e \in Exceptions, Fails(e),
         executed' \in Seq(Servers), disturbed' \in BOOLEAN,
         pc = "first" => Len(executed') <= 1,
         Len(executed') <= 2,
         ~disturbed' => ~disturbed /\ (pc = "first" \/ ~valid_type)
  PROVE  Inv'
PROOF
<1>0. TypeOK /\ ExecutedInv /\ CleanInv
  BY DEF Inv
<1>1. CASE pc = "first" /\ FirstFailed
  <2>1. TypeOK'
    BY <1>0, <1>1 DEF Attempt, FirstFailed, TypeOK, environment
  <2>2. ExecutedInv'
    BY <1>1 DEF FirstFailed, ExecutedInv
  <2>3. CleanInv'
    BY <1>0, <1>1 DEF Attempt, FirstFailed, CleanInv, environment
  <2>4. QED BY <2>1, <2>2, <2>3 DEF Inv
<1>2. CASE pc = "second" /\ End(e) /\ UNCHANGED client
  <2>1. TypeOK'
    BY <1>0, <1>2 DEF Attempt, End, TypeOK, client, environment
  <2>2. ExecutedInv'
    BY <1>2 DEF End, ExecutedInv
  <2>3. CleanInv'
    BY <1>0, <1>2 DEF Attempt, End, CleanInv, environment
  <2>4. QED BY <2>1, <2>2, <2>3 DEF Inv
<1>3. QED BY <1>1, <1>2 DEF Fails

LEMMA AttemptInv ==
  ASSUME Inv, WrongType \/ Respond \/ SendFails \/ SessionWasClosed \/ NetworkFails
  PROVE  Inv'
PROOF
<1>0. TypeOK /\ ExecutedInv /\ CleanInv
  BY DEF Inv
<1>1. /\ "Wrong_enum_value_exception" \in Exceptions /\ "Poco::Exception" \in Exceptions
      /\ "Message_exception" \in Exceptions
  BY DEF Exceptions
<1>2. Attempt /\ pc \in {"first", "second"} /\ m_client \in Servers /\ Len(executed) <= 1
  BY <1>0 DEF WrongType, Respond, SendFails, SessionWasClosed, NetworkFails, Attempt, ExecutedInv
<1>3. executed \in Seq(Servers) /\ disturbed \in BOOLEAN
  BY <1>0 DEF TypeOK
<1>4. /\ Append(executed, m_client) \in Seq(Servers)
      /\ Len(Append(executed, m_client)) = Len(executed) + 1 /\ Len(executed) \in Nat
  BY <1>2, <1>3
<1>5. pc = "first" => Len(executed) = 0
  BY <1>0 DEF ExecutedInv
<1>6. CASE WrongType
  BY <1>1, <1>2, <1>3, <1>6, FailsInv DEF WrongType
<1>7. CASE Respond
  <2>1. TypeOK'
    BY <1>0, <1>2, <1>4, <1>7 DEF Respond, Attempt, End, TypeOK, environment
  <2>2. ExecutedInv'
    BY <1>7 DEF Respond, End, ExecutedInv
  <2>3. CleanInv'
    BY <1>7 DEF Respond, End, CleanInv, Exceptions
  <2>4. QED BY <2>1, <2>2, <2>3 DEF Inv
<1>8. CASE SendFails
  <2>1. ~disturbed => pc = "first"
    BY <1>0, <1>2, <1>8 DEF SendFails, CleanInv
  <2>2. QED BY <1>1, <1>2, <1>3, <1>8, <2>1, FailsInv DEF SendFails
<1>9. CASE SessionWasClosed
  <2>1. ~disturbed => pc = "first"
    BY <1>0, <1>2, <1>9 DEF SessionWasClosed, CleanInv
  <2>2. QED BY <1>1, <1>2, <1>3, <1>9, <2>1, FailsInv DEF SessionWasClosed
<1>10. CASE NetworkFails
  <2>1. /\ executed' \in Seq(Servers) /\ Len(executed') <= 2
        /\ pc = "first" => Len(executed') <= 1
    BY <1>2, <1>3, <1>4, <1>5, <1>10 DEF NetworkFails
  <2>2. PICK e \in {"Message_exception", "Poco::Exception"} : Fails(e)
    BY <1>10 DEF NetworkFails
  <2>3. e \in Exceptions
    BY <1>1, <2>2
  <2>4. disturbed' = TRUE
    BY <1>10 DEF NetworkFails
  <2>5. QED BY <1>2, <2>1, <2>2, <2>3, <2>4, FailsInv
<1>11. QED BY <1>6, <1>7, <1>8, <1>9, <1>10

LEMMA NextInv == Inv /\ [Next]_vars => Inv'
PROOF
<1> SUFFICES ASSUME Inv, [Next]_vars PROVE Inv'
  OBVIOUS
<1>0. TypeOK /\ ExecutedInv /\ CleanInv
  BY DEF Inv
<1>1. ASSUME NEW region \in Servers \cup {None}, set_region(region) PROVE Inv'
  BY <1>0, <1>1 DEF set_region, Inv, TypeOK, ExecutedInv, CleanInv, client
<1>2. CASE CallRequest
  <2>1. <<>> \in Seq(Servers) /\ Len(<<>>) = 0
    OBVIOUS
  <2>2. TypeOK'
    BY <1>0, <1>2, <2>1 DEF CallRequest, TypeOK, environment, client
  <2>3. ExecutedInv'
    BY <1>0, <1>2, <2>1 DEF CallRequest, TypeOK, ExecutedInv, client
  <2>4. CleanInv'
    BY <1>2 DEF CallRequest, CleanInv, environment
  <2>5. QED BY <2>2, <2>3, <2>4 DEF Inv
<1>3. CASE attempt_reconnect
  <2>1. TypeOK'
    BY <1>0, <1>3 DEF attempt_reconnect, End, TypeOK, Exceptions, environment, client
  <2>2. ExecutedInv'
    BY <1>0, <1>3 DEF attempt_reconnect, End, TypeOK, ExecutedInv, client
  <2>3. CleanInv'
    BY <1>0, <1>3, ServerAssumption
      DEF attempt_reconnect, End, TypeOK, CleanInv, environment, client
  <2>4. QED BY <2>1, <2>2, <2>3 DEF Inv
<1>4. CASE WrongType \/ Respond \/ SendFails \/ SessionWasClosed \/ NetworkFails
  BY <1>4, AttemptInv
<1>5. CASE LcuLaunch \/ LcuListen \/ LcuExit
  <2>1. TypeOK'
    BY <1>0, <1>5 DEF LcuLaunch, LcuListen, LcuExit, LcuStep, TypeOK, client
  <2>2. ExecutedInv'
    BY <1>0, <1>5 DEF LcuLaunch, LcuListen, LcuExit, LcuStep, ExecutedInv, client
  <2>3. CleanInv'
    BY <1>0, <1>5 DEF LcuLaunch, LcuListen, LcuExit, LcuStep, CleanInv, client
  <2>4. QED BY <2>1, <2>2, <2>3 DEF Inv
<1>6. CASE CloseIdleSession
  BY <1>0, <1>6 DEF CloseIdleSession, Inv, TypeOK, ExecutedInv, CleanInv, environment
<1>7. CASE UNCHANGED vars
  BY <1>0, <1>7 DEF vars, Inv, TypeOK, ExecutedInv, CleanInv, environment, client
<1>8. QED
  BY <1>1, <1>2, <1>3, <1>4, <1>5, <1>6, <1>7 DEF Next

LEMMA InvAlways == Spec => []Inv
PROOF
<1>1. QED BY InitInv, NextInv, PTL DEF Spec

\* The variables keep their types, and a request is executed twice at most.
THEOREM TypeCorrect == Spec => []TypeOK
PROOF
<1>1. Inv => TypeOK BY DEF Inv
<1>2. QED BY InvAlways, <1>1, PTL

\* A call of request() that is not disturbed, with a valid type, does not
\* fail, whatever earlier calls have left behind.
THEOREM NothingLeftBehind == Spec => []NoNeedlessFailure
PROOF
<1>1. Inv => NoNeedlessFailure
  BY DEF Inv, CleanInv, NoNeedlessFailure, TypeOK, Exceptions
<1>2. QED BY InvAlways, <1>1, PTL

\* A request that is sent again has not been executed before.
THEOREM RequestExecutedOnce == Spec => []ExecutedOnce
PROOF
<1>1. Init => ExecutedOnce
  BY DEF Init, ExecutedOnce
<1>2. Inv /\ ExecutedOnce /\ [Next]_vars => ExecutedOnce'
  <2> SUFFICES ASSUME Inv, ExecutedOnce, [Next]_vars, ~disturbed'
               PROVE  executed' = IF outcome' = "response" THEN <<m_client'>> ELSE <<>>
    BY DEF ExecutedOnce
  <2> USE DEF ExecutedOnce
  <2>0. CleanInv
    BY DEF Inv
  <2>1. ASSUME NEW region \in Servers \cup {None}, set_region(region)
        PROVE  executed' = IF outcome' = "response" THEN <<m_client'>> ELSE <<>>
    BY <2>1 DEF set_region, client
  <2>2. CASE CallRequest
    BY <2>2 DEF CallRequest
  <2>3. CASE attempt_reconnect
    BY <2>0, <2>3 DEF attempt_reconnect, CleanInv, End
  <2>4. CASE WrongType \/ SendFails \/ SessionWasClosed
    <3>1. pc \in {"first", "second"} /\ UNCHANGED <<executed, disturbed>>
      BY <2>4 DEF WrongType, SendFails, SessionWasClosed, Attempt
    <3>2. executed = <<>>
      BY <2>0, <3>1 DEF CleanInv
    <3>3. outcome' # "response"
      BY <2>0, <2>4, <3>1 DEF WrongType, SendFails, SessionWasClosed, Fails, FirstFailed,
         End, CleanInv
    <3> QED
      BY <3>1, <3>2, <3>3
  <2>5. CASE Respond
    <3>1. executed = <<>>
      BY <2>0, <2>5 DEF Respond, Attempt, CleanInv
    <3> QED
      BY <2>5, <3>1 DEF Respond, End
  <2>6. CASE NetworkFails
    BY <2>6 DEF NetworkFails
  <2>7. CASE LcuLaunch \/ LcuListen \/ LcuExit
    BY <2>7 DEF LcuLaunch, LcuListen, LcuExit, LcuStep, client
  <2>8. CASE CloseIdleSession
    BY <2>8 DEF CloseIdleSession
  <2>9. CASE UNCHANGED vars
    BY <2>9 DEF vars, client
  <2> QED
    BY <2>1, <2>2, <2>3, <2>4, <2>5, <2>6, <2>7, <2>8, <2>9 DEF Next
<1> QED
  BY <1>1, <1>2, InvAlways, PTL DEF Spec

----------------------------------------------------------------------------
(* The region of a response.                                               *)

\* The application sets a region only while Riot_rest_handler has no client:
\* before the first request, or after a reconnect that had no region.
RegionSetWithoutClient == [][kind = "riot" /\ m_client # None => UNCHANGED target]_vars

\* Then the client is that of the region, and a call has no outcome yet.
RegionInv ==
  /\ kind = "riot" /\ m_client # None => m_client = target
  /\ pc # "out" => outcome = "none"

\* That a response comes from the server of another region (RegionIsHonoured,
\* violated without the hypothesis) takes a set_region() while there is a client
\* (riot l.14, l.18-38): nothing else makes the client and m_region differ.
THEOREM RegionHonouredWithoutClient ==
  Spec /\ RegionSetWithoutClient => RegionIsHonoured
<1> DEFINE Kept == kind = "riot" /\ m_client # None => UNCHANGED target
           Answered == kind = "riot" /\ pc # "out" /\ outcome' = "response"
                         => Last(executed') = target
<1>1. Init => RegionInv
  BY DEF Init, RegionInv
<1>2. RegionInv /\ [Next]_vars /\ [Kept]_vars => RegionInv'
  <2> SUFFICES ASSUME RegionInv, [Next]_vars, [Kept]_vars PROVE RegionInv'
    OBVIOUS
  <2> USE DEF RegionInv, environment, client
  <2>1. ASSUME NEW region \in Servers \cup {None}, set_region(region)
        PROVE  RegionInv'
    BY <2>1 DEF set_region, vars
  <2>2. CASE CallRequest \/ CloseIdleSession
    BY <2>2 DEF CallRequest, CloseIdleSession
  <2>3. CASE attempt_reconnect
    BY <2>3 DEF attempt_reconnect, End
  <2>4. CASE WrongType \/ SendFails \/ SessionWasClosed \/ NetworkFails
    BY <2>4 DEF WrongType, SendFails, SessionWasClosed, NetworkFails, Attempt, Fails,
       FirstFailed, End
  <2>5. CASE Respond
    BY <2>5 DEF Respond, Attempt, End
  <2>6. CASE LcuLaunch \/ LcuListen \/ LcuExit
    BY <2>6 DEF LcuLaunch, LcuListen, LcuExit, LcuStep
  <2>7. CASE UNCHANGED vars
    BY <2>7 DEF vars
  <2> QED
    BY <2>1, <2>2, <2>3, <2>4, <2>5, <2>6, <2>7 DEF Next
<1>3. Inv /\ RegionInv /\ [Next]_vars => [Answered]_vars
  <2> SUFFICES ASSUME Inv, RegionInv, Next, kind = "riot", pc # "out", outcome' = "response"
               PROVE  Last(executed') = target
    BY DEF vars
  <2>1. ASSUME Respond
        PROVE  Last(executed') = target
    <3>1. m_client \in Servers /\ executed \in Seq(Servers)
      BY <2>1 DEF Inv, TypeOK, ExecutedInv, Respond, Attempt
    <3>2. m_client = target
      BY <3>1, ServerAssumption DEF RegionInv
    <3>3. executed' = Append(executed, m_client)
      BY <2>1 DEF Respond
    <3> QED
      BY <3>1, <3>2, <3>3 DEF Last
  <2>2. ASSUME \/ WrongType \/ SendFails \/ SessionWasClosed \/ NetworkFails
               \/ attempt_reconnect \/ LcuLaunch \/ LcuListen \/ LcuExit
        PROVE  FALSE
    BY <2>2 DEF WrongType, SendFails, SessionWasClosed, NetworkFails, Fails, FirstFailed,
       End, attempt_reconnect, LcuLaunch, LcuListen, LcuExit, LcuStep, RegionInv
  <2>3. ASSUME NEW region \in Servers \cup {None},
               set_region(region) \/ CallRequest \/ CloseIdleSession
        PROVE  FALSE
    BY <2>3 DEF set_region, CallRequest, CloseIdleSession
  <2> QED
    BY <2>1, <2>2, <2>3 DEF Next
<1> QED
  BY <1>1, <1>2, <1>3, InvAlways, PTL DEF Spec, RegionSetWithoutClient, RegionIsHonoured

============================================================================
