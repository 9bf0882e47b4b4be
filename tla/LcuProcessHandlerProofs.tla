---------------------- MODULE LcuProcessHandlerProofs ----------------------
(***************************************************************************)
(* What LcuProcessHandler.tla satisfies for any set of process numbers and *)
(* of LCUs, all ports, and any width of app_port and of int.               *)
(***************************************************************************)
EXTENDS LcuProcessHandler, FiniteSetTheorems, TLAPS

----------------------------------------------------------------------------
(* Texts and what is made of them.                                         *)

\* What a text holds.
LEMMA TextsTyped ==
  ASSUME NEW what, NEW text \in TextsOf(what)
  PROVE  /\ text.token \in Lcus \cup {None, Foreign} /\ text.port \in Nat
         /\ text.token \in Lcus => what = text.token
         /\ text.name => what \in Named
<1> USE ProcessAssumption, PortAssumption DEF TextsOf, Text, Named
<1>1. CASE what \in Lcus
  <2>1. PortOf[what] \in Nat /\ PortOf[what] \div 10 \in Nat
    BY <1>1
  <2> QED
    BY <1>1, <2>1
<1>2. CASE what \notin Lcus /\ what = "mention"
  <2>1. 0 \in Nat /\ PortRange + 1 \in Nat /\ IntMax + 1 \in Nat
    OBVIOUS
  <2> QED
    BY <1>2, <2>1
<1>3. CASE what \notin Lcus /\ what # "mention"
  BY <1>3
<1> QED
  BY <1>1, <1>2, <1>3

\* A remainder is in the range of the divisor.
LEMMA RemainderInRange ==
  ASSUME NEW n \in Nat
  PROVE  n % PortRange \in 0 .. PortRange - 1
  BY PortAssumption

\* What is thrown is an outcome.
LEMMA ThrownTyped ==
  ASSUME NEW exception \in {"none"} \cup Exceptions
  PROVE  Thrown(exception) \in Outcomes
  BY DEF Outcomes

\* Whatever is read, the port that is returned fits app_port.
LEMMA ParametersTyped ==
  ASSUME NEW what, NEW text \in TextsOf(what)
  PROVE  ParametersOf(text) \in Outcomes
<1>1. /\ Extracts(text) => text.token \in Lcus \cup {Foreign}
      /\ text.port % PortRange \in 0 .. PortRange - 1
  BY TextsTyped, RemainderInRange DEF Extracts
<1>2. /\ Thrown("Lcu_parameters_exception") \in Outcomes
      /\ Thrown("std::out_of_range") \in Outcomes
  BY ThrownTyped DEF Exceptions
<1> QED
  BY <1>1, <1>2 DEF ParametersOf, Outcomes

\* Parameters with the token of an LCU have its port, and come from its
\* command line.
LEMMA ParametersAreOfOneLcu ==
  ASSUME NEW what, NEW text \in TextsOf(what), Extracts(text), text.token \in Lcus
  PROVE  /\ what = text.token
         /\ ParametersOf(text) =
              [what |-> "parameters", token |-> what, port |-> PortOf[what]]
<1>1. what = text.token /\ what \in Lcus
  BY TextsTyped
<1>2. text.port = PortOf[what]
  BY <1>1, ProcessAssumption DEF TextsOf, Text, Extracts
<1>3. PortOf[what] <= IntMax /\ PortOf[what] % PortRange = PortOf[what]
  <2>1. PortOf[what] \in 1 .. PortRange - 1
    BY <1>1, PortAssumption
  <2> QED
    BY <2>1, PortAssumption
<1>4. ~(text.port > IntMax)
  BY <1>2, <1>3, <1>1, PortAssumption
<1> QED
  BY <1>1, <1>2, <1>3, <1>4 DEF ParametersOf

----------------------------------------------------------------------------

\* Every variable keeps its type; a port that is returned fits a uint16_t.
THEOREM TypeCorrect == Spec => []TypeOK
<1>1. Init => TypeOK
  <2> SUFFICES ASSUME Init PROVE TypeOK
    OBVIOUS
  <2>1. outcome \in Outcomes
    BY ThrownTyped DEF Init, Nothing
  <2> QED
    BY <2>1, ProcessAssumption DEF Init, TypeOK
<1>2. TypeOK /\ [Next]_vars => TypeOK'
  <2> SUFFICES ASSUME TypeOK, [Next]_vars PROVE TypeOK'
    OBVIOUS
  <2>0. \A e \in {"none"} \cup Exceptions : Thrown(e) \in Outcomes
    BY ThrownTyped
  <2>00. Running \subseteq Named /\ Running' \subseteq Named
    BY DEF Running
  <2> USE DEF TypeOK, system, dll, moments, OnLinux, OnWindows, At, End
  <2>1. CASE Call
    BY <2>1, <2>0, <2>00 DEF Call, Nothing
  <2>2. CASE LookupStep
    <3> HIDE DEF Thrown, Outcomes
    <3> USE <2>0 DEF Exceptions
    <3>1. CASE PathNotFound
      BY <3>1 DEF PathNotFound
    <3>2. CASE ListEntry
      BY <3>2, ProcessAssumption DEF ListEntry, Ahead
    <3>3. CASE ListDone
      BY <3>3 DEF ListDone
    <3>4. CASE NotRunning
      BY <3>4 DEF NotRunning
    <3>5. CASE ReadCmdline
      <4>1. PICK p \in listed : /\ listed' = listed \ {p}
                                /\ \/ Finds(p) /\ UNCHANGED unread
                                   \/ /\ FindsNothing(p) \/ FindsNothingUnread(p)
                                      /\ pc' \in {"getdents", "scan"}
                                      /\ UNCHANGED outcome
        BY <3>5 DEF ReadCmdline
      <4>2. outcome' \in Outcomes /\ pc' \in {"out", "getdents", "scan"}
        <5>1. CASE Finds(p)
          BY <5>1, ParametersTyped DEF Finds
        <5> QED
          BY <4>1, <5>1
      <4>3. unread' \subseteq Lcus
        BY <4>1 DEF FindsNothing, FindsNothingUnread
      <4> QED
        BY <3>5, <4>1, <4>2, <4>3 DEF ReadCmdline
    <3>6. CASE Enumerate
      BY <3>6 DEF Enumerate
    <3>7. CASE EnumerateFails
      BY <3>7 DEF EnumerateFails
    <3>8. CASE OpenProcess
      BY <3>8 DEF OpenProcess
    <3>9. CASE extract_process_name
      BY <3>9 DEF extract_process_name, CloseOther
    <3>10. CASE ScanEnds
      BY <3>10 DEF ScanEnds
    <3>11. CASE load_nt_dll
      BY <3>11 DEF load_nt_dll, CloseAndRethrow
    <3>12. CASE retrieve_nt_query_information_process_function_pointer
      BY <3>12 DEF retrieve_nt_query_information_process_function_pointer, CloseAndRethrow
    <3>13. CASE extract_process_command
      BY <3>13 DEF extract_process_command, CloseAndRethrow
    <3> QED
      BY <2>2, <3>1, <3>2, <3>3, <3>4, <3>5, <3>6, <3>7, <3>8, <3>9, <3>10, <3>11,
         <3>12, <3>13 DEF LookupStep
  <2>3. CASE Renew
    BY <2>3 DEF Renew
  <2>4. ASSUME NEW p \in Pids, Start(p)
        PROVE  TypeOK'
    BY <2>4, <2>00 DEF Start, System
  <2>5. ASSUME NEW p \in Pids, Exit(p)
        PROVE  TypeOK'
    BY <2>5, <2>00 DEF Exit, System
  <2>6. ASSUME NEW p \in Pids, NEW l \in Lcus, StartLcu(p, l)
        PROVE  TypeOK'
    BY <2>6, <2>00 DEF StartLcu, System
  <2>7. CASE UNCHANGED vars
    BY <2>7 DEF vars
  <2> QED
    BY <2>1, <2>2, <2>3, <2>4, <2>5, <2>6, <2>7 DEF Next, Done
<1> QED
  BY <1>1, <1>2, PTL DEF Spec

----------------------------------------------------------------------------
(* The inductive invariant.                                                *)

\* Each LCU is one process, and it has been started.
ProcessInv ==
  /\ \A p \in Pids : process[p] \in Lcus => process[p] \in started
  /\ \A p, q \in Pids : process[p] \in Lcus /\ process[p] = process[q] => p = q

\* What runs now is among what ran, and what runs throughout runs now; a step of one platform is
\* not taken on the other; only a process that is being read is open.
CallInv ==
  /\ pc # "out" => throughout \subseteq Running /\ Running \subseteq ran
  /\ pc = "getdents" => platform = "linux"
  /\ pc \in {"enumerate", "name", "load_nt_dll", "retrieve_pointer", "read_memory"}
       => platform = "windows"
  /\ pc \in {"getdents", "scan", "enumerate"} => handle = None
  /\ pc = "out" => handle = None \/ outcome.what = "std::bad_alloc"

\* An LCU that has run since the call began has not been passed by the scan, or
\* passed unread.
ScanInv ==
  platform = "linux" /\ pc # "out" =>
    \A l \in Lcus : l \in throughout \ unread
      => \E p \in Pids : process[p] = l /\ (p \in listed \/ p > cursor)

\* The scan does not change the processes.
LEMMA LookupFrame ==
  Call \/ LookupStep \/ Renew => UNCHANGED <<platform, process, started, Running>>
  BY DEF LookupStep, Call, Renew, At, system, Running, PathNotFound, ListEntry, ListDone,
         NotRunning, ReadCmdline, Enumerate, EnumerateFails, OpenProcess, extract_process_name,
         ScanEnds, load_nt_dll, retrieve_nt_query_information_process_function_pointer,
         extract_process_command

\* An LCU runs as a process that has been started for it.
LEMMA ProcessesCorrect == Spec => []ProcessInv
<1>1. Init => ProcessInv
  BY ProcessAssumption DEF Init, ProcessInv
<1>2. TypeOK /\ ProcessInv /\ [Next]_vars => ProcessInv'
  <2> SUFFICES ASSUME TypeOK, ProcessInv, [Next]_vars PROVE ProcessInv'
    OBVIOUS
  <2> USE DEF ProcessInv
  <2>1. CASE Call \/ LookupStep \/ Renew
    BY <2>1, LookupFrame
  <2>2. ASSUME NEW p \in Pids, Start(p)
        PROVE  ProcessInv'
    BY <2>2, ProcessAssumption DEF Start, System, TypeOK
  <2>3. ASSUME NEW p \in Pids, Exit(p)
        PROVE  ProcessInv'
    BY <2>3, ProcessAssumption DEF Exit, System, TypeOK
  <2>4. ASSUME NEW p \in Pids, NEW l \in Lcus, StartLcu(p, l)
        PROVE  ProcessInv'
    BY <2>4 DEF StartLcu, System, TypeOK
  <2>5. CASE UNCHANGED vars
    BY <2>5 DEF vars, system
  <2> QED
    BY <2>1, <2>2, <2>3, <2>4, <2>5 DEF Next, Done
<1> QED
  BY <1>1, <1>2, TypeCorrect, PTL DEF Spec

\* Where a call is, and what it has open.
LEMMA CallsCorrect == Spec => []CallInv
<1>1. Init => CallInv
  BY DEF Init, CallInv
<1>2. TypeOK /\ CallInv /\ [Next]_vars => CallInv'
  <2> SUFFICES ASSUME TypeOK, CallInv, [Next]_vars PROVE CallInv'
    OBVIOUS
  <2> USE DEF CallInv, system, dll, moments, OnLinux, OnWindows, At, End
  <2>1. CASE Call
    BY <2>1, LookupFrame DEF Call, TypeOK
  <2>2. CASE LookupStep
    <3>1. Running' = Running /\ UNCHANGED moments /\ platform' = platform
      BY <2>2, LookupFrame DEF LookupStep, PathNotFound, ListEntry, ListDone, NotRunning,
         ReadCmdline, Enumerate, EnumerateFails, OpenProcess, extract_process_name, ScanEnds,
         load_nt_dll, retrieve_nt_query_information_process_function_pointer,
         extract_process_command
    <3>2. CASE PathNotFound \/ ListEntry \/ ListDone \/ NotRunning
      BY <3>1, <3>2 DEF PathNotFound, ListEntry, ListDone, NotRunning
    <3>3. CASE ReadCmdline
      <4>1. pc = "scan" /\ pc' \in {"out", "getdents", "scan"} /\ handle' = handle
        BY <3>3 DEF ReadCmdline, Finds
      <4> QED
        BY <3>1, <3>3, <4>1 DEF ReadCmdline
    <3>4. CASE Enumerate \/ EnumerateFails \/ OpenProcess \/ extract_process_name \/ ScanEnds
      BY <3>1, <3>4 DEF Enumerate, EnumerateFails, OpenProcess, extract_process_name, ScanEnds,
         CloseOther, Thrown
    <3>5. CASE load_nt_dll \/ retrieve_nt_query_information_process_function_pointer
               \/ extract_process_command
      BY <3>1, <3>5 DEF load_nt_dll, retrieve_nt_query_information_process_function_pointer,
         extract_process_command, CloseAndRethrow
    <3> QED
      BY <2>2, <3>2, <3>3, <3>4, <3>5 DEF LookupStep
  <2>3. CASE Renew
    BY <2>3, LookupFrame DEF Renew
  <2>4. ASSUME NEW p \in Pids, NEW what, System(p, what)
        PROVE  CallInv'
    BY <2>4 DEF System
  <2>5. CASE UNCHANGED vars
    BY <2>5 DEF vars, Running
  <2> QED
    BY <2>1, <2>2, <2>3, <2>4, <2>5 DEF Next, Done, Start, Exit, StartLcu
<1> QED
  BY <1>1, <1>2, TypeCorrect, PTL DEF Spec

\* The scan passes nothing that has run throughout.
LEMMA ScanCorrect == Spec => []ScanInv
<1>1. Init => ScanInv
  BY DEF Init, ScanInv
<1>2. TypeOK /\ ProcessInv /\ CallInv /\ ScanInv /\ [Next]_vars => ScanInv'
  <2> SUFFICES ASSUME TypeOK, ProcessInv, CallInv, ScanInv, [Next]_vars,
                      platform' = "linux", pc' # "out",
                      NEW l \in Lcus, l \in throughout', l \notin unread'
               PROVE  \E p \in Pids : process'[p] = l /\ (p \in listed' \/ p > cursor')
    BY DEF ScanInv
  <2> USE DEF system, moments, At
  <2>1. CASE Call
    <3>1. l \in Running /\ cursor' = 0 /\ process' = process
      BY <2>1 DEF Call
    <3>2. PICK p \in Pids : process[p] = l
      BY <3>1 DEF Running
    <3>3. p > 0
      BY ProcessAssumption
    <3> QED
      BY <3>1, <3>2, <3>3
  <2>2. CASE LookupStep
    <3>1. platform = "linux" /\ pc # "out" /\ UNCHANGED moments /\ process' = process
      BY <2>2, LookupFrame DEF LookupStep, PathNotFound, ListEntry, ListDone, NotRunning,
         ReadCmdline, Enumerate, EnumerateFails, OpenProcess, extract_process_name, ScanEnds,
         load_nt_dll, retrieve_nt_query_information_process_function_pointer,
         extract_process_command
    <3>0. l \notin unread
      BY <2>2, <3>1 DEF LookupStep, PathNotFound, ListEntry, ListDone, NotRunning,
         ReadCmdline, FindsNothing, FindsNothingUnread, Enumerate, EnumerateFails,
         OpenProcess, extract_process_name, ScanEnds, load_nt_dll,
         retrieve_nt_query_information_process_function_pointer, extract_process_command,
         OnWindows
    <3>2. PICK p \in Pids : process[p] = l /\ (p \in listed \/ p > cursor)
      BY <3>0, <3>1 DEF ScanInv
    <3>3. CASE ListEntry
      <4>1. PICK q \in Ahead : /\ \A r \in Ahead : q <= r
                               /\ cursor' = q /\ listed' = listed \cup {q}
        BY <3>3 DEF ListEntry
      <4>2. p \in listed \/ p \in Ahead
        BY <3>2, ProcessAssumption DEF Ahead
      <4>3. CASE p \in listed
        BY <3>1, <3>2, <4>1, <4>3
      <4>4. CASE p \in Ahead
        <5>1. p = q \/ p > q
          BY <4>1, <4>4, ProcessAssumption DEF Ahead
        <5> QED
          BY <3>1, <3>2, <4>1, <5>1
      <4> QED
        BY <4>2, <4>3, <4>4
    <3>4. CASE ReadCmdline
      <4>1. PICK q \in listed : /\ listed' = listed \ {q}
                                /\ Finds(q) \/ FindsNothing(q) \/ FindsNothingUnread(q)
        BY <3>4 DEF ReadCmdline
      <4>2. FindsNothing(q) \/ FindsNothingUnread(q)
        BY <4>1 DEF Finds, End
      <4>3. process[q] # l
        BY <4>2, ProcessAssumption DEF FindsNothing, FindsNothingUnread, TextsOf, Text
      <4>4. p # q /\ cursor' = cursor
        BY <3>2, <3>4, <4>3 DEF ReadCmdline
      <4> QED
        BY <3>1, <3>2, <4>1, <4>4
    <3>5. CASE ListDone
      BY <3>1, <3>2, <3>5 DEF ListDone
    <3>6. ASSUME PathNotFound \/ NotRunning PROVE FALSE
      BY <3>6 DEF PathNotFound, NotRunning, End
    <3>7. ASSUME \/ Enumerate \/ EnumerateFails \/ OpenProcess \/ extract_process_name \/ ScanEnds
                 \/ load_nt_dll \/ retrieve_nt_query_information_process_function_pointer
                 \/ extract_process_command
          PROVE  FALSE
      BY <3>1, <3>7 DEF CallInv, Enumerate, EnumerateFails, OpenProcess, extract_process_name, ScanEnds,
         load_nt_dll, retrieve_nt_query_information_process_function_pointer,
         extract_process_command
    <3> QED
      BY <2>2, <3>3, <3>4, <3>5, <3>6, <3>7 DEF LookupStep
  <2>3. ASSUME Renew PROVE FALSE
    BY <2>3 DEF Renew
  <2>4. ASSUME NEW q \in Pids, NEW what, System(q, what),
               process[q] \notin Lcus \/ what \notin Lcus,
               what \in Lcus => what \notin started
        PROVE  \E p \in Pids : process'[p] = l /\ (p \in listed' \/ p > cursor')
    <3>1. /\ platform = "linux" /\ pc # "out" /\ unread' = unread
          /\ throughout' = throughout \cap Running'
          /\ listed' = listed /\ cursor' = cursor
          /\ process' = [process EXCEPT ![q] = what]
      BY <2>4 DEF System
    <3>2. l \in throughout /\ l \in Running'
      BY <3>1
    <3>3. PICK p \in Pids : process[p] = l /\ (p \in listed \/ p > cursor)
      BY <3>1 DEF ScanInv
    <3>4. PICK r \in Pids : process'[r] = l
      BY <3>2 DEF Running
    <3>5. what # l
      BY <2>4, <3>3 DEF ProcessInv
    <3>6. r # q /\ process[r] = l
      BY <3>1, <3>4, <3>5 DEF TypeOK
    <3>7. r = p
      BY <3>3, <3>6 DEF ProcessInv
    <3> QED
      BY <3>1, <3>3, <3>4, <3>7
  <2>5. CASE UNCHANGED vars
    BY <2>5 DEF vars, ScanInv
  <2>6. ASSUME NEW q \in Pids, Start(q) \/ Exit(q) \/ \E m \in Lcus : StartLcu(q, m)
        PROVE  \E p \in Pids : process'[p] = l /\ (p \in listed' \/ p > cursor')
    <3>1. CASE Start(q)
      BY <2>4, <3>1, ProcessAssumption DEF Start
    <3>2. CASE Exit(q)
      BY <2>4, <3>2, ProcessAssumption DEF Exit
    <3>3. ASSUME NEW m \in Lcus, StartLcu(q, m)
          PROVE  \E p \in Pids : process'[p] = l /\ (p \in listed' \/ p > cursor')
      BY <2>4, <3>3, ProcessAssumption DEF StartLcu
    <3> QED
      BY <2>6, <3>1, <3>2, <3>3
  <2> QED
    BY <2>1, <2>2, <2>3, <2>5, <2>6 DEF Next, Done
<1> QED
  BY <1>1, <1>2, TypeCorrect, ProcessesCorrect, CallsCorrect, PTL DEF Spec

----------------------------------------------------------------------------
(* The theorems.                                                           *)

\* Whatever fails on the way, a call closes the process it has opened.
THEOREM HandlesAreClosedAlways == Spec => []HandlesAreClosed
<1>1. CallInv => HandlesAreClosed
  BY DEF CallInv, HandlesAreClosed
<1> QED
  BY <1>1, CallsCorrect, PTL

\* What a lookup returns for a process it has found are the parameters of the
\* LCU in this process, whatever else fails.
THEOREM ParametersAlwaysReal == Spec => []ParametersAreReal
<1>1. Init => ParametersAreReal
  BY DEF Init, ParametersAreReal, Nothing, Thrown
<1>2. TypeOK /\ CallInv /\ ParametersAreReal /\ [Next]_vars => ParametersAreReal'
  <2> SUFFICES ASSUME TypeOK, CallInv, ParametersAreReal, [Next]_vars
               PROVE  ParametersAreReal'
    OBVIOUS
  <2> USE DEF ParametersAreReal, moments, At, End
  <2>1. CASE Call
    BY <2>1 DEF Call
  <2>2. ASSUME NEW exception \in Exceptions, outcome' = Thrown(exception)
        PROVE  ParametersAreReal'
    BY <2>2 DEF Thrown, Exceptions
  <2>3. CASE PathNotFound \/ NotRunning \/ EnumerateFails \/ ScanEnds
    BY <2>2, <2>3 DEF PathNotFound, NotRunning, EnumerateFails, ScanEnds, Exceptions
  <2>4. CASE ReadCmdline
    <3>1. PICK p \in Pids : Finds(p) \/ pc' # "out"
      BY <2>4 DEF ReadCmdline, TypeOK
    <3>2. CASE pc' # "out"
      BY <3>2
    <3>3. CASE Finds(p)
      <4>1. PICK text \in TextsOf(process[p]) : outcome' = ParametersOf(text)
        BY <3>3 DEF Finds
      <4>2. CASE Extracts(text) /\ text.token \in Lcus
        <5>1. /\ process[p] = text.token
              /\ outcome' = [what |-> "parameters", token |-> process[p],
                             port |-> PortOf[process[p]]]
          BY <4>1, <4>2, ParametersAreOfOneLcu
        <5>2. process[p] \in Running /\ Running \subseteq ran'
          BY <2>4, <4>2, <5>1 DEF ReadCmdline, Running, Named, CallInv
        <5> QED
          BY <5>1, <5>2
      <4>3. CASE ~(Extracts(text) /\ text.token \in Lcus)
        BY <4>1, <4>3 DEF ParametersOf, Thrown
      <4> QED
        BY <4>2, <4>3
    <3> QED
      BY <3>1, <3>2, <3>3
  <2>5. CASE ListEntry \/ ListDone \/ Enumerate \/ OpenProcess \/ extract_process_name
    BY <2>5 DEF ListEntry, ListDone, Enumerate, OpenProcess, extract_process_name,
       CloseOther, Thrown
  <2>6. CASE load_nt_dll \/ retrieve_nt_query_information_process_function_pointer
             \/ extract_process_command
    <3>1. CASE CloseAndRethrow
      BY <2>2, <3>1 DEF CloseAndRethrow, Exceptions
    <3>2. CASE ~CloseAndRethrow
      BY <2>6, <3>2 DEF load_nt_dll, extract_process_command,
         retrieve_nt_query_information_process_function_pointer
    <3> QED
      BY <3>1, <3>2
  <2>7. CASE Renew
    BY <2>7 DEF Renew
  <2>8. ASSUME NEW p \in Pids, NEW what, System(p, what)
        PROVE  ParametersAreReal'
    BY <2>8 DEF System
  <2>9. CASE UNCHANGED vars
    BY <2>9 DEF vars
  <2> QED
    BY <2>1, <2>3, <2>4, <2>5, <2>6, <2>7, <2>8, <2>9
    DEF Next, LookupStep, Done, Start, Exit, StartLcu
<1> QED
  BY <1>1, <1>2, TypeCorrect, CallsCorrect, PTL DEF Spec

\* The lookup implements LcuLookup, on either platform.
THEOREM LookupImplemented == Spec => KeepsLookup
<1>1. Init => Lookup!Init
  BY ProcessAssumption DEF Init, Lookup!Init, Running, Named, Found, Nothing, Thrown
<1>2. TypeOK /\ CallInv /\ ScanInv /\ [Next]_vars => [Lookup!Next]_(Lookup!vars)
  <2> SUFFICES ASSUME TypeOK, CallInv, ScanInv, [Next]_vars
               PROVE  Lookup!Next \/ UNCHANGED Lookup!vars
    OBVIOUS
  <2> USE DEF system, dll, moments, OnLinux, OnWindows, At, End
  <2>1. CASE Call
    <3>1. Running' = Running
      BY <2>1, LookupFrame
    <3>2. Lookup!Call
      BY <2>1, <3>1 DEF Call, Lookup!Call, Found, Nothing, Thrown
    <3> QED
      BY <3>2 DEF Lookup!Next
  <2>2. CASE LookupStep
    <3>1. Running' = Running
      BY <2>2, LookupFrame
    <3>2. ASSUME pc # "out", pc' = "out", unread' = unread, UNCHANGED moments,
                 Lookup!Answers \/ Lookup!Fails \/ Lookup!Deviates
          PROVE  Lookup!Next
      BY <2>2, <3>1, <3>2, LookupFrame DEF Lookup!Next, Lookup!Return
    <3>3. ASSUME pc # "out", pc' # "out", unread' = unread, UNCHANGED moments,
                 outcome' = outcome
          PROVE  UNCHANGED Lookup!vars
      BY <2>2, <3>1, <3>3, LookupFrame DEF Lookup!vars, Found
    <3>4. /\ outcome' = Thrown("Lcu_parameters_exception") => Found' = "unreadable"
          /\ outcome' = Thrown("Path_not_found_exception") => Found' = "no_directory"
          /\ outcome' = Thrown("std::bad_alloc") => Found' = "out_of_memory"
          /\ outcome' = Thrown("std::out_of_range") => Found' = "undocumented"
          /\ outcome' = Thrown("Lcu_not_running_exception") => Found' = "not_running"
      BY DEF Found, Thrown
    <3>12. pc \in {"getdents"} => platform = "linux"
      BY DEF CallInv
    <3>5. CASE PathNotFound
      BY <3>2, <3>4, <3>5, <3>12 DEF PathNotFound, Lookup!Fails
    <3>6. CASE ListEntry \/ ListDone
      BY <3>3, <3>6 DEF ListEntry, ListDone
    <3>7. CASE NotRunning
      <4>1. Found' = "not_running"
        BY <3>4, <3>7 DEF NotRunning
      <4>2. ASSUME NEW l \in Lcus, l \in throughout, l \notin unread PROVE FALSE
        <5>1. PICK p \in Pids : process[p] = l /\ (p \in listed \/ p > cursor)
          BY <3>7, <4>2 DEF NotRunning, ScanInv, CallInv
        <5>2. p \in Ahead
          BY <3>7, <5>1, ProcessAssumption DEF NotRunning, Ahead
        <5> QED
          BY <3>7, <5>2 DEF NotRunning
      <4>3. Lookup!Answers
        BY <4>1, <4>2 DEF Lookup!Answers
      <4> QED
        BY <3>2, <3>7, <4>3 DEF NotRunning
    <3>8. CASE ReadCmdline
      <4>0. pc # "out" /\ UNCHANGED moments /\ platform = "linux" /\ platform' = "linux"
        BY <3>8 DEF ReadCmdline
      <4>1. PICK p \in Pids :
              \/ Finds(p) /\ unread' = unread
              \/ FindsNothing(p) /\ pc' # "out" /\ outcome' = outcome
              \/ FindsNothingUnread(p) /\ pc' # "out" /\ outcome' = outcome
        BY <3>8 DEF ReadCmdline, TypeOK
      <4>2. CASE FindsNothing(p) /\ pc' # "out" /\ outcome' = outcome
        BY <3>3, <4>0, <4>2 DEF FindsNothing
      <4>3. CASE FindsNothingUnread(p) /\ pc' # "out" /\ outcome' = outcome
        <5>1. CASE process[p] \notin Lcus
          <6>1. unread' = unread
            BY <4>3, <5>1 DEF FindsNothingUnread
          <6> QED
            BY <3>3, <4>0, <4>3, <6>1
        <5>2. CASE process[p] \in Lcus
          <6>1. /\ process[p] \in Lcus \cap Running
                /\ unread' = unread \cup {process[p]}
            BY <4>3, <5>2 DEF FindsNothingUnread, Running, Named
          <6>2. Found' = Found
            BY <4>3 DEF Found
          <6>3. Lookup!Pass
            BY <3>1, <4>0, <4>3, <6>1, <6>2 DEF Lookup!Pass
          <6> QED
            BY <6>3 DEF Lookup!Next
        <5> QED
          BY <5>1, <5>2
      <4>4. CASE Finds(p) /\ unread' = unread
        <5>1. PICK text \in TextsOf(process[p]) :
                text.name /\ outcome' = ParametersOf(text) /\ pc' = "out"
          BY <4>4 DEF Finds
        <5>2. process[p] \in Running /\ process[p] \in Named /\ Running \subseteq ran
          BY <4>0, <5>1, TextsTyped DEF Running, CallInv
        <5>3. Lookup!Answers \/ Lookup!Fails \/ Lookup!Deviates
          <6>1. CASE ~Extracts(text)
            BY <3>4, <4>0, <5>1, <5>2, <6>1 DEF ParametersOf, Lookup!Fails
          <6>2. CASE Extracts(text) /\ text.token \in Lcus
            <7>1. /\ process[p] = text.token
                  /\ outcome' = [what |-> "parameters", token |-> process[p],
                                 port |-> PortOf[process[p]]]
              BY <5>1, <6>2, ParametersAreOfOneLcu
            <7>2. Found' = process[p] /\ process[p] \in Lcus
              BY <6>2, <7>1 DEF Found
            <7> QED
              BY <5>2, <7>2 DEF Lookup!Answers
          <6>3. CASE Extracts(text) /\ text.token \notin Lcus
            <7>1. process[p] = "mention"
              BY <5>2, <6>3 DEF Named, TextsOf, Text, Extracts
            <7>2. Found' \in {"foreign", "undocumented"}
              BY <3>4, <5>1, <6>3 DEF ParametersOf, Found
            <7> QED
              BY <4>0, <5>2, <7>1, <7>2 DEF Lookup!Deviates
          <6> QED
            BY <6>1, <6>2, <6>3
        <5> QED
          BY <3>2, <4>0, <4>4, <5>1, <5>3
      <4> QED
        BY <4>1, <4>2, <4>3, <4>4
    <3>9. CASE Enumerate \/ OpenProcess
      BY <3>3, <3>9 DEF Enumerate, OpenProcess
    <3>13. CASE extract_process_name
      <4>1. CASE End(Thrown("std::bad_alloc"))
        BY <3>2, <3>4, <3>13, <4>1 DEF extract_process_name, Lookup!Deviates
      <4>2. CASE ~End(Thrown("std::bad_alloc"))
        BY <3>3, <3>13, <4>2 DEF extract_process_name, CloseOther
      <4> QED
        BY <4>1, <4>2
    <3>14. ASSUME outcome' = Thrown("Lcu_parameters_exception"), platform = "windows"
          PROVE  Lookup!Fails
      BY <3>4, <3>14 DEF Lookup!Fails
    <3>10. CASE EnumerateFails \/ ScanEnds
      BY <3>2, <3>14, <3>10 DEF EnumerateFails, ScanEnds, CallInv
    <3>11. CASE load_nt_dll \/ retrieve_nt_query_information_process_function_pointer
                \/ extract_process_command
      <4>1. /\ pc # "out" /\ UNCHANGED moments /\ unread' = unread
            /\ platform = "windows"
        BY <3>11 DEF load_nt_dll, retrieve_nt_query_information_process_function_pointer,
           extract_process_command, CallInv
      <4>2. CASE CloseAndRethrow
        BY <3>2, <3>14, <4>1, <4>2 DEF CloseAndRethrow
      <4>3. CASE ~CloseAndRethrow
        BY <3>3, <3>11, <4>1, <4>3 DEF load_nt_dll, extract_process_command,
           retrieve_nt_query_information_process_function_pointer
      <4> QED
        BY <4>2, <4>3
    <3> QED
      BY <2>2, <3>5, <3>6, <3>7, <3>8, <3>9, <3>13, <3>10, <3>11 DEF LookupStep
  <2>3. CASE Renew
    BY <2>3, LookupFrame DEF Renew, Lookup!vars, Found
  <2>4. ASSUME NEW p \in Pids, NEW what, System(p, what)
        PROVE  Lookup!Next
    BY <2>4 DEF System, Running, Named, Found, Lookup!Next, Lookup!Change
  <2>5. CASE UNCHANGED vars
    BY <2>5 DEF vars, Lookup!vars, Found, Running
  <2> QED
    BY <2>1, <2>2, <2>3, <2>4, <2>5 DEF Next, Done, Start, Exit, StartLcu
<1> QED
  BY <1>1, <1>2, TypeCorrect, CallsCorrect, ScanCorrect, PTL
  DEF Spec, KeepsLookup, Lookup!Spec

----------------------------------------------------------------------------

NotListed(from) == {p \in Pids : p > from}

\* Sets of processes can be counted.
LEMMA CountsOfPids ==
  ASSUME NEW S \in SUBSET Pids
  PROVE  /\ IsFiniteSet(S) /\ Cardinality(S) \in Nat
         /\ Cardinality(S) <= Cardinality(Pids) /\ Cardinality(Pids) \in Nat
  BY ProcessAssumption, FS_Subset, FS_CardinalityType

\* An entry that is obtained is not ahead any more, and in the buffer.
LEMMA ListingCounts ==
  ASSUME NEW from \in Nat, NEW L \in SUBSET Pids, NEW p \in Pids, p > from
  PROVE  /\ Cardinality(NotListed(p)) < Cardinality(NotListed(from))
         /\ Cardinality(L \cup {p}) <= Cardinality(L) + 1
<1>1. NotListed(p) \subseteq NotListed(from) \ {p} /\ p \in NotListed(from)
  <2>1. p \in NotListed(from)
    BY DEF NotListed
  <2>2. ASSUME NEW q \in Pids, q > p
        PROVE  q > from /\ q # p
    <3>1. p \in Nat /\ q \in Nat
      BY ProcessAssumption
    <3> QED BY <2>2, <3>1
  <2> QED BY <2>1, <2>2 DEF NotListed
<1>2. NotListed(from) \in SUBSET Pids /\ NotListed(p) \in SUBSET Pids
  BY DEF NotListed
<1>3. /\ IsFiniteSet(NotListed(from) \ {p})
      /\ Cardinality(NotListed(from) \ {p}) = Cardinality(NotListed(from)) - 1
  BY <1>1, <1>2, CountsOfPids, FS_RemoveElement
<1>4. Cardinality(NotListed(p)) <= Cardinality(NotListed(from) \ {p})
  BY <1>1, <1>3, FS_Subset
<1>5. Cardinality(NotListed(from)) \in Nat /\ Cardinality(NotListed(p)) \in Nat
  BY <1>2, CountsOfPids
<1>6. Cardinality(L \cup {p}) <= Cardinality(L) + 1
  BY CountsOfPids, FS_AddElement
<1> QED
  BY <1>3, <1>4, <1>5, <1>6

\* An entry that is looked at is taken out of the buffer.
LEMMA LookingCounts ==
  ASSUME NEW L \in SUBSET Pids, NEW p \in L
  PROVE  Cardinality(L \ {p}) = Cardinality(L) - 1
  BY CountsOfPids, FS_RemoveElement

\* What is left to do is a natural number, so that it goes down only finitely
\* often.
LEMMA StepsAreCounted == TypeOK => StepsLeft \in Nat
<1>1. SUFFICES ASSUME TypeOK PROVE StepsLeft \in Nat
  OBVIOUS
<1>2. Cardinality({p \in Pids : p > cursor}) \in Nat /\ Cardinality(listed) \in Nat
      /\ Cardinality(Pids) \in Nat
  BY <1>1, CountsOfPids DEF TypeOK
<1> QED BY <1>1, <1>2 DEF TypeOK, StepsLeft

\* Of the steps to the end: those that do not depend on entries.
StepsAt(label) ==
  CASE label = "enumerate" -> 5 + 2 * Cardinality(Pids)
    [] label = "getdents" -> 5
    [] label = "scan" -> 4
    [] label = "name" -> 5
    [] label = "load_nt_dll" -> 3
    [] label = "retrieve_pointer" -> 2
    [] label = "read_memory" -> 1
    [] OTHER -> 0

\* For any number of processes, whatever starts and ends beside the lookup: its
\* steps are bounded, as each of them brings StepsLeft, a natural number, down.
THEOREM LookupAlwaysAdvances == Spec => LookupAdvances
<1>2. ASSUME TypeOK, TypeOK', [Next]_vars, pc # "out",
             ~UNCHANGED <<pc, cursor, listed, handle>>
      PROVE  StepsLeft' < StepsLeft
  <2> DEFINE a == Cardinality(NotListed(cursor))
             l == Cardinality(listed)
             n == Cardinality(Pids)
  <2>1. /\ a \in Nat /\ a' \in Nat /\ l \in Nat /\ l' \in Nat
        /\ n \in Nat /\ l' <= n
    BY <1>2, CountsOfPids DEF TypeOK, NotListed
  <2>2. /\ StepsLeft = 3 * a + 2 * l + StepsAt(pc)
        /\ StepsLeft' = 3 * a' + 2 * l' + StepsAt(pc')
    BY DEF StepsLeft, StepsAt, NotListed
  <2>3. /\ cursor' = cursor => a' = a
        /\ listed' = listed => l' = l
    OBVIOUS
  <2>4. LookupStep
    BY <1>2 DEF Next, Call, Renew, Start, StartLcu, Exit, System, Done, vars, At
  <2> HIDE DEF a, l, n
  <2> USE DEF OnLinux, OnWindows, At, End
  <2>5. CASE PathNotFound \/ NotRunning
    <3>1. /\ pc = "getdents" /\ pc' = "out"
          /\ UNCHANGED <<cursor, listed>>
      BY <2>5 DEF PathNotFound, NotRunning
    <3> QED BY <2>1, <2>2, <2>3, <3>1 DEF StepsAt
  <2>6. CASE ListEntry
    <3>1. PICK p \in Pids : p > cursor /\ cursor' = p /\ listed' = listed \cup {p}
      BY <2>6 DEF ListEntry, Ahead
    <3>2. a' < a /\ l' <= l + 1
      BY <1>2, <3>1, ListingCounts DEF TypeOK, a, l
    <3>3. StepsAt(pc') = 5 /\ StepsAt(pc) = 5
      BY <2>6 DEF ListEntry, StepsAt
    <3>4. ASSUME NEW x \in Nat, NEW y \in Nat, NEW v \in Nat, NEW w \in Nat,
                 x < y, v <= w + 1
          PROVE  3 * x + 2 * v + 5 < 3 * y + 2 * w + 5
      BY <3>4
    <3> QED BY <2>1, <2>2, <3>2, <3>3, <3>4
  <2>7. CASE ListDone
    <3>1. /\ pc = "getdents" /\ pc' = "scan"
          /\ UNCHANGED <<cursor, listed>>
      BY <2>7 DEF ListDone
    <3> QED BY <2>1, <2>2, <2>3, <3>1 DEF StepsAt
  <2>8. CASE ReadCmdline \/ OpenProcess
    <3>1. PICK p \in listed : listed' = listed \ {p}
      BY <2>8 DEF ReadCmdline, OpenProcess
    <3>2. l' = l - 1
      BY <1>2, <3>1, LookingCounts DEF TypeOK, l
    <3>3. pc = "scan" /\ pc' \in {"scan", "getdents", "name", "out"} /\ cursor' = cursor
      BY <2>8 DEF ReadCmdline, Finds, OpenProcess
    <3>4. StepsAt(pc) = 4 /\ StepsAt(pc') \in {4, 5, 0}
      BY <3>3 DEF StepsAt
    <3> QED BY <2>1, <2>2, <2>3, <3>2, <3>3, <3>4
  <2>9. CASE Enumerate
    <3>1. pc = "enumerate" /\ pc' = "scan" /\ cursor' = cursor
      BY <2>9 DEF Enumerate
    <3>2. StepsAt(pc) = 5 + 2 * n /\ StepsAt(pc') = 4
      BY <3>1 DEF StepsAt, n
    <3> QED BY <2>1, <2>2, <2>3, <3>1, <3>2
  <2>10. CASE EnumerateFails
    <3>1. /\ pc = "enumerate" /\ pc' = "out"
          /\ UNCHANGED <<cursor, listed>>
      BY <2>10 DEF EnumerateFails
    <3>2. StepsAt(pc) = 5 + 2 * n /\ StepsAt(pc') = 0
      BY <3>1 DEF StepsAt, n
    <3> QED BY <2>1, <2>2, <2>3, <3>1, <3>2
  <2>11. CASE extract_process_name \/ ScanEnds \/ load_nt_dll \/ extract_process_command
              \/ retrieve_nt_query_information_process_function_pointer
    <3>1. UNCHANGED <<cursor, listed>>
      BY <2>11 DEF extract_process_name, ScanEnds, load_nt_dll, extract_process_command,
         retrieve_nt_query_information_process_function_pointer
    <3>2. StepsAt(pc') < StepsAt(pc) /\ StepsAt(pc) \in Nat /\ StepsAt(pc') \in Nat
      BY <1>2, <2>11, <3>1 DEF extract_process_name, ScanEnds, load_nt_dll, extract_process_command,
         retrieve_nt_query_information_process_function_pointer, CloseAndRethrow, CloseOther, StepsAt
    <3> QED BY <2>1, <2>2, <2>3, <3>1, <3>2
  <2> QED
    BY <2>4, <2>5, <2>6, <2>7, <2>8, <2>9, <2>10, <2>11 DEF LookupStep
<1>3. TypeOK /\ TypeOK' /\ [Next]_vars
        => [pc # "out" => \/ StepsLeft' < StepsLeft
                          \/ UNCHANGED <<pc, cursor, listed, handle>>]_vars
  BY <1>2
<1> QED
  BY <1>3, TypeCorrect, PTL DEF Spec, LookupAdvances

============================================================================
