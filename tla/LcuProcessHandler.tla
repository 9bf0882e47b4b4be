------------------------- MODULE LcuProcessHandler -------------------------
(***************************************************************************)
(* Lcu_process_handler: get_lcu_process_parameters() walks through the     *)
(* processes of the system, while these start and end, and takes port and  *)
(* token from the command line of the League client (LCU).  On Linux it    *)
(* reads /proc; on Windows it opens each process and copies the command    *)
(* line out of the LCU's memory.  A handler is used by one thread.         *)
(***************************************************************************)
EXTENDS Naturals, FiniteSets

CONSTANTS
  Pids,        \* the numbers of processes; /proc lists them in this order
  Lcus,        \* League clients: each starts once
  None, Foreign,  \* no token, one of no LCU
  PortOf,      \* the port of each
  PortRange,   \* 65536: app_port is a uint16_t
  IntMax       \* 2147483647: what stoi() can return

ASSUME ProcessAssumption ==
  /\ Pids \subseteq Nat \ {0} /\ IsFiniteSet(Pids)
  /\ None \notin Lcus /\ Foreign \notin Lcus \cup {None}
  /\ Lcus \cap {"none", "other", "mention", "mixed", "foreign", "not_running",
               "unreadable", "no_directory", "out_of_memory", "undocumented"} = {}
ASSUME PortAssumption ==
  /\ PortRange \in Nat \ {0} /\ IntMax \in Nat /\ PortRange <= IntMax
  /\ PortOf \in [Lcus -> 1 .. PortRange - 1]

VARIABLES
  platform,
  process,    \* what runs under a number: nothing, an LCU, a process whose
              \* command line mentions LeagueClientUx.exe, or another one
  started,    \* the LCUs that have been started
  pc,         \* "out", or where the call is
  cursor,     \* the position in the directory
  listed,     \* the entries obtained and not yet looked at
  handle,     \* Windows: the process that process_handle has open
  m_dll_lib, m_nt_ptr,  \* Windows: loaded, the address is known
  fate,       \* "alive", or "access_violation"
  outcome,    \* of the last call
  ran,        \* history: what ran at some moment of it, and what ran
  throughout, \* at every moment, of LCUs and processes that mention one
  unread      \* history: the LCUs that it has passed without reading anything

system == <<process, started>>
dll == <<m_dll_lib, m_nt_ptr>>
moments == <<ran, throughout>>
vars == <<platform, system, pc, cursor, listed, handle, dll, fate, outcome,
          moments, unread>>

Exceptions ==
  {"Lcu_not_running_exception", "Lcu_parameters_exception",
   "Path_not_found_exception", "std::out_of_range", "std::bad_alloc"}
Thrown(exception) == [what |-> exception, token |-> None, port |-> 0]
Nothing == Thrown("none")
\* Parameters always have a token: where there is none, something is thrown.
Outcomes ==
  [what : {"parameters"}, token : Lcus \cup {Foreign}, port : 0 .. PortRange - 1]
    \cup {Thrown(exception) : exception \in {"none"} \cup Exceptions}

Named == Lcus \cup {"mention"}
Running == {what \in Named : \E p \in Pids : process[p] = what}

TypeOK ==
  /\ platform \in {"linux", "windows"}
  /\ process \in [Pids -> {"none", "other", "mention"} \cup Lcus]
  /\ started \subseteq Lcus
  /\ pc \in {"out", "getdents", "scan", "enumerate", "name", "load_nt_dll",
             "retrieve_pointer", "read_memory"}
  /\ cursor \in Nat /\ listed \subseteq Pids
  /\ handle \in Pids \cup {None}
  /\ m_dll_lib \in BOOLEAN /\ m_nt_ptr \in BOOLEAN
  /\ fate \in {"alive", "access_violation"}
  /\ outcome \in Outcomes
  /\ ran \subseteq Named /\ throughout \subseteq Named /\ unread \subseteq Lcus

Init ==
  /\ platform \in {"linux", "windows"}
  /\ process = [p \in Pids |-> "none"] /\ started = {}
  /\ pc = "out" /\ cursor = 0 /\ listed = {} /\ handle = None
  /\ m_dll_lib = FALSE /\ m_nt_ptr = FALSE
  /\ fate = "alive" /\ outcome = Nothing
  /\ ran = {} /\ throughout = {} /\ unread = {}

----------------------------------------------------------------------------
(* Port and token in a command line.  A definition called faulty is the    *)
(* definition after it with a mistake that the code does not make.         *)

\* A text: whether LeagueClientUx.exe is in it, the two parameters, and which
\* of them nothing follows.
Text(name, token, port, open) ==
  [name |-> name, token |-> token, port |-> port, open |-> open]

\* What std::getline() may read of the cmdline of a process once it is open:
\* all of it, or the part before a newline or before the limit of the kernel.
\* Parameters in the command line of a "mention" are its own, and the port is
\* any number.
TextsOf(what) ==
  IF what \in Lcus
    THEN {Text(TRUE, what, PortOf[what], "none"),
          Text(TRUE, what, PortOf[what] \div 10, "port"),
          Text(TRUE, what, 0, "none"), Text(TRUE, what, 0, "token"),
          Text(TRUE, None, 0, "none")}
    ELSE IF what = "mention"
      THEN {Text(TRUE, token, port, "none") :
              token \in {None, Foreign}, port \in {0, PortRange + 1, IntMax + 1}}
      ELSE {Text(FALSE, None, 0, "none")}

\* Faulty: a parameter may be the last of the text.
ExtractsAtEnd(text) == text.token # None /\ text.port # 0
\* Faulty: extract_remoting_auth_token() returns what it has not found.
ExtractsWithoutToken(text) == text.port # 0 /\ text.open # "port"
\* extract_remoting_auth_token() and extract_app_port() find both, each
\* followed by a character that does not belong to it.
Extracts(text) ==
  /\ text.token # None /\ text.open # "token"
  /\ text.port # 0 /\ text.open # "port"

\* The end of get_lcu_process_parameters(): what is returned or thrown for
\* the text that get_lcu_process_command() has returned.
ParametersOf(text) ==
  IF ~Extracts(text) THEN Thrown("Lcu_parameters_exception")
  ELSE IF text.port > IntMax THEN Thrown("std::out_of_range")
  ELSE [what |-> "parameters", token |-> text.token, port |-> text.port % PortRange]

----------------------------------------------------------------------------

Call ==
  /\ fate = "alive" /\ pc = "out"
  /\ pc' = IF platform = "linux" THEN "getdents" ELSE "enumerate"
  /\ cursor' = 0 /\ listed' = {}
  /\ outcome' = Nothing /\ handle' = None
  /\ ran' = Running /\ throughout' = Running /\ unread' = {}
  /\ UNCHANGED <<platform, system, dll, fate>>

At(label) == fate = "alive" /\ pc = label /\ UNCHANGED <<platform, system, moments>>

End(result) == pc' = "out" /\ outcome' = result

----------------------------------------------------------------------------
(* Linux.                                                                  *)

OnLinux == UNCHANGED <<handle, dll, fate>>

\* m_proc_dir is not there, or cannot be read on: a filesystem_error.
PathNotFound ==
  /\ At("getdents") /\ listed = {}
  /\ End(Thrown("Path_not_found_exception"))
  /\ UNCHANGED <<cursor, listed, unread>> /\ OnLinux

\* The processes that directory_iterator has not got to.
Ahead == {p \in Pids : p > cursor /\ process[p] # "none"}

\* directory_iterator fills its buffer ...
ListEntry ==
  /\ At("getdents")
  /\ \E p \in Ahead :
       /\ \A q \in Ahead : p <= q
       /\ cursor' = p /\ listed' = listed \cup {p}
  /\ UNCHANGED <<pc, outcome, unread>> /\ OnLinux

\* Faulty: begins with a new directory_iterator.
ListDoneRewinds ==
  /\ At("getdents") /\ listed # {}
  /\ pc' = "scan" /\ cursor' = 0
  /\ UNCHANGED <<listed, outcome, unread>> /\ OnLinux
\* ... and hands out what is in it before it goes on.
ListDone ==
  /\ At("getdents") /\ listed # {}
  /\ pc' = "scan"
  /\ UNCHANGED <<cursor, listed, outcome, unread>> /\ OnLinux

NotRunning ==
  /\ At("getdents") /\ listed = {} /\ Ahead = {}
  /\ End(Thrown("Lcu_not_running_exception"))
  /\ UNCHANGED <<cursor, listed, unread>> /\ OnLinux

\* Faulty: an empty cmdline ends the loop.
StopsAtGone(p) ==
  IF process[p] = "none"
    THEN End(Thrown("Lcu_not_running_exception"))
    ELSE \E text \in {t \in TextsOf(process[p]) : t.name} : End(ParametersOf(text))
\* The name of the LCU is in the cmdline.
Finds(p) ==
  \E text \in TextsOf(process[p]) : text.name /\ End(ParametersOf(text))

\* The cmdline of a process that is gone by now cannot be opened, and no text
\* is read, as of one that mentions nothing.
FindsNothing(p) ==
  /\ \E text \in TextsOf(process[p]) : ~text.name
  /\ UNCHANGED unread

\* Nothing is read of a process that runs: cmdline_file cannot be opened
\* (rights, the limit of open files); or the number is not taken for one, as
\* the string_view that is_positive_integer() gets points into the path that
\* stem() returned, which is gone by then.
FindsNothingUnread(p) ==
  /\ process[p] # "none"
  /\ unread' = unread \cup ({process[p]} \cap Lcus)

\* The entries come in the order of the directory.
ReadCmdline ==
  /\ At("scan") /\ platform = "linux"
  /\ \E p \in listed :
       /\ \A q \in listed : p <= q
       /\ listed' = listed \ {p}
       /\ \/ Finds(p) /\ UNCHANGED unread
          \/ /\ FindsNothing(p) \/ FindsNothingUnread(p)
             /\ pc' = IF listed' = {} THEN "getdents" ELSE "scan"
             /\ UNCHANGED outcome
  /\ UNCHANGED cursor /\ OnLinux

----------------------------------------------------------------------------
(* Windows.                                                                *)

OnWindows == UNCHANGED <<cursor, unread>>

\* EnumProcesses() copies the numbers of all processes.
Enumerate ==
  /\ At("enumerate")
  /\ listed' = {p \in Pids : process[p] # "none"} /\ pc' = "scan"
  /\ UNCHANGED <<outcome, handle, dll, fate>> /\ OnWindows

EnumerateFails ==
  /\ At("enumerate")
  /\ End(Thrown("Lcu_parameters_exception"))
  /\ UNCHANGED <<listed, handle, dll, fate>> /\ OnWindows

\* Any of the processes is next.  One that is gone, or that does not let
\* itself be opened, gives the handle NULL.
OpenProcess ==
  /\ At("scan") /\ platform = "windows"
  /\ \E p \in listed :
       /\ listed' = listed \ {p}
       /\ handle' \in {None} \cup (IF process[p] = "none" THEN {} ELSE {p})
  /\ pc' = "name"
  /\ UNCHANGED <<outcome, dll, fate>> /\ OnWindows

\* Faulty: the loop goes on without CloseHandle().
LeaveOpen == pc' = "scan" /\ UNCHANGED <<outcome, handle>>
\* The process has another name, or its name is not to be had.
CloseOther == pc' = "scan" /\ handle' = None /\ UNCHANGED outcome

\* An exception of extract_process_name(), which copies the name into a
\* string, passes CloseHandle() by: the call stands outside the try.
extract_process_name ==
  /\ At("name")
  /\ \/ CloseOther
     \/ /\ handle # None /\ process[handle] \in Lcus
        /\ pc' = "load_nt_dll" /\ UNCHANGED <<outcome, handle>>
     \/ /\ handle # None
        /\ End(Thrown("std::bad_alloc")) /\ UNCHANGED handle
  /\ UNCHANGED <<listed, dll, fate>> /\ OnWindows

\* It is not Lcu_not_running_exception here.
ScanEnds ==
  /\ At("scan") /\ platform = "windows" /\ listed = {}
  /\ End(Thrown("Lcu_parameters_exception"))
  /\ UNCHANGED <<listed, handle, dll, fate>> /\ OnWindows

\* The exception is caught, the handle closed, and the exception rethrown.
CloseAndRethrow == End(Thrown("Lcu_parameters_exception")) /\ handle' = None

load_nt_dll ==
  /\ At("load_nt_dll")
  /\ \/ m_dll_lib' = TRUE /\ pc' = "retrieve_pointer" /\ UNCHANGED <<outcome, handle>>
     \/ ~m_dll_lib /\ CloseAndRethrow /\ UNCHANGED m_dll_lib
  /\ UNCHANGED <<listed, m_nt_ptr, fate>> /\ OnWindows

retrieve_nt_query_information_process_function_pointer ==
  /\ At("retrieve_pointer")
  /\ \/ m_nt_ptr' = TRUE /\ pc' = "read_memory" /\ UNCHANGED <<outcome, handle>>
     \/ ~m_nt_ptr /\ CloseAndRethrow /\ UNCHANGED m_nt_ptr
  /\ UNCHANGED <<listed, m_dll_lib, fate>> /\ OnWindows

\* The command line is copied into command_buffer, but what is converted is
\* `command`, an address in the LCU: nothing is there in this process, or
\* another text, and an access violation is no C++ exception.
extract_process_command ==
  /\ At("read_memory")
  /\ \/ CloseAndRethrow /\ UNCHANGED fate
     \/ fate' = "access_violation" /\ UNCHANGED <<pc, outcome, handle>>
  /\ UNCHANGED <<listed, dll>> /\ OnWindows

\* ~Lcu_process_handler_impl() unloads the DLL; another handler is made.
Renew ==
  /\ At("out") /\ platform = "windows"
  /\ m_dll_lib' = FALSE /\ m_nt_ptr' = FALSE
  /\ UNCHANGED <<pc, listed, outcome, handle, fate>> /\ OnWindows

----------------------------------------------------------------------------
(* The processes of the system.                                            *)

System(p, what) ==
  /\ process' = [process EXCEPT ![p] = what]
  /\ IF pc = "out"
       THEN UNCHANGED moments
       ELSE ran' = ran \cup Running' /\ throughout' = throughout \cap Running'
  /\ UNCHANGED <<platform, pc, cursor, listed, handle, dll, fate, outcome, unread>>

Start(p) ==
  /\ process[p] = "none"
  /\ \E what \in {"other", "mention"} : System(p, what)
  /\ UNCHANGED started

\* The LCU is a new process, or what another one has become.
StartLcu(p, l) ==
  /\ process[p] \in {"none", "other"} /\ l \notin started
  /\ started' = started \cup {l} /\ System(p, l)

Exit(p) ==
  /\ process[p] # "none" /\ System(p, "none")
  /\ UNCHANGED started

Done == fate # "alive" /\ UNCHANGED vars

----------------------------------------------------------------------------

LookupStep ==
  \/ PathNotFound \/ ListEntry \/ ListDone \/ NotRunning \/ ReadCmdline
  \/ Enumerate \/ EnumerateFails \/ OpenProcess \/ extract_process_name \/ ScanEnds
  \/ load_nt_dll \/ retrieve_nt_query_information_process_function_pointer
  \/ extract_process_command

Next ==
  \/ Call \/ LookupStep \/ Renew
  \/ \E p \in Pids : Start(p) \/ Exit(p) \/ \E l \in Lcus : StartLcu(p, l)
  \/ Done

Spec == Init /\ [][Next]_vars

\* The thread that looks is scheduled; nothing is assumed of processes.
FairSpec == Spec /\ WF_vars(LookupStep)

----------------------------------------------------------------------------
(* Properties.                                                             *)

\* What comes out of a call, with each way to fail under a name of its own.
Found ==
  CASE outcome.what = "none" -> "none"
    [] outcome.what = "Lcu_not_running_exception" -> "not_running"
    [] outcome.what = "Lcu_parameters_exception" -> "unreadable"
    [] outcome.what = "Path_not_found_exception" -> "no_directory"
    [] outcome.what = "std::bad_alloc" -> "out_of_memory"
    [] outcome.what = "std::out_of_range" -> "undocumented"
    [] outcome.what = "parameters" /\ outcome.token \notin Lcus -> "foreign"
    [] OTHER ->
         IF outcome.port = PortOf[outcome.token] THEN outcome.token ELSE "mixed"

\* LcuLookup, whatever starts and ends beside the scan: an LCU that runs
\* throughout and can be read is not called absent; parameters are those of an
\* LCU that ran during the call, and foreign ones or an exception that is not
\* documented take a process that mentions the LCU (linux l.33-48, header
\* l.52-71).  On Windows, where an absent LCU is told as unreadable parameters
\* (l.126), LcuLookup does not ask for more than that.
Lookup ==
  INSTANCE LcuLookup WITH Mention <- "mention", onLinux <- platform = "linux",
    running <- Running, busy <- pc # "out", result <- Found
KeepsLookup == Lookup!Spec

\* A token of an LCU that is returned comes with its own port, whole, and its
\* LCU ran during the call, although command lines are cut anywhere and
\* processes end and become others between the listing and the reading (linux
\* l.33-48, lcu_process_handler_helpers.cpp l.10, l.23).
ParametersAreReal ==
  pc = "out" /\ outcome.what = "parameters" /\ outcome.token \in Lcus
    => outcome.port = PortOf[outcome.token] /\ outcome.token \in ran

\* Every process that is opened is closed before the next one is, and when the
\* call ends, whether it had another name, was the LCU, or failed to be read
\* (windows l.101-122).  The one exception is the one that the code makes: an
\* exception of extract_process_name() (l.104) leaves the handle open.
HandlesAreClosed ==
  /\ pc = "scan" => handle = None
  /\ pc = "out" => handle = None \/ outcome.what = "std::bad_alloc"

\* What a call may have to do yet: entries to be obtained and to be looked at,
\* and the steps to the end.
StepsLeft ==
  3 * Cardinality({p \in Pids : p > cursor}) + 2 * Cardinality(listed) +
  CASE pc = "enumerate" -> 5 + 2 * Cardinality(Pids)
    [] pc = "getdents" -> 5
    [] pc = "scan" -> 4
    [] pc = "name" -> 5
    [] pc = "load_nt_dll" -> 3
    [] pc = "retrieve_pointer" -> 2
    [] pc = "read_memory" -> 1
    [] OTHER -> 0

\* Whatever starts and ends beside it, a lookup comes nearer to its end with
\* each step and is never set back: the number of steps, with m_socket_mutex
\* locked in reconnect(), is bounded by the number of entries (linux l.33-48).
LookupAdvances ==
  [][pc # "out" =>
       \/ StepsLeft' < StepsLeft
       \/ UNCHANGED <<pc, cursor, listed, handle>>]_vars

\* The lookup ends although processes start and end all the time: reconnect()
\* holds m_socket_mutex for it.
LookupEnds == pc # "out" ~> pc = "out" \/ fate # "alive"

============================================================================
