----------------------------- MODULE LcuLookup -----------------------------
(***************************************************************************)
(* What get_lcu_process_parameters() promises the handlers that connect    *)
(* with it, by the header, and what it does not promise although the       *)
(* header says so: of the ways to end a call, those with a condition are   *)
(* the contract, and the conditions that the header does not know of are   *)
(* named.  Nothing is said of how processes are found.                     *)
(***************************************************************************)

CONSTANTS
  Lcus,    \* League clients: each starts once and has parameters of its own
  Mention  \* a process that is none and has the LCU's name in its command line

VARIABLES
  onLinux,     \* or on Windows, where an absent LCU is told as an unreadable one
  running,     \* what runs
  ran,         \* what ran at some moment of the call,
  throughout,  \* and what ran at every moment of it
  unread,      \* the LCUs that could not be read when it was their turn
  busy,        \* whether a call is in progress
  result       \* of the last call that has ended

vars == <<onLinux, running, ran, throughout, unread, busy, result>>

Init ==
  /\ onLinux \in BOOLEAN
  /\ running = {} /\ ran = {} /\ throughout = {} /\ unread = {}
  /\ busy = FALSE /\ result = "none"

\* Processes start and end beside the call.
Change ==
  /\ running' \subseteq Lcus \cup {Mention}
  /\ ran' = IF busy THEN ran \cup running' ELSE ran
  /\ throughout' = IF busy THEN throughout \cap running' ELSE throughout
  /\ UNCHANGED <<onLinux, unread, busy, result>>

Call ==
  /\ ~busy /\ busy' = TRUE
  /\ ran' = running /\ throughout' = running /\ unread' = {}
  /\ result' = "none"
  /\ UNCHANGED <<onLinux, running>>

\* An LCU that runs is passed, because nothing of it can be read.
Pass ==
  /\ busy
  /\ \E l \in Lcus \cap running : unread' = unread \cup {l}
  /\ UNCHANGED <<onLinux, running, ran, throughout, busy, result>>

\* The parameters of an LCU that ran, or the absence of all that could be read.
Answers ==
  \/ result' \in Lcus \cap ran
  \/ result' = "not_running" /\ Lcus \cap throughout \subseteq unread

\* The failures that the header knows: a process was found without the
\* parameters, or there is no directory of processes.
Fails ==
  \/ result' = "unreadable" /\ (onLinux => ran # {})
  \/ result' = "no_directory" /\ onLinux

\* What the header does not know: parameters of a process that is no LCU, and
\* exceptions of other types.
Deviates ==
  \/ result' \in {"foreign", "undocumented"} /\ Mention \in ran /\ onLinux
  \/ result' = "out_of_memory"

Return ==
  /\ busy /\ busy' = FALSE
  /\ Answers \/ Fails \/ Deviates
  /\ UNCHANGED <<onLinux, running, ran, throughout, unread>>

Next == Change \/ Call \/ Pass \/ Return

Spec == Init /\ [][Next]_vars

============================================================================
