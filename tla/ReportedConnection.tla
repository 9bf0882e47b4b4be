------------------------ MODULE ReportedConnection ------------------------
(***************************************************************************)
(* What the owner of an Lcu_websocket_handler may rely on: ConnectionEvents *)
(* tied to the connection itself.  LcuWampHandler.tla is written against   *)
(* this behaviour of the handler underneath it, and LcuWebsocketHandler    *)
(* implements it.  Messages can be sent while there is a connection,       *)
(* whether or not it has been reported yet.                                *)
(***************************************************************************)

VARIABLES
  up, cb, registered,  \* as in ConnectionEvents
  connected            \* whether the handler has a connection it has not given up

Events == INSTANCE ConnectionEvents

vars == <<Events!vars, connected>>

Init ==
  /\ up = FALSE /\ cb = "none" /\ registered \subseteq Events!Callbacks
  /\ connected = FALSE

\* A connection is made only after the loss of the last has been reported ...
Connect ==
  /\ ~connected /\ ~up /\ cb = "none"
  /\ connected' = TRUE
  /\ UNCHANGED Events!vars

\* ... and given up only after it has been reported itself, and not under a
\* callback that is being executed.
Lose ==
  /\ connected /\ up /\ cb = "none"
  /\ connected' = FALSE
  /\ UNCHANGED Events!vars

\* What is reported is so: a connection and its messages while it is there, its
\* loss afterwards.
Report ==
  /\ \/ connected /\ Events!Report("connected", TRUE)
     \/ connected /\ Events!Deliver
     \/ ~connected /\ Events!Report("disconnected", FALSE)
  /\ UNCHANGED connected

Return == Events!Return /\ UNCHANGED connected

Register(c) == ~connected /\ Events!Register(c) /\ UNCHANGED connected

Next ==
  \/ Connect \/ Lose \/ Report \/ Return
  \/ \E c \in Events!Callbacks : Register(c)

Spec == Init /\ [][Next]_vars

============================================================================
