------------------------- MODULE ConnectionEvents -------------------------
(***************************************************************************)
(* What Lcu_websocket_handler promises the application about its           *)
(* callbacks: connections and disconnections are reported alternately,     *)
(* messages only between a connection and the following disconnection, and *)
(* one callback at a time.  Nothing is said of threads, sockets or locks.  *)
(***************************************************************************)

VARIABLES
  up,         \* what the application has been told: connected or not
  cb,         \* the callback being executed, or "none"
  registered  \* the callbacks the application has registered

vars == <<up, cb, registered>>

Callbacks == {"connected", "disconnected", "message"}

TypeOK ==
  /\ up \in BOOLEAN
  /\ cb \in Callbacks \cup {"none"}
  /\ registered \subseteq Callbacks

Init == up = FALSE /\ cb = "none" /\ registered = {}

Register(c) ==
  /\ cb = "none" /\ ~up
  /\ registered' = registered \cup {c}
  /\ UNCHANGED <<up, cb>>

\* A change of state is silent when its callback is not registered;
\* otherwise it takes effect when the callback returns.
Report(c, state) ==
  /\ cb = "none" /\ up # state
  /\ IF c \in registered
       THEN cb' = c /\ UNCHANGED up
       ELSE up' = state /\ UNCHANGED cb
  /\ UNCHANGED registered

Deliver ==
  /\ cb = "none" /\ up /\ "message" \in registered
  /\ cb' = "message"
  /\ UNCHANGED <<up, registered>>

Return ==
  /\ cb # "none"
  /\ cb' = "none"
  /\ up' = (cb # "disconnected")
  /\ UNCHANGED registered

Next ==
  \/ \E c \in Callbacks : Register(c)
  \/ Report("connected", TRUE)
  \/ Report("disconnected", FALSE)
  \/ Deliver
  \/ Return

Spec == Init /\ [][Next]_vars

===========================================================================
