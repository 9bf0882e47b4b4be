-------------------------- MODULE ClientContract --------------------------
(***************************************************************************)
(* What the handler's event loop relies on when it uses an                 *)
(* Https_websocket_client: LcuWebsocketHandler.tla is written against this *)
(* behaviour of the client and the connection, and HttpsWebsocketClient    *)
(* implements it frame by frame.  `pending` counts what is under way and   *)
(* will make receive_message() return or throw.                            *)
(***************************************************************************)
EXTENDS Naturals

VARIABLES
  client,   \* "unstarted", "connected", "disconnected"
  link,     \* "none", "up", "closed"
  pending

vars == <<client, link, pending>>

Init == client = "unstarted" /\ link = "none" /\ pending = 0

Start ==
  /\ client = "unstarted"
  /\ client' = "connected" /\ link' = "up" /\ pending' = 0

Destroy ==
  /\ client' = "unstarted" /\ link' = "none" /\ pending' = 0

\* receive_message() returns a message, or throws; it may find by what it
\* reads that the connection is of no more use.
Receive ==
  /\ client = "connected" /\ pending > 0
  /\ client' \in {"connected", "disconnected"}
  /\ pending' = pending - 1
  /\ UNCHANGED link

\* Nothing is left to read: the end of the connection is noticed, and only
\* then is the client disconnected without anything read.
NoticeLoss ==
  /\ client = "connected" /\ link = "closed" /\ pending = 0
  /\ client' = "disconnected"
  /\ UNCHANGED <<link, pending>>

Arrive ==
  /\ link = "up" /\ pending' = pending + 1
  /\ UNCHANGED <<client, link>>

Close ==
  /\ link = "up" /\ link' = "closed"
  /\ pending' \in {0, pending}
  /\ UNCHANGED client

Next == Start \/ Destroy \/ Receive \/ NoticeLoss \/ Arrive \/ Close

Spec == Init /\ [][Next]_vars

============================================================================
