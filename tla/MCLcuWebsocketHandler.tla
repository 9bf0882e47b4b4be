----------------------- MODULE MCLcuWebsocketHandler -----------------------
(***************************************************************************)
(* Instances of LcuWebsocketHandler for TLC: the .cfg files choose the     *)
(* application threads, what they and the callbacks call, and the bound.   *)
(***************************************************************************)
EXTENDS LcuWebsocketHandler, TLC

AllUserCalls == {"send", "stop", "destroy"}
UserCallsNoDestroy == {"send", "stop"}
SendOnly == {"send"}
StopOnly == {"stop"}
NoCalls == {}

\* Application threads are interchangeable; used by runs without liveness.
UserSymmetry == Permutations(Users)

============================================================================
