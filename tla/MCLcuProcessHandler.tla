------------------------ MODULE MCLcuProcessHandler ------------------------
(***************************************************************************)
(* Constants of LcuProcessHandler.tla for TLC.                             *)
(***************************************************************************)
EXTENDS LcuProcessHandler

CONSTANTS l1, l2

\* Two ports of two digits, of which each has the first as a port, too.
PortsOfTwo == [l \in Lcus |-> IF l = l1 THEN 41 ELSE 63]

============================================================================
