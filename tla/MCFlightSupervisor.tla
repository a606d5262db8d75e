------------------------- MODULE MCFlightSupervisor -------------------------
(* Two goal handles: a client that waits and one that asks meanwhile.      *)
EXTENDS FlightSupervisor
=============================================================================
