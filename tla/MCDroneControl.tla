--------------------------- MODULE MCDroneControl ---------------------------
(* One goal handle, used again and again: goals follow each other.         *)
EXTENDS DroneControl
=============================================================================
